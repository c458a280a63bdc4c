------------------------------- MODULE Onvif -------------------------------
(***************************************************************************)
(* The camera's ONVIF service (onvif.c, and the PTZ callbacks of           *)
(* producer.c).  One thread serves port 80: it accepts a connection, reads *)
(* a request under a receive timeout, acts on it, answers and closes.      *)
(* GET /preview alone leaves it, for a thread of its own.  The thread owns *)
(* the preset table; a PTZ command it accepts is left for the display      *)
(* process in /tmp/ptz_dir.                                                *)
(*                                                                         *)
(* The inquiries answered from configuration, the SOAP text and the        *)
(* discovery thread, which keeps no state, are one request, "inquiry".     *)
(* A preset is looked up by strncmp over the length of the token asked     *)
(* for: Begins holds the pairs <<t, u>> in which t is a prefix of u.       *)
(* The code does not keep a '|' out of a token, though it ends one there;  *)
(* such tokens are not modelled.                                           *)
(***************************************************************************)
EXTENDS Integers, Sequences, FiniteSets

CONSTANTS
    Conns,          \* connections that can be open at the same time
    Requests,       \* the requests clients send
    Tokens, NoToken, Begins,    \* preset tokens; the empty one; their prefixes
    Names,          \* preset names: the room one takes in a list of presets
    MaxPresets,     \* entries of the table (8)
    ListRoom,       \* room for the list GetPresets answers (1024)
    Backlog,        \* connections the kernel keeps waiting (8)
    HeaderRoom,     \* reads after which a header is too long (4095)
    BodyRoom        \* longest body accepted (8191)

NoConn == "none"
Ops == {"list", "set", "goto", "remove", "left", "right", "stop",
        "imaging", "preview", "inquiry"}
Request == [op : Ops, token : Tokens, name : Names \cup {0}, auth : BOOLEAN]
Inquiry == [op |-> "inquiry", token |-> NoToken, name |-> 0, auth |-> FALSE]
Commands == [cmd : {"LEFT", "RIGHT", "STOP"}, token : {NoToken}]
            \cup [cmd : {"set", "goto", "remove"}, token : Tokens \cup {"?"}]
NoFile == [cmd |-> "no file", token |-> NoToken]
Empty == [cmd |-> "empty", token |-> NoToken]
Cut == "cut"    \* the beginning of an entry that had no room in the answer

ASSUME TokensAssumption ==
    /\ NoToken \in Tokens
    /\ Begins \subseteq Tokens \X Tokens
    /\ \A t \in Tokens : <<t, t>> \in Begins /\ <<NoToken, t>> \in Begins
    /\ \A t, u, v \in Tokens : <<t, u>> \in Begins /\ <<u, v>> \in Begins => <<t, v>> \in Begins
    /\ \A t, u \in Tokens : <<t, u>> \in Begins /\ <<u, t>> \in Begins => t = u
ASSUME OnvifConstants ==
    /\ NoConn \notin Conns /\ Cut \notin Tokens
    /\ Requests \subseteq Request
    /\ Names \subseteq Nat /\ MaxPresets \in Nat /\ ListRoom \in Nat
    /\ Backlog \in Nat /\ HeaderRoom \in Nat /\ BodyRoom \in Nat
VARIABLES
    st,         \* connections: "idle", "open", "answered", "dropped" (closed
                \* without an answer), "preview", "lost" (never closed)
    req,        \* connections: the request sent
    told,       \* connections: the presets the answer lists
    backlog,    \* the connections that wait to be accepted
    serving,    \* the connection the HTTP thread serves, or NoConn
    at,         \* the HTTP thread's next step
    got, len,   \* reads done of the header or the body; the body's length
    presets,    \* the table, in order: [token, name]
    ircut,      \* the day/night mode shown to clients
    ptzDir      \* /tmp/ptz_dir: NoFile, Empty or a command

client == <<st, req, told>>
thread == <<serving, at, got, len>>
camera == <<presets, ircut>>
vars == <<client, backlog, thread, camera, ptzDir>>

Steps == {"accept", "header", "body", "dispatch", "open", "write", "reply"}
ConnStates == {"idle", "open", "answered", "dropped", "preview", "lost"}
Entry == [token : Tokens, name : Names \cup {0}]

\* The shape of the state.
TypeOK ==
    /\ st \in [Conns -> ConnStates]
    /\ req \in [Conns -> Request]
    /\ told \in [Conns -> Seq(Tokens \cup {Cut})]
    /\ backlog \in Seq(Conns) /\ serving \in Conns \cup {NoConn}
    /\ at \in Steps /\ got \in 0 .. HeaderRoom + BodyRoom /\ len \in 0 .. BodyRoom
    /\ at = "accept" <=> serving = NoConn
    /\ presets \in Seq(Entry) /\ Len(presets) <= MaxPresets
    /\ ircut \in {"ON", "OFF", "AUTO"}
    /\ ptzDir \in Commands \cup {NoFile, Empty}

Init ==
    /\ st = [c \in Conns |-> "idle"]
    /\ req = [c \in Conns |-> Inquiry]
    /\ told = [c \in Conns |-> <<>>]
    /\ backlog = <<>> /\ serving = NoConn /\ at = "accept" /\ got = 0 /\ len = 0
    /\ presets = <<>> /\ ircut = "ON"
    /\ ptzDir = NoFile

-----------------------------------------------------------------------------
(* Clients and the network.                                                *)

\* Connection c is opened for request r.
ConnectWith(c, r) ==
    /\ st[c] = "idle" /\ Len(backlog) < Backlog
    /\ st' = [st EXCEPT ![c] = "open"]
    /\ req' = [req EXCEPT ![c] = r]
    /\ backlog' = Append(backlog, c)
    /\ UNCHANGED <<told, thread, camera, ptzDir>>

Connect(c) == \E r \in Requests : ConnectWith(c, r)

\* The client has read the answer, seen the connection closed, or given up one
\* of which nothing comes.
Collect(c) ==
    /\ st[c] \in {"answered", "dropped", "lost"}
    /\ st' = [st EXCEPT ![c] = "idle"]
    /\ told' = [told EXCEPT ![c] = <<>>]
    /\ req' = [req EXCEPT ![c] = Inquiry]
    /\ UNCHANGED <<backlog, thread, camera, ptzDir>>

-----------------------------------------------------------------------------
(* The HTTP thread.                                                        *)

\* It closes the connection it serves, which ends as `how`, and accepts again.
Close(how) ==
    /\ st' = [st EXCEPT ![serving] = how]
    /\ serving' = NoConn /\ at' = "accept" /\ got' = 0 /\ len' = 0

Accept ==
    /\ at = "accept" /\ backlog # <<>>
    /\ serving' = Head(backlog) /\ backlog' = Tail(backlog) /\ at' = "header"
    /\ UNCHANGED <<client, got, len, camera, ptzDir>>

\* A byte of the header arrives within the timeout of the one before.
HeaderByte ==
    /\ at = "header" /\ got < HeaderRoom
    /\ got' = got + 1
    /\ UNCHANGED <<client, backlog, serving, at, len, camera, ptzDir>>

\* The bug: no timeout is set on the connection.
HeaderFailsOnlyFull ==
    /\ at = "header" /\ got = HeaderRoom
    /\ Close("dropped")
    /\ UNCHANGED <<req, told, backlog, camera, ptzDir>>

\* No byte arrives in time, the client is gone, or the header has no end.
HeaderFails ==
    /\ at = "header"
    /\ Close("dropped")
    /\ UNCHANGED <<req, told, backlog, camera, ptzDir>>

\* The empty line: the rest depends on the path and on the length given.
\* A preview may find no memory for its argument, which closes the connection,
\* or no thread to start, which nobody notices.
HeaderEnds ==
    /\ at = "header" /\ got < HeaderRoom
    /\ IF req[serving].op = "preview"
       THEN \E how \in {"preview", "dropped", "lost"} : Close(how)
       ELSE \E n \in 0 .. BodyRoom + 1 :
              /\ n = 0 => req[serving].op = "inquiry"
              /\ IF n > BodyRoom THEN Close("dropped")
                 ELSE /\ at' = IF n = 0 THEN "dispatch" ELSE "body"
                      /\ len' = n /\ got' = 0
                      /\ UNCHANGED <<st, serving>>
    /\ UNCHANGED <<req, told, backlog, camera, ptzDir>>

\* Some of the body arrives (http_read_exact).
BodyBytes ==
    /\ at = "body"
    /\ \E k \in 1 .. len - got :
          IF got + k = len THEN at' = "dispatch" /\ got' = 0 /\ len' = 0
          ELSE got' = got + k /\ UNCHANGED <<at, len>>
    /\ UNCHANGED <<client, backlog, serving, camera, ptzDir>>

BodyFails ==
    /\ at = "body"
    /\ Close("dropped")
    /\ UNCHANGED <<req, told, backlog, camera, ptzDir>>

\* The index of the preset a token means: the first whose text begins with it.
Match(t) == {i \in DOMAIN presets : <<t, presets[i].token>> \in Begins}
\* The bug: the search does not stop at the first.
LastMatch(t) == CHOOSE i \in Match(t) : \A j \in Match(t) : j <= i
FirstMatch(t) == CHOOSE i \in Match(t) : \A j \in Match(t) : i <= j

\* The presets GetPresets names: all, or as many as its buffer takes, which a
\* part of the next one then fills up.
Listed ==
    LET used[k \in 0 .. Len(presets)] ==
            IF k = 0 THEN 0 ELSE used[k - 1] + presets[k].name
        fits == {k \in 0 .. Len(presets) : k = 0 \/ used[k] < ListRoom}
        last == CHOOSE k \in fits : \A j \in fits : j <= k
        whole == [i \in 1 .. last |-> presets[i].token]
    IN  IF last < Len(presets) /\ used[last] < ListRoom - 1 THEN Append(whole, Cut) ELSE whole

\* The bug: one entry too many.
StorePresetPastEnd(t, n) ==
    LET entry == [token |-> t, name |-> n] IN
    presets' = IF Match(t) # {} THEN [presets EXCEPT ![FirstMatch(t)] = entry]
               ELSE IF Len(presets) <= MaxPresets THEN Append(presets, entry)
               ELSE presets

\* SetPreset: the entry found is overwritten; none found, and the table
\* not full, one is appended; full, nothing is kept.
StorePreset(t, n) ==
    LET entry == [token |-> t, name |-> n] IN
    presets' = IF Match(t) # {} THEN [presets EXCEPT ![FirstMatch(t)] = entry]
               ELSE IF Len(presets) < MaxPresets THEN Append(presets, entry)
               ELSE presets

\* The bug: every entry that matches goes.
DropAllPresets(t) == presets' = SelectSeq(presets, LAMBDA p : <<t, p.token>> \notin Begins)

\* RemovePreset: the entries behind the one found move up.
DropPreset(t) ==
    presets' = IF Match(t) = {} THEN presets
               ELSE [i \in 1 .. Len(presets) - 1 |->
                        IF i < FirstMatch(t) THEN presets[i] ELSE presets[i + 1]]

\* The requests whose handler calls back, and the command it hands over.
CallsBack(r) ==
    \/ r.op \in {"goto", "remove", "left", "right", "stop"}
    \/ r.op = "set" /\ r.token # NoToken
Command(r) ==
    CASE r.op = "left" -> [cmd |-> "LEFT", token |-> NoToken]
      [] r.op = "right" -> [cmd |-> "RIGHT", token |-> NoToken]
      [] r.op = "stop" -> [cmd |-> "STOP", token |-> NoToken]
      [] r.op = "goto" /\ r.token = NoToken -> [cmd |-> "goto", token |-> "?"]
      [] OTHER -> [cmd |-> r.op, token |-> r.token]

\* The handler of the request; the image's settings change only with the web
\* back end's password, else the answer is 401.
Dispatch ==
    LET r == req[serving] IN
    /\ at = "dispatch"
    /\ at' = IF CallsBack(r) THEN "open" ELSE "reply"
    /\ CASE r.op = "set" /\ r.token # NoToken -> StorePreset(r.token, r.name)
         [] r.op = "remove" -> DropPreset(r.token)
         [] OTHER -> UNCHANGED presets
    /\ told' = IF r.op = "list" THEN [told EXCEPT ![serving] = Listed] ELSE told
    /\ ircut' \in IF r.op = "imaging" /\ r.auth THEN {"ON", "OFF", "AUTO"} ELSE {ircut}
    /\ UNCHANGED <<st, req, backlog, serving, got, len, ptzDir>>

\* The callback empties the file as it opens it ...
OpenFile ==
    /\ at = "open"
    /\ \/ ptzDir' = Empty /\ at' = "write"
       \/ at' = "reply" /\ UNCHANGED ptzDir       \* it cannot be opened
    /\ UNCHANGED <<client, backlog, serving, got, len, camera>>

\* ... and writes the line when it closes it.
WriteFile ==
    /\ at = "write"
    /\ ptzDir' = Command(req[serving]) /\ at' = "reply"
    /\ UNCHANGED <<client, backlog, serving, got, len, camera>>

Reply ==
    /\ at = "reply"
    /\ Close("answered")
    /\ UNCHANGED <<req, told, backlog, camera, ptzDir>>

\* A preview's thread ends when it can no longer send.
PreviewEnds(c) ==
    /\ st[c] = "preview"
    /\ st' = [st EXCEPT ![c] = "dropped"]
    /\ UNCHANGED <<req, told, backlog, thread, camera, ptzDir>>

\* What the thread does whether or not the client sends.
Serve ==
    \/ Accept \/ HeaderFails \/ BodyFails
    \/ Dispatch \/ OpenFile \/ WriteFile \/ Reply
Receive == HeaderByte \/ HeaderEnds \/ BodyBytes

Next ==
    \/ \E c \in Conns : Connect(c) \/ Collect(c) \/ PreviewEnds(c)
    \/ Serve \/ Receive

Spec == Init /\ [][Next]_vars

\* The thread runs, and a receive that gets nothing returns after 500 ms.
FairSpec == Spec /\ WF_vars(Serve)

-----------------------------------------------------------------------------
(* Properties.                                                             *)

\* No token in the table begins an earlier one.  So no two presets have one
\* token, and a token finds its own preset if no longer one stands before it;
\* overwriting by prefix and closing the gap of a removed entry keep it.
PresetsApart ==
    \A i, j \in DOMAIN presets :
        i < j => <<presets[j].token, presets[i].token>> \notin Begins

\* The table, whatever its order and however requests interleave, is the
\* promised book: one page at most per request, no token twice.
Book == INSTANCE PresetBook WITH
            book <- {presets[i] : i \in DOMAIN presets}, Names <- Names \cup {0}
ImplementsBook == Book!Spec

\* The thread keeps no connection for ever, nor does one wait for ever: not for
\* a client that sends nothing, nor for one that never ends its header, nor for
\* those in front of it.  (It closes all but a preview's: that is its thread's,
\* or nobody's when the thread could not be started.)
EveryConnectionEnds == \A c \in Conns : st[c] = "open" ~> st[c] # "open"
=============================================================================
