------------------------------ MODULE WebPlayers ------------------------------
(***************************************************************************)
(* The two browser players of the web back end (main.rs): HLS, a           *)
(* transcoder that writes segments into a directory, and the MJPEG         *)
(* preview, a transcoder whose frames a reader thread broadcasts.  HTTP    *)
(* handlers run concurrently on tokio's threads; what they share is a slot *)
(* for the child process, a token file, the preview's channel and the      *)
(* segment directory, each under a lock of its own or none.  A handler     *)
(* whose client disconnects is dropped at the next await; the process can  *)
(* be killed, and S99camera starts it again.                               *)
(*                                                                         *)
(* The nth start of a player stands for the token, the child process and   *)
(* the channel it makes.  A handler that lacks a valid login answers 401   *)
(* and is left out.                                                        *)
(***************************************************************************)
EXTENDS Integers

CONSTANTS
    Handlers,   \* requests that can be in progress at the same time
    Ops,        \* the requests clients send, of AllOps
    MaxStarts   \* bound: starts of the players

Players == {"hls", "preview"}
AllOps == {"hls_start", "hls_stop", "preview_start", "preview_stop", "logout"}
Starts == 1 .. MaxStarts

ASSUME PlayersConstants == Ops \subseteq AllOps /\ MaxStarts \in Nat

VARIABLES
    up,         \* the web process runs and serves
    op, at,     \* handlers: the request in progress, and its next step
    num,        \* handlers: the number of the start in hand
    started,    \* per player: starts so far
    slot,       \* HLS_CHILD, PREVIEW_CHILD: a start's child, or 0
    running,    \* per player: the child processes that run
    token,      \* /tmp/hls_token, /tmp/preview_token: a start's, or 0
    tx,         \* PREVIEW_TX: a start's channel, or 0
    reading,    \* the starts whose preview reader thread runs
    viewers,    \* the channels browsers are connected to
    segs,       \* the starts that have segments in /root/hls
    issued,     \* per player, history: the tokens clients have been given
    clash,      \* per player, history: two starts were in progress at once
    failed      \* per player, history: a token could not be written, or
                \* the segments not removed

handler == <<op, at, num>>
child == <<slot, running>>
preview == <<tx, reading, viewers>>
history == <<issued, clash, failed>>
vars == <<up, handler, started, child, token, preview, segs, history>>

\* The steps of each handler between its check of the login and its answer.
\* The bug: preview_start opens its channel before it writes its token.
AfterPublishFirst ==
    [hls_start |-> [token |-> "kill", kill |-> "clean", clean |-> "spawn",
                    spawn |-> "store", store |-> "idle"],
     hls_stop |-> [kill |-> "remove", remove |-> "clean", clean |-> "idle"],
     preview_start |-> [kill |-> "drop", drop |-> "spawn", spawn |-> "store",
                        store |-> "publish", publish |-> "token", token |-> "idle"],
     preview_stop |-> [kill |-> "drop", drop |-> "remove", remove |-> "idle"],
     logout |-> [remove |-> "kill", kill |-> "killPreview", killPreview |-> "idle"]]

After ==
    [hls_start |-> [token |-> "kill", kill |-> "clean", clean |-> "spawn",
                    spawn |-> "store", store |-> "idle"],
     hls_stop |-> [kill |-> "remove", remove |-> "clean", clean |-> "idle"],
     preview_start |-> [kill |-> "drop", drop |-> "spawn", spawn |-> "store",
                        store |-> "token", token |-> "publish", publish |-> "idle"],
     preview_stop |-> [kill |-> "drop", drop |-> "remove", remove |-> "idle"],
     logout |-> [remove |-> "kill", kill |-> "killPreview", killPreview |-> "idle"]]

First == [hls_start |-> "token", hls_stop |-> "kill", preview_start |-> "kill",
          preview_stop |-> "kill", logout |-> "remove"]

StartOf == [hls |-> "hls_start", preview |-> "preview_start"]

\* The player that a handler's step is about.
PlayerOf(h) ==
    IF op[h] \in {"preview_start", "preview_stop"} \/ at[h] = "killPreview"
    THEN "preview" ELSE "hls"

Starting(h, p) == op[h] = StartOf[p]

\* A handler in progress is at one of its own steps.
HandlersOK ==
    /\ op \in [Handlers -> AllOps \cup {"none"}]
    /\ at \in [Handlers -> {"idle", "token", "kill", "clean", "spawn", "store", "remove",
                            "drop", "publish", "killPreview"}]
    /\ num \in [Handlers -> 0 .. MaxStarts]
    /\ \A h \in Handlers :
          IF op[h] = "none" THEN at[h] = "idle" ELSE at[h] \in DOMAIN After[op[h]]

\* The shape of the state.
TypeOK ==
    /\ up \in BOOLEAN
    /\ HandlersOK
    /\ started \in [Players -> 0 .. MaxStarts]
    /\ slot \in [Players -> 0 .. MaxStarts]
    /\ running \in [Players -> SUBSET Starts]
    /\ token \in [Players -> 0 .. MaxStarts]
    /\ tx \in 0 .. MaxStarts
    /\ reading \in SUBSET Starts /\ viewers \in SUBSET Starts
    /\ segs \in SUBSET Starts
    /\ issued \in [Players -> SUBSET Starts]
    /\ clash \in [Players -> BOOLEAN] /\ failed \in [Players -> BOOLEAN]

Init ==
    /\ up = TRUE
    /\ op = [h \in Handlers |-> "none"]
    /\ at = [h \in Handlers |-> "idle"]
    /\ num = [h \in Handlers |-> 0]
    /\ started = [p \in Players |-> 0]
    /\ slot = [p \in Players |-> 0]
    /\ running = [p \in Players |-> {}]
    /\ token = [p \in Players |-> 0]
    /\ tx = 0 /\ reading = {} /\ viewers = {} /\ segs = {}
    /\ issued = [p \in Players |-> {}]
    /\ clash = [p \in Players |-> FALSE] /\ failed = [p \in Players |-> FALSE]

-----------------------------------------------------------------------------
(* Handlers.                                                               *)

\* The handler h has answered or was dropped; or it goes on with its next step.
Done(h) ==
    /\ op' = [op EXCEPT ![h] = "none"]
    /\ at' = [at EXCEPT ![h] = "idle"]
    /\ num' = [num EXCEPT ![h] = 0]

Goes(h) ==
    IF After[op[h]][at[h]] = "idle" THEN Done(h)
    ELSE at' = [at EXCEPT ![h] = After[op[h]][@]] /\ UNCHANGED <<op, num>>

\* A request with a valid login arrives: a start, or another.
Arrives(h, o) ==
    /\ up /\ op[h] = "none" /\ o \in Ops
    /\ op' = [op EXCEPT ![h] = o]
    /\ at' = [at EXCEPT ![h] = First[o]]
    /\ UNCHANGED <<up, child, token, preview, segs, issued, failed>>

RequestStart(h, p) ==
    /\ Arrives(h, StartOf[p]) /\ started["hls"] + started["preview"] < MaxStarts
    /\ started' = [started EXCEPT ![p] = @ + 1]
    /\ num' = [num EXCEPT ![h] = started[p] + 1]
    /\ clash' = [clash EXCEPT ![p] = @ \/ \E g \in Handlers : Starting(g, p)]

RequestOther(h) ==
    /\ \E o \in {"hls_stop", "preview_stop", "logout"} : Arrives(h, o)
    /\ UNCHANGED <<started, num, clash>>

\* The handler waits for a file, a sleep or a command, or has been woken but
\* not gone on, and its client disconnects: it is dropped.
Suspended(h) ==
    \/ op[h] = "hls_start" /\ at[h] \in {"token", "kill", "clean", "spawn"}
    \/ op[h] = "preview_start" /\ at[h] \in {"token", "publish"}
    \/ op[h] = "hls_stop" /\ at[h] = "clean"

Cancel(h) ==
    /\ Suspended(h) /\ Done(h)
    /\ UNCHANGED <<up, started, child, token, preview, segs, history>>

\* The new token is written to its file; a failure, of which the file may
\* come out empty, is ignored.
WriteToken(h) ==
    LET p == PlayerOf(h) IN
    /\ at[h] = "token" /\ Goes(h)
    /\ \/ token' = [token EXCEPT ![p] = num[h]] /\ UNCHANGED failed
       \/ /\ \E t \in {0, token[p]} : token' = [token EXCEPT ![p] = t]
          /\ failed' = [failed EXCEPT ![p] = TRUE]
    /\ UNCHANGED <<up, started, child, preview, segs, issued, clash>>

\* kill_hls_child and its copies for the preview: the slot's child is taken
\* out, killed and waited for, with the slot locked.
TakenOut(p) == running[p]
Killed(p) == running[p] \ {slot[p]}

KillOld(h) ==
    LET p == PlayerOf(h) IN
    /\ at[h] \in {"kill", "killPreview"} /\ Goes(h)
    /\ running' = [running EXCEPT ![p] = Killed(p)]
    /\ slot' = [slot EXCEPT ![p] = 0]
    /\ UNCHANGED <<up, started, token, preview, segs, history>>

RemoveToken(h) ==
    /\ at[h] = "remove" /\ Goes(h)
    /\ token' = [token EXCEPT ![PlayerOf(h)] = 0]
    /\ UNCHANGED <<up, started, child, preview, segs, history>>

\* rm -f /root/hls/*.ts /root/hls/*.m3u8; a failure is ignored.
SegmentsGone == {}

Clean(h) ==
    /\ at[h] = "clean" /\ Goes(h)
    /\ \/ segs' = SegmentsGone /\ UNCHANGED failed
       \/ UNCHANGED segs /\ failed' = [failed EXCEPT !["hls"] = TRUE]
    /\ UNCHANGED <<up, started, child, token, preview, issued, clash>>

ChannelKept == tx
ChannelDropped == 0

DropChannel(h) ==
    /\ at[h] = "drop" /\ Goes(h)
    /\ tx' = ChannelDropped
    /\ UNCHANGED <<up, started, child, token, reading, viewers, segs, history>>

\* The transcoder starts, or cannot be started: 500.
Spawn(h) ==
    /\ at[h] = "spawn"
    /\ \/ Goes(h) /\ running' = [running EXCEPT ![PlayerOf(h)] = @ \cup {num[h]}]
       \/ Done(h) /\ UNCHANGED running
    /\ UNCHANGED <<up, started, slot, token, preview, segs, history>>

\* The slot is overwritten: dropping a Child does not kill it.  hls_start
\* answers with its token.
Store(h) ==
    LET p == PlayerOf(h) IN
    /\ at[h] = "store" /\ Goes(h)
    /\ slot' = [slot EXCEPT ![p] = num[h]]
    /\ issued' = [issued EXCEPT ![p] = IF p = "hls" THEN @ \cup {num[h]} ELSE @]
    /\ UNCHANGED <<up, started, running, token, preview, segs, clash, failed>>

\* preview_start stores the sender, starts the reader thread and answers.
Publish(h) ==
    /\ at[h] = "publish" /\ Goes(h)
    /\ tx' = num[h]
    /\ reading' = reading \cup {num[h]}
    /\ issued' = [issued EXCEPT !["preview"] = @ \cup {num[h]}]
    /\ UNCHANGED <<up, started, child, token, viewers, segs, clash, failed>>

-----------------------------------------------------------------------------
(* Transcoders, reader threads, browsers and the process itself.           *)

\* A transcoder ends by itself: the camera is gone, or its pipe is closed.
ChildExits ==
    /\ \E p \in Players, n \in Starts :
          n \in running[p] /\ running' = [running EXCEPT ![p] = @ \ {n}]
    /\ UNCHANGED <<up, handler, started, slot, token, preview, segs, history>>

WriteSegment ==
    /\ \E n \in running["hls"] : segs' = segs \cup {n}
    /\ UNCHANGED <<up, handler, started, child, token, preview, history>>

\* The reader thread ends, and drops its sender, at the end of its child's
\* output.
ReaderEnds ==
    /\ \E n \in reading \ running["preview"] : reading' = reading \ {n}
    /\ UNCHANGED <<up, handler, started, child, token, tx, viewers, segs, history>>

\* GET /preview with a valid token subscribes to the current channel.
View ==
    /\ up /\ token["preview"] \in issued["preview"] /\ tx # 0
    /\ viewers' = viewers \cup {tx}
    /\ UNCHANGED <<up, handler, started, child, token, tx, reading, segs, history>>

\* The stream ends when the last sender of its channel is dropped.
StreamEnds ==
    /\ \E n \in viewers \ (reading \cup {tx}) : viewers' = viewers \ {n}
    /\ UNCHANGED <<up, handler, started, child, token, tx, reading, segs, history>>

Crash ==
    /\ up /\ up' = FALSE
    /\ op' = [h \in Handlers |-> "none"]
    /\ at' = [h \in Handlers |-> "idle"]
    /\ num' = [h \in Handlers |-> 0]
    /\ slot' = [p \in Players |-> 0]
    /\ tx' = 0 /\ reading' = {} /\ viewers' = {}
    /\ UNCHANGED <<started, running, token, segs, history>>

\* main: killall -9 gst-launch-1.0, then requests are served.
LeftAlone(p) == running[p]
KilledAll(p) == {}

Launch ==
    /\ ~up /\ up' = TRUE
    /\ running' = [p \in Players |-> KilledAll(p)]
    /\ UNCHANGED <<handler, started, slot, token, preview, segs, history>>

-----------------------------------------------------------------------------
HandlerStep(h) ==
    \/ WriteToken(h) \/ KillOld(h) \/ RemoveToken(h) \/ Clean(h) \/ DropChannel(h)
    \/ Spawn(h) \/ Store(h) \/ Publish(h)

Next ==
    \/ \E h \in Handlers :
          \/ RequestOther(h) \/ Cancel(h) \/ HandlerStep(h)
          \/ \E p \in Players : RequestStart(h, p)
    \/ ChildExits \/ WriteSegment \/ ReaderEnds \/ View \/ StreamEnds
    \/ Crash \/ Launch

Spec == Init /\ [][Next]_vars

\* Reader threads and streams are served.
FairSpec == Spec /\ WF_vars(ReaderEnds) /\ WF_vars(StreamEnds)

-----------------------------------------------------------------------------
(* Properties.                                                             *)

\* The transcoders of player p that no handler can kill any more.
Orphans(p) ==
    running[p] \ ({slot[p]} \cup {num[h] : h \in {g \in Handlers : Starting(g, p) /\ at[g] = "store"}})

\* Stops, logouts, failed and abandoned starts, crashes and restarts in any
\* order never lose a transcoder: only two starts at once do (hls_start and
\* handle_preview_start kill the old child and store the new one apart).
OrphansOnlyFromClash == up => \A p \in Players : Orphans(p) # {} => clash[p]

\* What the token a client holds opens is what its own start made: segments
\* of its own transcoder, its own channel (the order in which the starts
\* write the token, kill, clean and publish).
TokenOpensItsStart ==
    \A p \in Players :
        token[p] \in issued[p] /\ ~clash[p] /\ ~failed[p] =>
            IF p = "hls" THEN segs \subseteq {token[p]} ELSE tx \in {0, token[p]}

\* The preview's channel is never fed by another start's transcoder than the
\* one a stop would kill.
ChannelOfSlot == ~clash["preview"] /\ tx # 0 => slot["preview"] \in {0, tx}

\* A browser whose channel was replaced sees its stream end: the old
\* transcoder is dead before a new channel is opened.  (Not so for a channel
\* that is only dropped: a stop that overlaps a start can take down the
\* channel that start opens, and leave the transcoder and its viewers.)
ReplacedStreamsEnd ==
    \A n \in Starts :
        n \in viewers /\ tx \notin {0, n} ~> n \notin viewers \/ clash["preview"]

-----------------------------------------------------------------------------
(* The inductive invariant behind the safety properties, by part.          *)

\* Numbers are fresh: what has been issued was started, a start in hand has
\* not been issued, and two in progress have different numbers.
CountInv ==
    \A p \in Players :
        /\ issued[p] \subseteq 1 .. started[p]
        /\ \A h \in Handlers :
              Starting(h, p) =>
                  /\ num[h] \in 1 .. started[p] /\ num[h] \notin issued[p]
                  /\ \A g \in Handlers : Starting(g, p) /\ num[g] = num[h] => g = h

\* What starts that never overlap know at each of their steps.
SerialInv ==
    \A p \in Players, h \in Handlers : Starting(h, p) /\ ~clash[p] =>
        /\ \A g \in Handlers : Starting(g, p) => g = h
        /\ at[h] \in {"clean", "drop", "spawn", "store"} => slot[p] = 0

HlsInv ==
    \A h \in Handlers : op[h] = "hls_start" /\ ~clash["hls"] /\ ~failed["hls"] =>
        /\ at[h] \in {"kill", "clean", "spawn", "store"} => token["hls"] \in {0, num[h]}
        /\ at[h] = "spawn" => segs = {}
        /\ at[h] = "store" => segs \subseteq {num[h]}

PreviewInv ==
    \A h \in Handlers : op[h] = "preview_start" /\ ~clash["preview"] =>
        /\ at[h] \in {"spawn", "store", "token", "publish"} => tx = 0
        /\ at[h] \in {"token", "publish"} => slot["preview"] \in {0, num[h]}
        /\ at[h] = "publish" /\ ~failed["preview"] => token["preview"] \in {0, num[h]}

\* While a client's token is valid, only its own transcoder runs.
ServedInv ==
    token["hls"] \in issued["hls"] /\ ~clash["hls"] /\ ~failed["hls"] =>
        segs \cup running["hls"] \subseteq {token["hls"]}

\* A process that is down has no handlers, no slots and no channel.
DownInv ==
    ~up => /\ \A h \in Handlers : op[h] = "none"
           /\ \A p \in Players : slot[p] = 0
           /\ tx = 0

IInv ==
    /\ TypeOK /\ CountInv /\ SerialInv /\ HlsInv /\ PreviewInv /\ ServedInv /\ DownInv
    /\ OrphansOnlyFromClash /\ TokenOpensItsStart /\ ChannelOfSlot
=============================================================================
