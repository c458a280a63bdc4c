----------------------------- MODULE WebSession -----------------------------
(***************************************************************************)
(* The web back end's login (main.rs): the password in memory and in its   *)
(* file, the sessions, and the failed attempts after which logins are      *)
(* refused for a while.  Each is behind a lock of its own, taken and       *)
(* released again between a handler's awaits, so the steps of handlers     *)
(* interleave; a handler whose client goes away is dropped at an await,    *)
(* but a file write it has started goes on.                                *)
(*                                                                         *)
(* A password stands for its SHA-256.  The clock is read by what it is     *)
(* compared with: a failed attempt has an age, a session a life.  The      *)
(* clock only goes forward.                                                *)
(***************************************************************************)
EXTENDS Integers, FiniteSets

CONSTANTS
    Handlers,           \* requests that can be in progress at the same time
    Passwords, Default, \* passwords clients try and set; DEFAULT_HASH
    Tokens,             \* bound: sessions at the same time
    Tries,              \* names for the failed attempts that count
    Limit,              \* failed attempts after which logins are refused (5)
    Window,             \* how long an attempt counts (300 s)
    Ttl                 \* how long a session lives (86400 s)

Torn == "torn"          \* a file that was emptied and not written

ASSUME SessionConstants ==
    /\ Default \in Passwords /\ Torn \notin Passwords /\ Tokens \cap Handlers = {}
    /\ IsFiniteSet(Handlers) /\ IsFiniteSet(Tries)
    /\ Limit \in Nat \ {0} /\ Window \in Nat \ {0} /\ Ttl \in Nat /\ Window <= Ttl
    /\ Limit + Cardinality(Handlers) <= Cardinality(Tries)

VARIABLES
    pwHash,     \* the password in force
    file,       \* what the password file says, or Torn
    life,       \* sessions: what is left of their time; 0: there is none
    fails,      \* login_fails: ages; Window: the attempt no longer counts
    at,         \* handlers: the next step
    pass,       \* handlers: the password tried, or the new one
    since,      \* handlers: how long ago `now` was read
    gone,       \* handlers: dropped, while the file write goes on
    opened,     \* sessions, history: the password they were opened with
    late,       \* history: sessions, and logins past the test of the
                \* password, that a change of it did not reach
    mixed,      \* history: handlers whose change overlaps another
    astray,     \* history: the last change was dropped, failed in the middle
                \* of its write, or overlapped another
    locked      \* history: how long logins have been refused

handler == <<at, pass, since, gone>>
history == <<opened, late, mixed, astray>>
vars == <<pwHash, file, life, fails, handler, history, locked>>

Steps == {"idle", "count", "compare", "fail", "clear", "insert",
          "check", "open", "put", "set", "end"}

Active == {t \in Tokens : life[t] > 0}
Recent == {f \in Tries : fails[f] < Window}
Writers == {h \in Handlers : at[h] \in {"open", "put", "set"}}
Admitted == {h \in Handlers : at[h] \in {"clear", "insert"}}

\* The shape of the state.
TypeOK ==
    /\ pwHash \in Passwords /\ file \in Passwords \cup {Torn}
    /\ life \in [Tokens -> 0 .. Ttl] /\ fails \in [Tries -> 0 .. Window]
    /\ at \in [Handlers -> Steps] /\ pass \in [Handlers -> Passwords]
    /\ since \in [Handlers -> 0 .. Ttl] /\ gone \in [Handlers -> BOOLEAN]
    /\ opened \in [Tokens -> Passwords] /\ late \subseteq Tokens \cup Handlers
    /\ mixed \subseteq Handlers /\ astray \in BOOLEAN /\ locked \in Nat

\* What main makes of the file: without a ':' in it, the default password.
Holds(f) == IF f = Torn THEN Default ELSE f

Init ==
    /\ file \in {Default, Torn} /\ pwHash = Holds(file)
    /\ life = [t \in Tokens |-> 0] /\ fails = [f \in Tries |-> Window]
    /\ at = [h \in Handlers |-> "idle"] /\ pass = [h \in Handlers |-> Default]
    /\ since = [h \in Handlers |-> 0] /\ gone = [h \in Handlers |-> FALSE]
    /\ opened = [t \in Tokens |-> Default]
    /\ late = {} /\ mixed = {} /\ astray = FALSE /\ locked = 0

\* Handler h goes to step s; idle, it keeps nothing.
Goto(h, s) ==
    /\ at' = [at EXCEPT ![h] = s]
    /\ IF s = "idle"
       THEN /\ pass' = [pass EXCEPT ![h] = Default]
            /\ since' = [since EXCEPT ![h] = 0]
            /\ gone' = [gone EXCEPT ![h] = FALSE]
       ELSE UNCHANGED <<pass, since, gone>>

-----------------------------------------------------------------------------
(* handle_login.                                                           *)

\* The request; a password was given (without one it is refused at "count").
Login(h) ==
    /\ at[h] = "idle"
    /\ \E p \in Passwords : pass' = [pass EXCEPT ![h] = p]
    /\ at' = [at EXCEPT ![h] = "count"]
    /\ UNCHANGED <<pwHash, file, life, fails, since, gone, history>>

\* The bug: one failure too many.
CountLate(h) ==
    /\ at[h] = "count"
    /\ Goto(h, IF Cardinality(Recent) <= Limit THEN "compare" ELSE "idle")
    /\ UNCHANGED <<pwHash, file, life, fails, history>>

\* The bug: an attempt that is refused starts the wait again.
CountRefused(h) ==
    /\ at[h] = "count"
    /\ Goto(h, IF Cardinality(Recent) < Limit THEN "compare" ELSE "idle")
    /\ fails' = IF Cardinality(Recent) < Limit THEN fails
                ELSE [f \in Tries |-> IF f \in Recent THEN 0 ELSE Window]
    /\ UNCHANGED <<pwHash, file, life, history>>

\* The clock is read and the recent failures are counted.
Count(h) ==
    /\ at[h] = "count"
    /\ Goto(h, IF Cardinality(Recent) < Limit THEN "compare" ELSE "idle")
    /\ UNCHANGED <<pwHash, file, life, fails, history>>

Compare(h) ==
    /\ at[h] = "compare"
    /\ Goto(h, IF pass[h] = pwHash THEN "clear" ELSE "fail")
    /\ UNCHANGED <<pwHash, file, life, fails, history>>

\* The failure is recorded, as old as the clock that was read.
Fail(h) ==
    /\ at[h] = "fail"
    /\ Goto(h, "idle")
    /\ IF since[h] < Window
       THEN fails' = [fails EXCEPT ![CHOOSE f \in Tries : f \notin Recent] = since[h]]
       ELSE UNCHANGED fails
    /\ UNCHANGED <<pwHash, file, life, history>>

\* An admitted login forgives the failures.
ClearFails(h) ==
    /\ at[h] = "clear"
    /\ fails' = [f \in Tries |-> Window]
    /\ Goto(h, "insert")
    /\ UNCHANGED <<pwHash, file, life, history>>

\* A fresh token; sessions that have expired are forgotten.
Insert(h) ==
    /\ at[h] = "insert"
    /\ \E t \in Tokens \ Active :
          /\ life' = [life EXCEPT ![t] = Ttl - since[h]]
          /\ IF since[h] = Ttl THEN opened' = opened /\ late' = late \ {h}
             ELSE /\ opened' = [opened EXCEPT ![t] = pass[h]]
                  /\ late' = (late \ {h}) \cup (IF h \in late THEN {t} ELSE {})
    /\ Goto(h, "idle")
    /\ UNCHANGED <<pwHash, file, fails, mixed, astray>>

-----------------------------------------------------------------------------
(* handle_change_password.                                                 *)

\* The request of somebody logged in, with the old password and the new one,
\* which must have six characters.
Change(h) ==
    /\ at[h] = "idle" /\ Active # {}
    /\ \E p \in Passwords : pass' = [pass EXCEPT ![h] = p]
    /\ at' = [at EXCEPT ![h] = "check"]
    /\ UNCHANGED <<pwHash, file, life, fails, since, gone, history>>

\* The old password is compared with the one in force: right, or wrong.
CheckOld(h) ==
    /\ at[h] = "check"
    /\ \/ /\ Goto(h, "open")
          /\ mixed' = IF Writers = {} THEN mixed ELSE mixed \cup Writers \cup {h}
       \/ Goto(h, "idle") /\ UNCHANGED mixed
    /\ UNCHANGED <<pwHash, file, life, fails, opened, late, astray>>

\* The write empties the file, or cannot open it ...
OpenFile(h) ==
    /\ at[h] = "open"
    /\ \/ Goto(h, "put") /\ file' = Torn /\ UNCHANGED mixed
       \/ Goto(h, "idle") /\ mixed' = mixed \ {h} /\ UNCHANGED file
    /\ UNCHANGED <<pwHash, life, fails, opened, late, astray>>

\* The bug: the result of the write is ignored.
PutFileAnyway(h) ==
    /\ at[h] = "put"
    /\ file' \in {pass[h], file}
    /\ IF gone[h] THEN Goto(h, "idle") /\ astray' = TRUE /\ mixed' = mixed \ {h}
       ELSE Goto(h, "set") /\ UNCHANGED <<astray, mixed>>
    /\ UNCHANGED <<pwHash, life, fails, opened, late>>

\* ... and puts the new line there, or fails.
PutFile(h) ==
    /\ at[h] = "put"
    /\ \/ /\ file' = pass[h]
          /\ IF gone[h] THEN Goto(h, "idle") /\ astray' = TRUE /\ mixed' = mixed \ {h}
             ELSE Goto(h, "set") /\ UNCHANGED <<astray, mixed>>
       \/ Goto(h, "idle") /\ astray' = TRUE /\ mixed' = mixed \ {h} /\ UNCHANGED file
    /\ UNCHANGED <<pwHash, life, fails, opened, late>>

SetHash(h) ==
    /\ at[h] = "set"
    /\ pwHash' = pass[h]
    /\ Goto(h, "end")
    /\ astray' = (h \in mixed) /\ mixed' = mixed \ {h}
    /\ UNCHANGED <<file, life, fails, opened, late>>

\* The bug: of the sessions one stays, that of whoever changed the password.
EndSessionsButOne(h) ==
    /\ at[h] = "end"
    /\ \E t \in Tokens :
          /\ life' = [u \in Tokens |-> IF u = t THEN life[u] ELSE 0]
          /\ opened' = [u \in Tokens |-> IF u = t THEN opened[u] ELSE Default]
    /\ late' = Admitted
    /\ Goto(h, "idle")
    /\ UNCHANGED <<pwHash, file, fails, mixed, astray>>

\* Every session ends; a login admitted already will still open one.
EndSessions(h) ==
    /\ at[h] = "end"
    /\ life' = [t \in Tokens |-> 0] /\ opened' = [t \in Tokens |-> Default]
    /\ late' = Admitted
    /\ Goto(h, "idle")
    /\ UNCHANGED <<pwHash, file, fails, mixed, astray>>

-----------------------------------------------------------------------------
(* What else happens.                                                      *)

\* handle_logout's part in this: the caller's session.
Logout(t) ==
    /\ t \in Active
    /\ life' = [life EXCEPT ![t] = 0] /\ opened' = [opened EXCEPT ![t] = Default]
    /\ late' = late \ {t}
    /\ UNCHANGED <<pwHash, file, fails, handler, mixed, astray>>

\* A client goes away before it has its answer.
Hangup(h) ==
    /\ at[h] # "idle" /\ ~gone[h]
    /\ IF at[h] \in {"open", "put"}
       THEN gone' = [gone EXCEPT ![h] = TRUE] /\ UNCHANGED <<at, pass, since, mixed>>
       ELSE Goto(h, "idle") /\ mixed' = mixed \ {h}
    /\ astray' = (astray \/ at[h] = "set")
    /\ late' = IF at[h] = "end" THEN (late \cup Active \cup Admitted) ELSE late \ {h}
    /\ UNCHANGED <<pwHash, file, life, fails, opened>>

\* Time passes.
Tick ==
    /\ life' = [t \in Tokens |-> IF life[t] = 0 THEN 0 ELSE life[t] - 1]
    /\ opened' = [t \in Tokens |-> IF life[t] <= 1 THEN Default ELSE opened[t]]
    /\ late' = late \ {t \in Tokens : life[t] = 1}
    /\ fails' = [f \in Tries |-> IF fails[f] = Window THEN Window ELSE fails[f] + 1]
    /\ since' = [h \in Handlers |->
          IF at[h] \in {"compare", "fail", "clear", "insert"} /\ since[h] < Ttl
          THEN since[h] + 1 ELSE since[h]]
    /\ UNCHANGED <<pwHash, file, at, pass, gone, mixed, astray>>

\* The process is killed and started again: main reads the file.
Restart ==
    /\ pwHash' = Holds(file)
    /\ life' = [t \in Tokens |-> 0] /\ fails' = [f \in Tries |-> Window]
    /\ at' = [h \in Handlers |-> "idle"] /\ pass' = [h \in Handlers |-> Default]
    /\ since' = [h \in Handlers |-> 0] /\ gone' = [h \in Handlers |-> FALSE]
    /\ opened' = [t \in Tokens |-> Default]
    /\ late' = {} /\ mixed' = {} /\ astray' = FALSE
    /\ UNCHANGED file

\* What happens at one time.
Work ==
    \/ \E h \in Handlers :
          \/ Login(h) \/ Count(h) \/ Compare(h) \/ Fail(h) \/ ClearFails(h) \/ Insert(h)
          \/ Change(h) \/ CheckOld(h) \/ OpenFile(h) \/ PutFile(h) \/ SetHash(h)
          \/ EndSessions(h) \/ Hangup(h)
    \/ \E t \in Tokens : Logout(t)
    \/ Restart

\* How long the limit has been reached, without a break, d later.
Watch(d) == locked' = IF Cardinality(Recent') < Limit THEN 0 ELSE locked + d

Next == (Work /\ Watch(0)) \/ (Tick /\ Watch(1))

Spec == Init /\ [][Next]_vars

-----------------------------------------------------------------------------
(* Properties.                                                             *)

\* The limit is tested under one lock and the failure recorded under another,
\* so requests in progress can pass it: but never by more than there are
\* other requests in progress.
InFlight == {h \in Handlers : at[h] \in {"compare", "fail", "clear", "insert"}}
LockoutBound ==
    Cardinality(Recent) + Cardinality(InFlight) < Limit + Cardinality(Handlers)

\* A changed password ends every session opened with another one, but for
\* those whose login had tested the old password before the change ended the
\* sessions, and for a change whose client went away before it did.
OldSessionsEnd ==
    \A t \in Active :
        \/ opened[t] = pwHash
        \/ t \in late
        \/ \E h \in Handlers : at[h] = "end"

\* With no change in progress, what the file would give after a restart is the
\* password in force, unless the last change went astray.
DiskAgrees ==
    (\A h \in Handlers : at[h] \notin {"put", "set"}) => Holds(file) = pwHash \/ astray

\* A lockout is over in less than Window from its beginning: neither the
\* attempts it refuses nor the failures of requests it found in progress, which
\* are recorded while it lasts, draw it out (main.rs:775-790).  It promises
\* nobody that he gets in: everybody's failures are counted together, so others
\* who go on failing can start the next lockout at once.
LockoutBrief == Cardinality(Recent) >= Limit => locked < Window
=============================================================================
