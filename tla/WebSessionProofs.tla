-------------------------- MODULE WebSessionProofs --------------------------
(***************************************************************************)
(* Proofs about the web back end's login, for any number of concurrent     *)
(* requests, passwords and sessions, any limit and any times.              *)
(***************************************************************************)
EXTENDS WebSession, FiniteSetTheorems, TLAPS

\* A login admitted by a password that is no longer in force is one that the
\* change has not reached, or will still reach.
AdmittedOK ==
    \A h \in Admitted :
        pass[h] = pwHash \/ h \in late \/ \E g \in Handlers : at[g] = "end"

\* A change that overlaps no other is alone, and the file it has written says
\* what it is about to put in force.
WritersOK ==
    \A h \in Writers \ mixed :
        Writers = {h} /\ (at[h] = "set" => file = pass[h])

\* During a lockout, no failure that counts is younger than it, and no request
\* past the test read the clock after it began: none passes the test any more.
LockedOK ==
    IF Cardinality(Recent) < Limit THEN locked = 0
    ELSE /\ locked < Window
         /\ \A f \in Recent : fails[f] >= locked
         /\ \A h \in InFlight : since[h] >= locked

\* The inductive invariant.
IInv ==
    /\ TypeOK /\ LockoutBound /\ LockedOK
    /\ OldSessionsEnd /\ AdmittedOK
    /\ DiskAgrees /\ WritersOK

-----------------------------------------------------------------------------

\* The part of TypeOK that is about the handlers.
HandlersTyped ==
    /\ at \in [Handlers -> Steps] /\ pass \in [Handlers -> Passwords]
    /\ since \in [Handlers -> 0 .. Ttl] /\ gone \in [Handlers -> BOOLEAN]

\* Going to a step keeps it.
LEMMA GotoTyped ==
    ASSUME TypeOK, NEW h \in Handlers, NEW s \in Steps, Goto(h, s)
    PROVE  HandlersTyped'
<1>1. Default \in Passwords /\ 0 \in 0 .. Ttl
  BY SessionConstants
<1>2. CASE s = "idle"
  BY <1>1, <1>2 DEF Goto, TypeOK, HandlersTyped
<1>3. CASE s # "idle"
  BY <1>3 DEF Goto, TypeOK, HandlersTyped
<1>. QED
  BY <1>2, <1>3

\* Every step keeps the shape of the state.
LEMMA TypeStep ==
    TypeOK /\ [Next]_vars => TypeOK'
<1>. SUFFICES ASSUME TypeOK, [Next]_vars PROVE TypeOK'
  OBVIOUS
<1>. USE DEF history, handler
<1>0. \A s \in Steps, h \in Handlers : Goto(h, s) => HandlersTyped'
  BY GotoTyped
<1>a. locked' \in Nat
  BY DEF Next, Watch, vars, TypeOK
<1>. USE <1>a
<1>1. ASSUME NEW h \in Handlers, Login(h) \/ Change(h) PROVE TypeOK'
  BY <1>1 DEF Login, Change, Steps, TypeOK
<1>2. ASSUME NEW h \in Handlers, Count(h) \/ Compare(h) PROVE TypeOK'
  <2>1. HandlersTyped'
    BY <1>0, <1>2 DEF Count, Compare, Steps
  <2>. QED
    BY <1>2, <2>1 DEF Count, Compare, TypeOK, HandlersTyped
<1>3. ASSUME NEW h \in Handlers, Fail(h) \/ ClearFails(h) PROVE TypeOK'
  <2>1. HandlersTyped'
    BY <1>0, <1>3 DEF Fail, ClearFails, Steps
  <2>2. fails' \in [Tries -> 0 .. Window]
    <3>1. Window \in 0 .. Window /\ (since[h] < Window => since[h] \in 0 .. Window)
      BY SessionConstants DEF TypeOK
    <3>2. fails \in [Tries -> 0 .. Window]
      BY DEF TypeOK
    <3>. HIDE DEF TypeOK
    <3>3. CASE ClearFails(h)
      BY <3>1, <3>3 DEF ClearFails
    <3>4. CASE Fail(h)
      BY <3>1, <3>2, <3>4 DEF Fail
    <3>. QED
      BY <1>3, <3>3, <3>4
  <2>. QED
    BY <1>3, <2>1, <2>2 DEF Fail, ClearFails, TypeOK, HandlersTyped
<1>4. ASSUME NEW h \in Handlers, Insert(h) PROVE TypeOK'
  <2>1. HandlersTyped'
    BY <1>0, <1>4 DEF Insert, Steps
  <2>2. life' \in [Tokens -> 0 .. Ttl]
    <3>1. Ttl - since[h] \in 0 .. Ttl
      BY SessionConstants DEF TypeOK
    <3>. QED
      BY <1>4, <3>1 DEF Insert, TypeOK
  <2>3. opened' \in [Tokens -> Passwords] /\ late' \subseteq Tokens \cup Handlers
    BY <1>4 DEF Insert, TypeOK
  <2>. QED
    BY <1>4, <2>1, <2>2, <2>3 DEF Insert, TypeOK, HandlersTyped
<1>5. ASSUME NEW h \in Handlers, CheckOld(h) PROVE TypeOK'
  <2>1. HandlersTyped'
    BY <1>0, <1>5 DEF CheckOld, Steps
  <2>. QED
    BY <1>5, <2>1 DEF CheckOld, TypeOK, HandlersTyped, Writers
<1>6. ASSUME NEW h \in Handlers, OpenFile(h) \/ PutFile(h) PROVE TypeOK'
  <2>1. HandlersTyped'
    BY <1>0, <1>6 DEF OpenFile, PutFile, Steps
  <2>2. pass[h] \in Passwords
    BY DEF TypeOK
  <2>. QED
    BY <1>6, <2>1, <2>2 DEF OpenFile, PutFile, TypeOK, HandlersTyped
<1>7. ASSUME NEW h \in Handlers, SetHash(h) \/ EndSessions(h) PROVE TypeOK'
  <2>1. HandlersTyped'
    BY <1>0, <1>7 DEF SetHash, EndSessions, Steps
  <2>2. pass[h] \in Passwords /\ Default \in Passwords /\ 0 \in 0 .. Ttl
    BY SessionConstants DEF TypeOK
  <2>. QED
    <3>1. CASE SetHash(h)
      BY <3>1, <2>1, <2>2 DEF SetHash, TypeOK, HandlersTyped
    <3>2. CASE EndSessions(h)
      <4>1. late' \subseteq Tokens \cup Handlers
        BY <3>2 DEF EndSessions, Admitted
      <4>2. life' \in [Tokens -> 0 .. Ttl] /\ opened' \in [Tokens -> Passwords]
        BY <2>2, <3>2 DEF EndSessions
      <4>. QED
        BY <2>1, <3>2, <4>1, <4>2 DEF EndSessions, TypeOK, HandlersTyped
    <3>. QED
      BY <1>7, <3>1, <3>2
<1>8. ASSUME NEW h \in Handlers, Hangup(h) PROVE TypeOK'
  <2>1. HandlersTyped'
    <3>1. CASE at[h] \in {"open", "put"}
      BY <1>8, <3>1 DEF Hangup, TypeOK, HandlersTyped
    <3>2. CASE at[h] \notin {"open", "put"}
      BY <1>0, <1>8, <3>2 DEF Hangup, Steps
    <3>. QED
      BY <3>1, <3>2
  <2>2. mixed' \subseteq Handlers /\ late' \subseteq Tokens \cup Handlers
    BY <1>8 DEF Hangup, TypeOK, Active, Admitted
  <2>3. astray' \in BOOLEAN
    BY <1>8 DEF Hangup
  <2>. QED
    BY <1>8, <2>1, <2>2, <2>3 DEF Hangup, TypeOK, HandlersTyped
<1>9. ASSUME NEW t \in Tokens, Logout(t) PROVE TypeOK'
  BY <1>9, SessionConstants DEF Logout, TypeOK
<1>10. CASE Tick
  BY <1>10, SessionConstants DEF Tick, TypeOK
<1>11. CASE Restart
  <2>1. Default \in Passwords /\ 0 \in 0 .. Ttl /\ Window \in 0 .. Window /\ "idle" \in Steps
    BY SessionConstants DEF Steps
  <2>2. pwHash' \in Passwords /\ file' \in Passwords \cup {Torn}
    BY <1>11, <2>1 DEF Restart, Holds, TypeOK
  <2>3. life' \in [Tokens -> 0 .. Ttl] /\ fails' \in [Tries -> 0 .. Window]
        /\ opened' \in [Tokens -> Passwords]
    BY <1>11, <2>1 DEF Restart
  <2>4. HandlersTyped'
    BY <1>11, <2>1 DEF Restart, HandlersTyped
  <2>. QED
    BY <1>11, <2>2, <2>3, <2>4 DEF Restart, TypeOK, HandlersTyped
<1>12. CASE UNCHANGED vars
  BY <1>12 DEF vars, TypeOK
<1>. QED
  BY <1>1, <1>2, <1>3, <1>4, <1>5, <1>6, <1>7, <1>8, <1>9, <1>10, <1>11, <1>12 DEF Next, Work

-----------------------------------------------------------------------------
(* The lockout.                                                            *)

\* The two sets are finite, and their sizes numbers.
LEMMA Sizes ==
    ASSUME TypeOK
    PROVE  /\ IsFiniteSet(Recent) /\ IsFiniteSet(InFlight)
           /\ Cardinality(Recent) \in Nat /\ Cardinality(InFlight) \in Nat
           /\ Cardinality(InFlight) <= Cardinality(Handlers)
           /\ Cardinality(Handlers) \in Nat /\ Cardinality(Tries) \in Nat
<1>1. Recent \in SUBSET Tries /\ InFlight \in SUBSET Handlers
  BY DEF Recent, InFlight
<1>. QED
  BY <1>1, SessionConstants, FS_Subset, FS_CardinalityType

\* Where no failure is added and no request gets past the test, the bound holds.
LEMMA NothingAdded ==
    ASSUME TypeOK, LockoutBound, TypeOK', Recent' \subseteq Recent, InFlight' \subseteq InFlight
    PROVE  LockoutBound'
<1>1. Cardinality(Recent') <= Cardinality(Recent) /\ Cardinality(Recent') \in Nat
  BY Sizes, FS_Subset, FS_CardinalityType
<1>2. Cardinality(InFlight') <= Cardinality(InFlight) /\ Cardinality(InFlight') \in Nat
  BY Sizes, FS_Subset, FS_CardinalityType
<1>. QED
  BY <1>1, <1>2, Sizes, SessionConstants DEF LockoutBound

\* A failure takes the place of the request that is recorded as one.
LEMMA FailureRecorded ==
    ASSUME TypeOK, LockoutBound, NEW h \in Handlers, Fail(h)
    PROVE  LockoutBound'
<1>1. h \in InFlight /\ InFlight' = InFlight \ {h}
  BY DEF Fail, Goto, InFlight, TypeOK
<1>2. Cardinality(InFlight') = Cardinality(InFlight) - 1
  BY <1>1, Sizes, FS_RemoveElement
<1>3. Cardinality(InFlight) \in Nat \ {0}
  <2>1. InFlight # {}
    BY <1>1
  <2>. QED
    BY <2>1, Sizes, FS_EmptySet
<1>4. CASE since[h] >= Window
  <2>1. Recent' = Recent
    BY <1>4, SessionConstants DEF Fail, Recent, TypeOK
  <2>. QED
    BY <1>2, <1>3, <2>1, Sizes, SessionConstants DEF LockoutBound
<1>5. CASE since[h] < Window
  <2>. DEFINE f == CHOOSE f \in Tries : f \notin Recent
  <2>1. Recent # Tries
    BY <1>3, Sizes, SessionConstants DEF LockoutBound
  <2>2. f \in Tries /\ f \notin Recent
    BY <2>1 DEF Recent
  <2>. HIDE DEF f
  <2>3. fails' = [fails EXCEPT ![f] = since[h]]
    BY <1>5 DEF Fail, f
  <2>4. Recent' = Recent \cup {f}
    BY <1>5, <2>2, <2>3 DEF Recent, TypeOK
  <2>5. Cardinality(Recent') = Cardinality(Recent) + 1
    BY <2>2, <2>4, Sizes, FS_AddElement
  <2>. QED
    BY <1>2, <1>3, <2>5, Sizes, SessionConstants DEF LockoutBound
<1>. QED
  BY <1>4, <1>5, SessionConstants DEF TypeOK

\* A request passes the test only below the limit, and not all the others are
\* past it already.
LEMMA TestPassed ==
    ASSUME TypeOK, LockoutBound, NEW h \in Handlers, Count(h)
    PROVE  LockoutBound'
<1>1. CASE Cardinality(Recent) < Limit
  <2>1. h \notin InFlight /\ Recent' = Recent /\ InFlight' = InFlight \cup {h}
    BY <1>1 DEF Count, Goto, InFlight, Recent, TypeOK
  <2>2. Cardinality(InFlight') <= Cardinality(Handlers) /\ Cardinality(InFlight') \in Nat
    <3>1. InFlight' \in SUBSET Handlers
      BY DEF InFlight
    <3>. QED
      BY <3>1, SessionConstants, FS_Subset, FS_CardinalityType
  <2>. QED
    BY <1>1, <2>1, <2>2, Sizes, SessionConstants DEF LockoutBound
<1>2. CASE ~(Cardinality(Recent) < Limit)
  <2>1. Recent' = Recent /\ InFlight' = InFlight
    BY <1>2 DEF Count, Goto, InFlight, Recent, TypeOK
  <2>. QED
    BY <2>1 DEF LockoutBound
<1>. QED
  BY <1>1, <1>2

\* Every step keeps the bound.
LEMMA LockoutStep ==
    TypeOK /\ LockoutBound /\ [Next]_vars => LockoutBound'
<1>. SUFFICES ASSUME TypeOK, LockoutBound, [Next]_vars PROVE LockoutBound'
  OBVIOUS
<1>. USE DEF Goto, history, handler
<1>0. TypeOK'
  BY TypeStep
<1>1. ASSUME NEW h \in Handlers, Login(h) \/ Change(h) \/ CheckOld(h) \/ OpenFile(h)
                                \/ PutFile(h) \/ SetHash(h) \/ EndSessions(h) \/ Insert(h)
      PROVE  LockoutBound'
  <2>1. Recent' = Recent
    BY <1>1 DEF Recent, Login, Change, CheckOld, OpenFile, PutFile, SetHash, EndSessions, Insert
  <2>2. InFlight' \subseteq InFlight
    BY <1>1 DEF TypeOK, InFlight, Login, Change, CheckOld, OpenFile, PutFile, SetHash,
                EndSessions, Insert
  <2>. QED
    BY <1>0, <2>1, <2>2, NothingAdded
<1>2. ASSUME NEW h \in Handlers, Compare(h) \/ ClearFails(h) \/ Hangup(h)
      PROVE  LockoutBound'
  <2>1. Recent' \subseteq Recent
    BY <1>2, SessionConstants DEF Recent, Compare, ClearFails, Hangup
  <2>2. InFlight' \subseteq InFlight
    BY <1>2 DEF TypeOK, InFlight, Compare, ClearFails, Hangup
  <2>. QED
    BY <1>0, <2>1, <2>2, NothingAdded
<1>3. ASSUME NEW t \in Tokens, Logout(t) PROVE LockoutBound'
  BY <1>3 DEF Logout, LockoutBound, Recent, InFlight
<1>4. CASE Tick
  <2>1. Recent' \subseteq Recent
    BY <1>4, SessionConstants DEF Tick, Recent, TypeOK
  <2>2. InFlight' = InFlight
    BY <1>4 DEF Tick, InFlight
  <2>. QED
    BY <1>0, <2>1, <2>2, NothingAdded
<1>5. CASE Restart
  <2>1. Recent' \subseteq Recent
    BY <1>5, SessionConstants DEF Restart, Recent, TypeOK
  <2>2. InFlight' \subseteq InFlight
    BY <1>5 DEF Restart, InFlight
  <2>. QED
    BY <1>0, <2>1, <2>2, NothingAdded
<1>6. CASE UNCHANGED vars
  BY <1>6 DEF vars, LockoutBound, Recent, InFlight
<1>. QED
  BY <1>1, <1>2, <1>3, <1>4, <1>5, <1>6, FailureRecorded, TestPassed DEF Next, Work

\* Where no failure is added, and during a lockout no request gets past the
\* test, the lockout goes on as it was or is over.
LEMMA NothingYounger ==
    ASSUME TypeOK, TypeOK', LockedOK, Watch(0), Recent' \subseteq Recent,
           \A f \in Recent' : fails'[f] = fails[f],
           Cardinality(Recent) >= Limit =>
               \A h \in InFlight' : h \in InFlight /\ since'[h] = since[h]
    PROVE  LockedOK'
<1>1. Cardinality(Recent') <= Cardinality(Recent) /\ Cardinality(Recent') \in Nat
      /\ Cardinality(Recent) \in Nat /\ Limit \in Nat /\ locked \in Nat
  BY Sizes, FS_Subset, FS_CardinalityType, SessionConstants DEF TypeOK
<1>2. CASE Cardinality(Recent') < Limit
  BY <1>2 DEF Watch, LockedOK
<1>3. CASE ~(Cardinality(Recent') < Limit)
  <2>1. Cardinality(Recent) >= Limit /\ locked' = locked
    BY <1>1, <1>3 DEF Watch
  <2>. QED
    BY <1>1, <1>3, <2>1 DEF LockedOK
<1>. QED
  BY <1>2, <1>3

\* A failure is recorded as old as the clock its request read: during a
\* lockout, before it began.
LEMMA FailureOld ==
    ASSUME TypeOK, TypeOK', LockedOK, NEW h \in Handlers, Fail(h), Watch(0)
    PROVE  LockedOK'
<1>1. Cardinality(Recent) \in Nat /\ Limit \in Nat /\ Window \in Nat \ {0} /\ locked \in Nat
  BY Sizes, SessionConstants DEF TypeOK
<1>2. h \in InFlight /\ \A g \in InFlight' : g \in InFlight /\ since'[g] = since[g]
  BY DEF Fail, Goto, InFlight, TypeOK
<1>3. \A f \in Recent' : (f \in Recent /\ fails'[f] = fails[f]) \/ fails'[f] = since[h]
  BY DEF Fail, Recent, TypeOK
<1>4. CASE Cardinality(Recent') < Limit
  BY <1>4 DEF Watch, LockedOK
<1>5. CASE ~(Cardinality(Recent') < Limit) /\ Cardinality(Recent) < Limit
  <2>1. locked' = 0
    BY <1>1, <1>5 DEF Watch, LockedOK
  <2>2. (\A f \in Tries : fails'[f] >= 0) /\ (\A g \in Handlers : since'[g] >= 0)
    BY SessionConstants DEF TypeOK
  <2>. QED
    BY <1>1, <1>5, <2>1, <2>2 DEF LockedOK, Recent, InFlight
<1>6. CASE ~(Cardinality(Recent') < Limit) /\ ~(Cardinality(Recent) < Limit)
  <2>1. locked' = locked
    BY <1>1, <1>6 DEF Watch
  <2>. QED
    BY <1>2, <1>3, <1>6, <2>1 DEF LockedOK
<1>. QED
  BY <1>4, <1>5, <1>6

\* With time the failures grow as old as the lockout, and count no more.
LEMMA LockoutAges ==
    ASSUME TypeOK, TypeOK', LockedOK, Tick, Watch(1)
    PROVE  LockedOK'
<1>1. Cardinality(Recent') <= Cardinality(Recent) /\ Cardinality(Recent') \in Nat
      /\ Cardinality(Recent) \in Nat /\ Limit \in Nat \ {0} /\ locked \in Nat
      /\ Window \in Nat \ {0} /\ Ttl \in Nat /\ Window <= Ttl
  <2>1. Recent' \subseteq Recent
    BY SessionConstants DEF Tick, Recent, TypeOK
  <2>. QED
    BY <2>1, Sizes, FS_Subset, FS_CardinalityType, SessionConstants DEF TypeOK
<1>2. CASE Cardinality(Recent') < Limit
  BY <1>2 DEF Watch, LockedOK
<1>3. CASE ~(Cardinality(Recent') < Limit)
  <2>1. locked' = locked + 1 /\ ~(Cardinality(Recent) < Limit)
    BY <1>1, <1>3 DEF Watch
  <2>2. \A f \in Recent' : fails'[f] >= locked' /\ fails'[f] < Window /\ fails'[f] \in Nat
    BY <1>1, <2>1 DEF LockedOK, Tick, Recent, TypeOK
  <2>3. PICK f \in Recent' : TRUE
    <3>1. Recent' # {}
      BY <1>1, <1>3, FS_EmptySet
    <3>. QED
      BY <3>1
  <2>4. locked' < Window
    BY <1>1, <2>1, <2>2, <2>3
  <2>5. \A h \in InFlight' : since'[h] >= locked'
    BY <1>1, <2>1 DEF LockedOK, Tick, InFlight, TypeOK
  <2>. QED
    BY <1>3, <2>2, <2>4, <2>5 DEF LockedOK
<1>. QED
  BY <1>2, <1>3

\* Every step keeps the lockout's measure.
LEMMA LockedStep ==
    TypeOK /\ LockedOK /\ [Next]_vars => LockedOK'
<1>. SUFFICES ASSUME TypeOK, LockedOK, [Next]_vars PROVE LockedOK'
  OBVIOUS
<1>. USE DEF Goto, history, handler
<1>0. TypeOK'
  BY TypeStep
<1>1. ASSUME NEW h \in Handlers, Watch(0),
             Login(h) \/ Count(h) \/ Change(h) \/ CheckOld(h) \/ OpenFile(h)
             \/ PutFile(h) \/ SetHash(h) \/ EndSessions(h) \/ Insert(h)
      PROVE  LockedOK'
  <2>1. fails' = fails
    BY <1>1 DEF Login, Count, Change, CheckOld, OpenFile, PutFile, SetHash, EndSessions,
                Insert
  <2>2. Recent' = Recent
    BY <2>1 DEF Recent
  <2>3. Cardinality(Recent) >= Limit =>
            \A g \in InFlight' : g \in InFlight /\ since'[g] = since[g]
    <3>1. CASE Count(h)
      BY <3>1, Sizes, SessionConstants DEF Count, InFlight, TypeOK
    <3>2. CASE ~Count(h)
      BY <1>1, <3>2 DEF TypeOK, InFlight, Login, Change, CheckOld, OpenFile, PutFile, SetHash,
                  EndSessions, Insert
    <3>. QED
      BY <3>1, <3>2
  <2>. QED
    BY <1>0, <1>1, <2>1, <2>2, <2>3, NothingYounger
<1>2. ASSUME NEW h \in Handlers, Watch(0), Compare(h) \/ ClearFails(h) \/ Hangup(h)
      PROVE  LockedOK'
  <2>1. Recent' \subseteq Recent /\ \A f \in Recent' : fails'[f] = fails[f]
    BY <1>2, SessionConstants DEF Recent, Compare, ClearFails, Hangup
  <2>2. \A g \in InFlight' : g \in InFlight /\ since'[g] = since[g]
    BY <1>2 DEF TypeOK, InFlight, Compare, ClearFails, Hangup
  <2>. QED
    BY <1>0, <1>2, <2>1, <2>2, NothingYounger
<1>3. ASSUME NEW t \in Tokens, Logout(t), Watch(0) PROVE LockedOK'
  <2>1. Recent' = Recent /\ InFlight' = InFlight /\ fails' = fails /\ since' = since
    BY <1>3 DEF Logout, Recent, InFlight
  <2>. QED
    BY <1>0, <1>3, <2>1, NothingYounger
<1>4. CASE Restart /\ Watch(0)
  <2>1. Recent' = {} /\ InFlight' = {}
    BY <1>4, SessionConstants DEF Restart, Recent, InFlight
  <2>. QED
    BY <1>0, <1>4, <2>1, NothingYounger
<1>5. CASE UNCHANGED vars
  BY <1>5 DEF vars, LockedOK, Recent, InFlight
<1>. QED
  BY <1>0, <1>1, <1>2, <1>3, <1>4, <1>5, FailureOld, LockoutAges DEF Next, Work

-----------------------------------------------------------------------------
(* The sessions and the password.                                          *)

\* Every step keeps the sessions, and the logins about to open one.
LEMMA SessionsStep ==
    TypeOK /\ OldSessionsEnd /\ AdmittedOK /\ [Next]_vars => OldSessionsEnd' /\ AdmittedOK'
<1>. SUFFICES ASSUME TypeOK, OldSessionsEnd, AdmittedOK, [Next]_vars
              PROVE  OldSessionsEnd' /\ AdmittedOK'
  OBVIOUS
<1>. USE DEF Goto, history, handler, OldSessionsEnd, AdmittedOK, Active, Admitted
<1>1. ASSUME NEW h \in Handlers, Login(h) \/ Change(h) \/ Count(h) \/ Fail(h) \/ ClearFails(h)
      PROVE  OldSessionsEnd' /\ AdmittedOK'
  BY <1>1 DEF TypeOK, Login, Change, Count, Fail, ClearFails
<1>2. ASSUME NEW h \in Handlers, Compare(h) PROVE OldSessionsEnd' /\ AdmittedOK'
  BY <1>2 DEF TypeOK, Compare
<1>3. ASSUME NEW h \in Handlers, CheckOld(h) \/ OpenFile(h) \/ PutFile(h)
      PROVE  OldSessionsEnd' /\ AdmittedOK'
  BY <1>3 DEF TypeOK, CheckOld, OpenFile, PutFile
<1>4. ASSUME NEW h \in Handlers, Insert(h) PROVE OldSessionsEnd' /\ AdmittedOK'
  BY <1>4, SessionConstants DEF TypeOK, Insert
<1>5. ASSUME NEW h \in Handlers, SetHash(h) PROVE OldSessionsEnd' /\ AdmittedOK'
  <2>1. at'[h] = "end"
    BY <1>5 DEF TypeOK, SetHash
  <2>. QED
    BY <2>1
<1>6. ASSUME NEW h \in Handlers, EndSessions(h) PROVE OldSessionsEnd' /\ AdmittedOK'
  BY <1>6 DEF TypeOK, EndSessions
<1>7. ASSUME NEW h \in Handlers, Hangup(h) PROVE OldSessionsEnd' /\ AdmittedOK'
  BY <1>7, SessionConstants DEF TypeOK, Hangup
<1>8. ASSUME NEW t \in Tokens, Logout(t) PROVE OldSessionsEnd' /\ AdmittedOK'
  BY <1>8, SessionConstants DEF TypeOK, Logout
<1>9. CASE Tick
  BY <1>9, SessionConstants DEF TypeOK, Tick
<1>10. CASE Restart
  BY <1>10 DEF Restart
<1>11. CASE UNCHANGED vars
  BY <1>11 DEF vars
<1>. QED
  BY <1>1, <1>2, <1>3, <1>4, <1>5, <1>6, <1>7, <1>8, <1>9, <1>10, <1>11 DEF Next, Work

\* Every step keeps the file and the password in force.
LEMMA DiskStep ==
    TypeOK /\ DiskAgrees /\ WritersOK /\ [Next]_vars => DiskAgrees' /\ WritersOK'
<1>. SUFFICES ASSUME TypeOK, DiskAgrees, WritersOK, [Next]_vars
              PROVE  DiskAgrees' /\ WritersOK'
  OBVIOUS
<1>. USE DEF Goto, history, handler, DiskAgrees, WritersOK, Writers, Holds
<1>1. ASSUME NEW h \in Handlers, Login(h) \/ Change(h) \/ Count(h) \/ Compare(h) \/ Fail(h)
                                \/ ClearFails(h) \/ Insert(h) \/ EndSessions(h)
      PROVE  DiskAgrees' /\ WritersOK'
  BY <1>1 DEF TypeOK, Login, Change, Count, Compare, Fail, ClearFails, Insert, EndSessions
<1>2. ASSUME NEW h \in Handlers, CheckOld(h) PROVE DiskAgrees' /\ WritersOK'
  BY <1>2 DEF TypeOK, CheckOld
<1>3. ASSUME NEW h \in Handlers, OpenFile(h) PROVE DiskAgrees' /\ WritersOK'
  BY <1>3 DEF TypeOK, OpenFile
<1>4. ASSUME NEW h \in Handlers, PutFile(h) PROVE DiskAgrees' /\ WritersOK'
  BY <1>4 DEF TypeOK, PutFile
<1>5. ASSUME NEW h \in Handlers, SetHash(h) PROVE DiskAgrees' /\ WritersOK'
  <2>1. pwHash' = pass[h] /\ pass[h] # Torn /\ UNCHANGED <<file, pass>>
        /\ Writers' = Writers \ {h} /\ mixed' = mixed \ {h} /\ astray' = (h \in mixed)
        /\ h \in Writers /\ at[h] = "set" /\ \A g \in Writers' : at'[g] = at[g]
    BY <1>5, SessionConstants DEF TypeOK, SetHash
  <2>2. CASE h \in mixed
    BY <2>1, <2>2
  <2>3. CASE h \notin mixed
    <3>1. Writers = {h} /\ file = pass[h]
      BY <2>1, <2>3
    <3>2. Writers' = {}
      BY <2>1, <3>1
    <3>. QED
      BY <2>1, <3>1, <3>2
  <2>. QED
    BY <2>2, <2>3
<1>6. ASSUME NEW h \in Handlers, Hangup(h) PROVE DiskAgrees' /\ WritersOK'
  <2>1. CASE at[h] \in {"open", "put"}
    BY <1>6, <2>1 DEF TypeOK, Hangup
  <2>2. CASE at[h] = "set"
    <3>1. UNCHANGED <<file, pwHash>> /\ Writers' = Writers \ {h} /\ mixed' = mixed \ {h}
          /\ h \in Writers
          /\ \A g \in Writers' : at'[g] = at[g] /\ pass'[g] = pass[g]
      BY <1>6, <2>2 DEF TypeOK, Hangup
    <3>a. astray' = TRUE
      BY <1>6, <2>2 DEF Hangup
    <3>2. \A g \in Writers' \ mixed' : Writers = {g} /\ g # h
      BY <3>1
    <3>3. Writers' \ mixed' = {}
      BY <3>1, <3>2
    <3>. QED
      BY <3>a, <3>3
  <2>3. CASE at[h] \notin {"open", "put", "set"}
    <3>1. UNCHANGED <<file, pwHash>> /\ Writers' = Writers /\ mixed' = mixed \ {h}
          /\ h \notin Writers /\ astray' = astray
          /\ \A g \in Handlers \ {h} : at'[g] = at[g] /\ pass'[g] = pass[g]
      BY <1>6, <2>3 DEF TypeOK, Hangup
    <3>. QED
      BY <2>3, <3>1
  <2>. QED
    BY <2>1, <2>2, <2>3
<1>7. CASE \E t \in Tokens : Logout(t)
  BY <1>7 DEF Logout
<1>8. CASE Tick
  BY <1>8 DEF Tick
<1>9. CASE Restart
  BY <1>9 DEF Restart
<1>10. CASE UNCHANGED vars
  BY <1>10 DEF vars
<1>. QED
  BY <1>1, <1>2, <1>3, <1>4, <1>5, <1>6, <1>7, <1>8, <1>9, <1>10 DEF Next, Work

-----------------------------------------------------------------------------

\* The invariant holds at first: nothing counts and nobody is served.
LEMMA InitIInv ==
    Init => IInv
<1>. SUFFICES ASSUME Init PROVE IInv
  OBVIOUS
<1>1. TypeOK
  <2>1. Default \in Passwords /\ 0 \in 0 .. Ttl /\ Window \in 0 .. Window /\ "idle" \in Steps
    BY SessionConstants DEF Steps
  <2>. QED
    BY <2>1 DEF Init, TypeOK, Holds
<1>2. LockoutBound
  <2>1. Recent = {} /\ InFlight = {}
    BY SessionConstants DEF Init, Recent, InFlight
  <2>. QED
    BY <1>1, <2>1, Sizes, FS_EmptySet, SessionConstants DEF LockoutBound
<1>3. LockedOK
  <2>1. Recent = {} /\ Cardinality(Recent) = 0
    BY SessionConstants, FS_EmptySet DEF Init, Recent
  <2>. QED
    BY <2>1, SessionConstants DEF Init, LockedOK
<1>. QED
  BY <1>1, <1>2, <1>3 DEF Init, IInv, OldSessionsEnd, AdmittedOK, DiskAgrees, WritersOK,
                    Active, Admitted, Writers

\* The inductive invariant holds throughout.
THEOREM Invariance ==
    Spec => []IInv
<1>1. IInv /\ [Next]_vars => IInv'
  BY TypeStep, LockoutStep, LockedStep, SessionsStep, DiskStep DEF IInv
<1>. QED
  BY InitIInv, <1>1, PTL DEF Spec

\* No step of any handler, however they interleave, leaves the state's shape:
\* not even a restart after a torn write.
THEOREM TypeCorrect ==
    Spec => []TypeOK
BY Invariance, PTL DEF IInv

\* The number of failed attempts that count is bounded, though the limit is
\* tested and the failure recorded under different locks.
THEOREM LockoutHolds ==
    Spec => []LockoutBound
BY Invariance, PTL DEF IInv

\* However many attempts it refuses, and whatever was in progress as it began,
\* a lockout is over within the time an attempt counts.
THEOREM LockoutIsBrief ==
    Spec => []LockoutBrief
<1>1. TypeOK /\ LockedOK => LockoutBrief
  BY Sizes, SessionConstants DEF LockedOK, LockoutBrief
<1>. QED
  BY <1>1, Invariance, PTL DEF IInv

\* A session opened with an old password is one the change could not reach.
THEOREM OldSessionsEnded ==
    Spec => []OldSessionsEnd
BY Invariance, PTL DEF IInv

\* What a restart would read is the password in force, but for a change that
\* went astray.
THEOREM DiskAgreed ==
    Spec => []DiskAgrees
BY Invariance, PTL DEF IInv

\* A step that opens a session is the last one of a login whose password is
\* the one in force, or was until a change that has not ended the sessions yet
\* or has done so since the password was tested.
OpensByPassword ==
    \A t \in Tokens : t \notin Active /\ life'[t] > 0 =>
        \E h \in Handlers :
            /\ at[h] = "insert" /\ at'[h] = "idle" /\ opened'[t] = pass[h]
            /\ \/ pass[h] = pwHash
               \/ h \in late
               \/ \E g \in Handlers : at[g] = "end"

\* Nothing but a login that has passed the test of its password opens a
\* session: no change of password, logout, dropped request, passing of time or
\* restart brings one back.
THEOREM SessionsOpenByPassword ==
    Spec => [][OpensByPassword]_vars
<1>1. ASSUME IInv, [Next]_vars PROVE OpensByPassword
  <2>. SUFFICES ASSUME NEW t \in Tokens, life[t] = 0, life'[t] > 0
                PROVE  \E h \in Handlers :
                          /\ at[h] = "insert" /\ at'[h] = "idle" /\ opened'[t] = pass[h]
                          /\ \/ pass[h] = pwHash
                             \/ h \in late
                             \/ \E g \in Handlers : at[g] = "end"
    BY <1>1 DEF OpensByPassword, Active, IInv, TypeOK
  <2>1. ASSUME NEW h \in Handlers, Insert(h)
        PROVE  /\ at[h] = "insert" /\ at'[h] = "idle" /\ opened'[t] = pass[h]
               /\ \/ pass[h] = pwHash
                  \/ h \in late
                  \/ \E g \in Handlers : at[g] = "end"
    <3>1. at[h] = "insert" /\ at'[h] = "idle"
      BY <1>1, <2>1 DEF Insert, Goto, IInv, TypeOK
    <3>2. opened'[t] = pass[h]
      BY <1>1, <2>1, SessionConstants DEF Insert, IInv, TypeOK
    <3>3. h \in Admitted
      BY <3>1 DEF Admitted
    <3>. QED
      BY <1>1, <3>1, <3>2, <3>3 DEF IInv, AdmittedOK
  <2>2. \E h \in Handlers : Insert(h)
    <3>. SUFFICES ASSUME ~ \E h \in Handlers : Insert(h) PROVE life'[t] = 0
      BY <1>1 DEF IInv, TypeOK
    <3>1. CASE Tick \/ Restart
      BY <3>1 DEF Tick, Restart
    <3>2. ASSUME NEW u \in Tokens, Logout(u) PROVE life'[t] = 0
      BY <1>1, <3>2 DEF Logout, IInv, TypeOK
    <3>3. ASSUME NEW h \in Handlers, EndSessions(h) PROVE life'[t] = 0
      BY <3>3 DEF EndSessions
    <3>4. CASE UNCHANGED life
      BY <3>4
    <3>. QED
      BY <1>1, <3>1, <3>2, <3>3, <3>4
         DEF Next, Work, Login, Count, Compare, Fail, ClearFails, Change, CheckOld, OpenFile,
             PutFile, SetHash, Hangup, vars
  <2>. QED
    BY <2>1, <2>2
<1>. QED
  BY <1>1, Invariance, PTL DEF Spec
=============================================================================
