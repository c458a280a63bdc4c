--------------------------- MODULE WebPlayersProofs ---------------------------
(***************************************************************************)
(* Proofs about WebPlayers: IInv is inductive, and what follows from it.   *)
(***************************************************************************)
EXTENDS WebPlayers, TLAPS

\* The table After as a relation: handler o goes from step a to step b.
Follows(o, a, b) ==
    \/ /\ o = "hls_start"
       /\ \/ (a = "token" /\ b = "kill") \/ (a = "kill" /\ b = "clean")
          \/ (a = "clean" /\ b = "spawn") \/ (a = "spawn" /\ b = "store")
          \/ (a = "store" /\ b = "idle")
    \/ /\ o = "hls_stop"
       /\ \/ (a = "kill" /\ b = "remove") \/ (a = "remove" /\ b = "clean")
          \/ (a = "clean" /\ b = "idle")
    \/ /\ o = "preview_start"
       /\ \/ (a = "kill" /\ b = "drop") \/ (a = "drop" /\ b = "spawn")
          \/ (a = "spawn" /\ b = "store") \/ (a = "store" /\ b = "token")
          \/ (a = "token" /\ b = "publish") \/ (a = "publish" /\ b = "idle")
    \/ /\ o = "preview_stop"
       /\ \/ (a = "kill" /\ b = "drop") \/ (a = "drop" /\ b = "remove")
          \/ (a = "remove" /\ b = "idle")
    \/ /\ o = "logout"
       /\ \/ (a = "remove" /\ b = "kill") \/ (a = "kill" /\ b = "killPreview")
          \/ (a = "killPreview" /\ b = "idle")

\* What is known of h after a step to at'[h], and of the others.
Moved(h) ==
    /\ \A g \in Handlers : g # h => op'[g] = op[g] /\ at'[g] = at[g] /\ num'[g] = num[g]
    /\ \/ op'[h] = "none" /\ at'[h] = "idle"
       \/ op'[h] = op[h] /\ num'[h] = num[h] /\ Follows(op[h], at[h], at'[h])

\* After, looked up.
LEMMA Table ==
    ASSUME NEW o \in AllOps, NEW a \in DOMAIN After[o]
    PROVE  /\ Follows(o, a, After[o][a])
           /\ After[o][a] # "idle" => After[o][a] \in DOMAIN After[o]
<1>1. CASE o = "hls_start"
  BY <1>1 DEF After, Follows
<1>2. CASE o = "hls_stop"
  BY <1>2 DEF After, Follows
<1>3. CASE o = "preview_start"
  BY <1>3 DEF After, Follows
<1>4. CASE o = "preview_stop"
  BY <1>4 DEF After, Follows
<1>5. CASE o = "logout"
  BY <1>5 DEF After, Follows
<1> QED BY <1>1, <1>2, <1>3, <1>4, <1>5 DEF AllOps

LEMMA FirstOf ==
    ASSUME NEW o \in AllOps
    PROVE  First[o] \in DOMAIN After[o]
BY DEF AllOps, First, After

LEMMA DoneMoves ==
    ASSUME HandlersOK, NEW h \in Handlers, Done(h)
    PROVE  HandlersOK' /\ Moved(h)
BY PlayersConstants DEF HandlersOK, Done, Moved

LEMMA GoesMoves ==
    ASSUME HandlersOK, NEW h \in Handlers, at[h] # "idle", Goes(h)
    PROVE  /\ HandlersOK' /\ Moved(h)
           /\ Follows(op[h], at[h], "idle") => op'[h] = "none"
           /\ ~Follows(op[h], at[h], "idle") => op'[h] = op[h]
<1>1. op[h] \in AllOps /\ at[h] \in DOMAIN After[op[h]]
  BY DEF HandlersOK
<1>2. Follows(op[h], at[h], After[op[h]][at[h]])
  BY <1>1, Table
<1>3. CASE After[op[h]][at[h]] = "idle"
  <2>1. Done(h)
    BY <1>3 DEF Goes
  <2> QED BY <2>1, <1>2, <1>3, DoneMoves DEF Done, HandlersOK
<1>4. CASE After[op[h]][at[h]] # "idle"
  <2>1. /\ at' = [at EXCEPT ![h] = After[op[h]][at[h]]] /\ UNCHANGED <<op, num>>
    BY <1>4 DEF Goes
  <2>2. After[op[h]][at[h]] \in DOMAIN After[op[h]]
    BY <1>1, <1>4, Table
  <2>3. Moved(h)
    BY <1>2, <2>1 DEF Moved, HandlersOK
  <2>4. ~Follows(op[h], at[h], "idle")
    BY <1>2, <1>4 DEF Follows
  <2>5. After[op[h]][at[h]] \in {"token", "kill", "clean", "spawn", "store", "remove",
                                "drop", "publish", "killPreview"}
    BY <1>2, <1>4 DEF Follows
  <2>6. HandlersOK'
    BY <2>1, <2>2, <2>5 DEF HandlersOK
  <2> QED BY <2>1, <2>3, <2>4, <2>6
<1> QED BY <1>3, <1>4

LEMMA HandlersStay ==
    ASSUME HandlersOK, UNCHANGED handler PROVE HandlersOK'
BY DEF handler, HandlersOK

\* Only starts have a "spawn" step.
LEMMA SpawnIsStart ==
    ASSUME HandlersOK, NEW h \in Handlers, at[h] \in {"token", "spawn", "store", "publish"}
    PROVE  op[h] \in {"hls_start", "preview_start"}
<1>1. op[h] \in AllOps /\ at[h] \in DOMAIN After[op[h]]
  BY DEF HandlersOK
<1> QED BY <1>1, Table DEF AllOps, Follows

\* A request arrives.
LEMMA ArrivalMoves ==
    ASSUME HandlersOK, NEW h \in Handlers, NEW o \in AllOps, Arrives(h, o),
           num' \in [Handlers -> 0 .. MaxStarts]
    PROVE  HandlersOK'
<1>1. First[o] \in {"token", "kill", "remove"} /\ First[o] \in DOMAIN After[o]
  BY FirstOf DEF AllOps, First
<1> QED BY <1>1 DEF HandlersOK, Arrives, AllOps

\* The player of a step.
LEMMA PlayerFacts ==
    ASSUME HandlersOK, NEW h \in Handlers
    PROVE  /\ PlayerOf(h) \in Players
           /\ op[h] = "hls_start" => PlayerOf(h) = "hls"
           /\ op[h] = "preview_start" => PlayerOf(h) = "preview"
<1>1. op[h] = "hls_start" => at[h] # "killPreview"
  BY DEF HandlersOK, After
<1> QED BY <1>1 DEF PlayerOf, Players

-----------------------------------------------------------------------------
(* Type correctness.                                                       *)

LEMMA InitType == Init => TypeOK
<1> SUFFICES ASSUME Init PROVE TypeOK
  OBVIOUS
<1>1. HandlersOK
  BY PlayersConstants DEF Init, HandlersOK
<1>2. 0 \in 0 .. MaxStarts
  BY PlayersConstants
<1>3. clash \in [Players -> BOOLEAN] /\ failed \in [Players -> BOOLEAN] /\ up \in BOOLEAN
  BY DEF Init
<1> QED BY <1>1, <1>2, <1>3 DEF Init, TypeOK, Starts

LEMMA StepType ==
    ASSUME TypeOK, CountInv, [Next]_vars
    PROVE  TypeOK'
<1> USE PlayersConstants DEF TypeOK, Starts
<1>1. ASSUME NEW h \in Handlers, NEW p \in Players, RequestStart(h, p) PROVE TypeOK'
  <2>1. num' \in [Handlers -> 0 .. MaxStarts] /\ StartOf[p] \in AllOps
    BY <1>1 DEF RequestStart, Players, StartOf, AllOps, HandlersOK
  <2>2. HandlersOK'
    BY <1>1, <2>1, ArrivalMoves DEF RequestStart
  <2>3. started[p] + 1 \in 0 .. MaxStarts
    BY <1>1 DEF RequestStart, Players
  <2> QED BY <1>1, <2>2, <2>3 DEF RequestStart, Arrives, child, preview
<1>2. ASSUME NEW h \in Handlers, RequestOther(h) PROVE TypeOK'
  <2>1. PICK o \in AllOps : Arrives(h, o)
    BY <1>2 DEF RequestOther, AllOps
  <2>2. HandlersOK'
    BY <1>2, <2>1, ArrivalMoves DEF RequestOther, HandlersOK
  <2> QED BY <1>2, <2>1, <2>2 DEF RequestOther, Arrives, child, preview
<1>3. ASSUME NEW h \in Handlers, Cancel(h) PROVE TypeOK'
  BY <1>3, DoneMoves DEF Cancel, child, preview, history
<1>4. ASSUME NEW h \in Handlers, HandlerStep(h) PROVE TypeOK'
  <2>1. at[h] # "idle" => (Goes(h) \/ Done(h) => HandlersOK')
    BY GoesMoves, DoneMoves
  <2>2. PlayerOf(h) \in Players
    BY PlayerFacts
  <2>3. /\ num[h] \in 0 .. MaxStarts
        /\ at[h] \in {"token", "spawn", "store", "publish"} => num[h] \in 1 .. MaxStarts
    BY SpawnIsStart DEF HandlersOK, CountInv, Starting, StartOf, Players
  <2>4. CASE WriteToken(h)
    <3>1. token' \in [Players -> 0 .. MaxStarts]
      BY <2>2, <2>3, <2>4 DEF WriteToken
    <3>2. failed' \in [Players -> BOOLEAN]
      BY <2>4, Zenon DEF WriteToken
    <3> QED BY <2>1, <2>4, <3>1, <3>2 DEF WriteToken, child, preview
  <2>5. CASE KillOld(h)
    BY <2>1, <2>2, <2>5 DEF KillOld, Killed, preview, history
  <2>6. CASE RemoveToken(h)
    BY <2>1, <2>2, <2>6 DEF RemoveToken, child, preview, history
  <2>7. CASE Clean(h)
    BY <2>1, <2>7 DEF Clean, SegmentsGone, child, preview, history
  <2>8. CASE DropChannel(h)
    BY <2>1, <2>8 DEF DropChannel, ChannelDropped, child, history
  <2>9. CASE Spawn(h)
    <3>1. running' \in [Players -> SUBSET Starts]
      BY <2>2, <2>3, <2>9 DEF Spawn
    <3> QED BY <2>1, <2>9, <3>1 DEF Spawn, preview, history
  <2>10. CASE Store(h)
    <3>1. slot' \in [Players -> 0 .. MaxStarts] /\ issued' \in [Players -> SUBSET Starts]
      BY <2>2, <2>3, <2>10 DEF Store
    <3> QED BY <2>1, <2>10, <3>1 DEF Store, preview
  <2>11. CASE Publish(h)
    <3>1. /\ issued' \in [Players -> SUBSET Starts] /\ reading' \in SUBSET Starts
          /\ tx' \in 0 .. MaxStarts
      BY <2>3, <2>11 DEF Publish, Players
    <3> QED BY <2>1, <2>11, <3>1 DEF Publish, child
  <2> QED BY <1>4, <2>4, <2>5, <2>6, <2>7, <2>8, <2>9, <2>10, <2>11 DEF HandlerStep
<1>5. CASE ChildExits \/ WriteSegment \/ ReaderEnds \/ View \/ StreamEnds
  <2>1. HandlersOK' /\ up' \in BOOLEAN /\ UNCHANGED <<started, slot, token, tx, issued, clash, failed>>
    BY <1>5, HandlersStay DEF ChildExits, WriteSegment, ReaderEnds, View, StreamEnds, child,
       preview, history
  <2>2. /\ running' \in [Players -> SUBSET Starts] /\ reading' \in SUBSET Starts
        /\ viewers' \in SUBSET Starts /\ segs' \in SUBSET Starts
    <3>1. CASE ChildExits
      BY <3>1 DEF ChildExits, preview, Players
    <3>2. CASE WriteSegment
      BY <3>2 DEF WriteSegment, child, preview, Players
    <3>3. CASE ReaderEnds \/ StreamEnds
      BY <3>3 DEF ReaderEnds, StreamEnds, child
    <3>4. CASE View
      BY <3>4 DEF View, child
    <3> QED BY <1>5, <3>1, <3>2, <3>3, <3>4
  <2> QED BY <2>1, <2>2
<1>6. CASE Crash
  <2>1. HandlersOK'
    BY <1>6 DEF Crash, HandlersOK
  <2>2. up' \in BOOLEAN
    BY <1>6, Zenon DEF Crash
  <2>3. 0 \in 0 .. MaxStarts
    OBVIOUS
  <2> QED BY <1>6, <2>1, <2>2, <2>3 DEF Crash, history
<1>7. CASE Launch \/ UNCHANGED vars
  BY <1>7, HandlersStay DEF Launch, KilledAll, vars, child, preview, history, Players
<1> QED BY <1>1, <1>2, <1>3, <1>4, <1>5, <1>6, <1>7 DEF Next

-----------------------------------------------------------------------------
(* Numbers.                                                                *)

\* A step of a handler moves it to its next step, or ends it.
LEMMA HandlerMoves ==
    ASSUME HandlersOK, NEW h \in Handlers, HandlerStep(h) \/ Cancel(h)
    PROVE  Moved(h)
<1>1. Goes(h) \/ Done(h)
  BY DEF HandlerStep, WriteToken, KillOld, RemoveToken, Clean, DropChannel, Spawn, Store,
     Publish, Cancel
<1>2. at[h] # "idle"
  BY DEF HandlerStep, WriteToken, KillOld, RemoveToken, Clean, DropChannel, Spawn, Store,
     Publish, Cancel, Suspended
<1> QED BY <1>1, <1>2, GoesMoves, DoneMoves

\* What the steps of a handler leave alone.
LEMMA HandlerKeeps ==
    ASSUME NEW h \in Handlers, HandlerStep(h) \/ Cancel(h)
    PROVE  /\ UNCHANGED <<up, started, clash>>
           /\ ~Store(h) /\ ~Publish(h) => UNCHANGED issued
BY DEF HandlerStep, WriteToken, KillOld, RemoveToken, Clean, DropChannel, Spawn, Store,
   Publish, Cancel, history

\* The last steps of the two starts, which issue the token.
LEMMA IssueStep ==
    ASSUME TypeOK, NEW h \in Handlers, Store(h) \/ Publish(h)
    PROVE  \/ /\ op[h] = "hls_start" /\ Store(h) /\ op'[h] = "none"
              /\ issued' = [issued EXCEPT !["hls"] = @ \cup {num[h]}]
           \/ /\ op[h] = "preview_start" /\ Store(h) /\ issued' = issued
              /\ op'[h] = op[h] /\ at'[h] = "token" /\ num'[h] = num[h]
           \/ /\ op[h] = "preview_start" /\ Publish(h) /\ op'[h] = "none"
              /\ issued' = [issued EXCEPT !["preview"] = @ \cup {num[h]}]
<1>0. HandlersOK
  BY DEF TypeOK
<1>1. op[h] \in {"hls_start", "preview_start"} /\ at[h] \in {"store", "publish"} /\ Goes(h)
  BY <1>0, SpawnIsStart DEF Store, Publish
<1>2. op[h] \in AllOps /\ at[h] \in DOMAIN After[op[h]]
  BY <1>0, <1>1 DEF HandlersOK
<1>3. Follows(op[h], at[h], After[op[h]][at[h]])
  BY <1>2, Table
<1>4. Moved(h) /\ (Follows(op[h], at[h], "idle") => op'[h] = "none")
                /\ (~Follows(op[h], at[h], "idle") => op'[h] = op[h])
  BY <1>0, <1>1, GoesMoves
<1>5. CASE op[h] = "hls_start"
  <2>1. at[h] = "store" /\ op'[h] = "none" /\ PlayerOf(h) = "hls"
    BY <1>1, <1>3, <1>4, <1>5, <1>0, PlayerFacts DEF Follows
  <2> QED BY <1>5, <2>1 DEF Store, Publish, Players
<1>6. CASE op[h] = "preview_start" /\ Store(h)
  <2>1. at[h] = "store" /\ op'[h] = op[h] /\ PlayerOf(h) = "preview"
    BY <1>4, <1>6, <1>0, PlayerFacts DEF Follows, Store
  <2>2. at'[h] = "token" /\ num'[h] = num[h]
    BY <1>4, <1>6, <2>1 DEF Moved, Follows
  <2>3. issued' = [issued EXCEPT !["preview"] = @]
    BY <1>6, <2>1 DEF Store
  <2>4. issued' = issued
    BY <2>3 DEF TypeOK
  <2> QED BY <1>6, <2>1, <2>2, <2>4
<1>7. CASE op[h] = "preview_start" /\ Publish(h)
  BY <1>4, <1>7 DEF Follows, Publish
<1> QED BY <1>1, <1>5, <1>6, <1>7

LEMMA StepCount ==
    ASSUME TypeOK, CountInv, [Next]_vars
    PROVE  CountInv'
<1>1. ASSUME NEW h \in Handlers, NEW p \in Players, RequestStart(h, p) PROVE CountInv'
  BY <1>1 DEF RequestStart, Arrives, TypeOK, HandlersOK, CountInv, Starting, StartOf, Players
<1>2. ASSUME NEW h \in Handlers, RequestOther(h) PROVE CountInv'
  BY <1>2 DEF RequestOther, Arrives, TypeOK, HandlersOK, CountInv, Starting, StartOf, Players
<1>3. ASSUME NEW h \in Handlers, HandlerStep(h) \/ Cancel(h) PROVE CountInv'
  <2>1. Moved(h) /\ UNCHANGED started
    BY <1>3, HandlerMoves, HandlerKeeps DEF TypeOK
  <2>2. CASE UNCHANGED issued
    BY <2>1, <2>2 DEF Moved, CountInv, Starting, StartOf, Players
  <2>3. CASE Store(h) \/ Publish(h)
    BY <2>1, <2>3, IssueStep DEF TypeOK, Moved, CountInv, Starting, StartOf, Players
  <2> QED BY <1>3, <2>2, <2>3, HandlerKeeps
<1>4. CASE Crash
  BY <1>4 DEF Crash, history, CountInv, Starting, StartOf, Players
<1>5. CASE \/ ChildExits \/ WriteSegment \/ ReaderEnds \/ View \/ StreamEnds \/ Launch
           \/ UNCHANGED vars
  BY <1>5 DEF ChildExits, WriteSegment, ReaderEnds, View, StreamEnds, Launch, vars, handler,
     history, CountInv, Starting
<1> QED BY <1>1, <1>2, <1>3, <1>4, <1>5 DEF Next

-----------------------------------------------------------------------------
(* Starts that do not overlap.                                             *)

\* A new start of p is the only one, or a clash.
LEMMA NewStart ==
    ASSUME TypeOK, NEW h \in Handlers, NEW p \in Players, RequestStart(h, p)
    PROVE  /\ op[h] = "none" /\ op' = [op EXCEPT ![h] = StartOf[p]] /\ op'[h] = StartOf[p]
           /\ at' = [at EXCEPT ![h] = First[StartOf[p]]]
           /\ at'[h] \in {"token", "kill"} /\ (p = "preview" => at'[h] = "kill")
           /\ (p = "hls" => at'[h] = "token")
           /\ \A g \in Handlers : ~clash'[p] => ~Starting(g, p)
           /\ \A q \in Players : ~clash'[q] => ~clash[q]
           /\ UNCHANGED <<up, slot, running, token, tx, segs, issued, failed>>
<1>1. /\ op[h] = "none" /\ op' = [op EXCEPT ![h] = StartOf[p]] /\ op'[h] = StartOf[p]
      /\ at' = [at EXCEPT ![h] = First[StartOf[p]]] /\ at'[h] = First[StartOf[p]]
      /\ UNCHANGED <<up, slot, running, token, tx, segs, issued, failed>>
  BY DEF RequestStart, Arrives, TypeOK, HandlersOK, child, preview
<1>2. /\ First[StartOf[p]] \in {"token", "kill"}
      /\ (p = "preview" => First[StartOf[p]] = "kill")
      /\ (p = "hls" => First[StartOf[p]] = "token")
  BY DEF Players, StartOf, First
<1>3. clash'[p] <=> clash[p] \/ \E g \in Handlers : Starting(g, p)
  BY Zenon DEF RequestStart, TypeOK
<1>4. \A q \in Players : q # p => (clash'[q] <=> clash[q])
  BY Zenon DEF RequestStart, TypeOK
<1> QED BY <1>1, <1>2, <1>3, <1>4

LEMMA OtherRequest ==
    ASSUME TypeOK, NEW h \in Handlers, RequestOther(h)
    PROVE  /\ op'[h] \notin {"hls_start", "preview_start"}
           /\ \A g \in Handlers : g # h => op'[g] = op[g] /\ at'[g] = at[g] /\ num'[g] = num[g]
           /\ UNCHANGED <<up, slot, running, token, tx, segs, issued, failed, clash>>
BY DEF RequestOther, Arrives, TypeOK, HandlersOK, child, preview

\* Where slot and running change.
LEMMA ChildKept ==
    ASSUME NEW h \in Handlers, HandlerStep(h) \/ Cancel(h), ~KillOld(h)
    PROVE  /\ Store(h) \/ slot' = slot
           /\ Spawn(h) \/ running' = running
           /\ HandlerStep(h) => at[h] \notin {"kill", "killPreview"}
BY DEF HandlerStep, WriteToken, RemoveToken, Clean, DropChannel, Spawn, Store, Publish,
     Cancel, child

LEMMA StepSerial ==
    ASSUME TypeOK, SerialInv, [Next]_vars
    PROVE  SerialInv'
<1>1. ASSUME NEW h \in Handlers, NEW p \in Players, RequestStart(h, p) PROVE SerialInv'
  BY <1>1, NewStart DEF SerialInv, Starting, StartOf, Players, TypeOK, HandlersOK
<1>2. ASSUME NEW h \in Handlers, RequestOther(h) PROVE SerialInv'
  BY <1>2, OtherRequest DEF SerialInv, Starting, StartOf, Players
<1>3. ASSUME NEW h \in Handlers, HandlerStep(h) \/ Cancel(h) PROVE SerialInv'
  <2>1. HandlersOK /\ Moved(h) /\ UNCHANGED clash
    BY <1>3, HandlerMoves, HandlerKeeps DEF TypeOK
  <2>2. CASE KillOld(h)
    <3>1. /\ PlayerOf(h) \in Players /\ slot' = [slot EXCEPT ![PlayerOf(h)] = 0]
          /\ \A p \in Players : Starting(h, p) => PlayerOf(h) = p
      BY <2>1, <2>2, PlayerFacts DEF KillOld, Starting, StartOf, Players
    <3> QED BY <2>1, <2>2, <3>1 DEF KillOld, Moved, Follows, SerialInv, Starting, StartOf,
               Players, TypeOK
  <2>3. CASE Store(h)
    <3>1. /\ PlayerOf(h) \in Players /\ slot' = [slot EXCEPT ![PlayerOf(h)] = num[h]]
          /\ Starting(h, PlayerOf(h)) /\ at[h] = "store"
      BY <2>1, <2>3, SpawnIsStart, PlayerFacts DEF Store, Starting, StartOf, Players
    <3> QED BY <2>1, <3>1 DEF Moved, Follows, SerialInv, Starting, StartOf, Players, TypeOK
  <2>4. CASE ~KillOld(h) /\ ~Store(h)
    <3>1. slot' = slot /\ (op'[h] = "none" \/ at[h] # "kill")
      BY <1>3, <2>4, ChildKept DEF Cancel, Done, HandlersOK, TypeOK
    <3> QED BY <2>1, <3>1 DEF Moved, Follows, SerialInv, Starting, StartOf, Players
  <2> QED BY <2>2, <2>3, <2>4
<1>4. CASE Crash
  BY <1>4 DEF Crash, SerialInv, Starting, StartOf, Players
<1>5. CASE \/ ChildExits \/ WriteSegment \/ ReaderEnds \/ View \/ StreamEnds \/ Launch
           \/ UNCHANGED vars
  BY <1>5 DEF ChildExits, WriteSegment, ReaderEnds, View, StreamEnds, Launch, vars, handler,
     child, history, SerialInv, Starting
<1> QED BY <1>1, <1>2, <1>3, <1>4, <1>5 DEF Next

-----------------------------------------------------------------------------
(* Transcoders.                                                            *)

\* OrphansOnlyFromClash, by child.
KeptInv ==
    up => \A p \in Players : \A n \in running[p] :
             \/ clash[p] \/ n = slot[p]
             \/ \E h \in Handlers : Starting(h, p) /\ at[h] = "store" /\ num[h] = n

LEMMA KeptMeans == KeptInv <=> OrphansOnlyFromClash
BY DEF KeptInv, OrphansOnlyFromClash, Orphans

\* Whatever leaves children and the handlers about to store alone.
LEMMA KeptFrame ==
    ASSUME KeptInv, UNCHANGED <<up, slot, running>>,
           \A p \in Players : clash[p] => clash'[p],
           \A h \in Handlers : at[h] = "store" => op'[h] = op[h] /\ at'[h] = at[h] /\ num'[h] = num[h]
    PROVE  KeptInv'
<1> SUFFICES ASSUME up, NEW p \in Players, NEW n \in running[p], ~clash[p], n # slot[p]
             PROVE  \E h \in Handlers : op'[h] = StartOf[p] /\ at'[h] = "store" /\ num'[h] = n
  BY DEF KeptInv, Starting
<1>1. PICK h \in Handlers : Starting(h, p) /\ at[h] = "store" /\ num[h] = n
  BY DEF KeptInv
<1> QED BY <1>1 DEF Starting

LEMMA StepKept ==
    ASSUME TypeOK, SerialInv, KeptInv, [Next]_vars
    PROVE  KeptInv'
<1>1. ASSUME NEW h \in Handlers, NEW p \in Players, RequestStart(h, p) PROVE KeptInv'
  <2>1. \A g \in Handlers : at[g] = "store" => g # h
    BY <1>1, NewStart DEF TypeOK, HandlersOK
  <2>2. \A g \in Handlers : g # h => op'[g] = op[g] /\ at'[g] = at[g] /\ num'[g] = num[g]
    BY <1>1 DEF RequestStart, Arrives, TypeOK, HandlersOK
  <2> QED BY <1>1, <2>1, <2>2, NewStart, KeptFrame
<1>2. ASSUME NEW h \in Handlers, RequestOther(h) PROVE KeptInv'
  <2>1. \A g \in Handlers : at[g] = "store" => g # h
    BY <1>2 DEF RequestOther, Arrives, TypeOK, HandlersOK
  <2> QED BY <1>2, <2>1, OtherRequest, KeptFrame
<1>3. ASSUME NEW h \in Handlers, HandlerStep(h) \/ Cancel(h) PROVE KeptInv'
  <2>1. HandlersOK /\ Moved(h) /\ UNCHANGED <<up, clash>> /\ PlayerOf(h) \in Players
    BY <1>3, HandlerMoves, HandlerKeeps, PlayerFacts DEF TypeOK
  <2>2. CASE KillOld(h)
    BY <2>1, <2>2 DEF KillOld, Killed, Moved, KeptInv, Starting, TypeOK
  <2>3. CASE Spawn(h)
    <3>1. Starting(h, PlayerOf(h)) /\ at[h] = "spawn" /\ slot' = slot
      BY <2>1, <2>3, SpawnIsStart, PlayerFacts DEF Spawn, Starting, StartOf, Players
    <3>2. CASE Done(h) /\ UNCHANGED running
      BY <2>1, <3>1, <3>2 DEF Moved, KeptInv, Starting
    <3>3. CASE Goes(h) /\ running' = [running EXCEPT ![PlayerOf(h)] = @ \cup {num[h]}]
      <4>1. op'[h] = op[h] /\ at'[h] = "store" /\ num'[h] = num[h]
        <5>1. ~Follows(op[h], at[h], "idle") /\ at[h] # "idle"
          BY <3>1 DEF Follows
        <5>2. op'[h] = op[h] /\ op[h] # "none"
          BY <2>1, <3>3, <5>1, GoesMoves DEF HandlersOK
        <5> QED BY <2>1, <3>1, <5>2 DEF Moved, Follows
      <4> QED BY <2>1, <3>1, <3>3, <4>1 DEF Moved, KeptInv, Starting, TypeOK
    <3> QED BY <2>3, <3>2, <3>3 DEF Spawn
  <2>4. CASE Store(h)
    <3>1. /\ slot' = [slot EXCEPT ![PlayerOf(h)] = num[h]] /\ running' = running
          /\ Starting(h, PlayerOf(h)) /\ at[h] = "store"
      BY <2>1, <2>4, SpawnIsStart, PlayerFacts DEF Store, Starting, StartOf, Players
    <3>2. \A n \in running[PlayerOf(h)] : clash[PlayerOf(h)] \/ n = num[h] \/ ~up
      BY <2>1, <3>1 DEF KeptInv, SerialInv, TypeOK, Starts
    <3>3. ASSUME up, NEW p \in Players, NEW n \in running[p], p # PlayerOf(h), ~clash[p],
                 n # slot[p]
          PROVE  \E g \in Handlers : op'[g] = StartOf[p] /\ at'[g] = "store" /\ num'[g] = n
      <4>1. PICK g \in Handlers : Starting(g, p) /\ at[g] = "store" /\ num[g] = n
        BY <3>3 DEF KeptInv
      <4>2. g # h
        BY <3>1, <3>3, <4>1, <2>1 DEF Starting, StartOf, Players
      <4> QED BY <2>1, <4>1, <4>2 DEF Moved, Starting
    <3>4. slot'[PlayerOf(h)] = num[h] /\ \A p \in Players : p # PlayerOf(h) => slot'[p] = slot[p]
      BY <2>1, <3>1 DEF TypeOK
    <3> QED BY <2>1, <3>1, <3>2, <3>3, <3>4 DEF KeptInv, Starting
  <2>5. CASE ~KillOld(h) /\ ~Spawn(h) /\ ~Store(h)
    <3>1. UNCHANGED <<slot, running>>
      BY <1>3, <2>5, ChildKept
    <3>2. at[h] # "store"
      BY <1>3, <2>5 DEF HandlerStep, WriteToken, RemoveToken, Clean, DropChannel, Publish,
         Cancel, Suspended
    <3> QED BY <2>1, <3>1, <3>2 DEF Moved, KeptInv, Starting
  <2> QED BY <2>2, <2>3, <2>4, <2>5
<1>4. CASE Crash
  BY <1>4 DEF Crash, KeptInv
<1>5. CASE Launch
  BY <1>5 DEF Launch, KilledAll, KeptInv
<1>6. CASE ChildExits
  BY <1>6 DEF ChildExits, handler, history, KeptInv, Starting, TypeOK
<1>7. CASE \/ WriteSegment \/ ReaderEnds \/ View \/ StreamEnds \/ UNCHANGED vars
  <2>1. UNCHANGED <<up, slot, running, clash, handler>>
    BY <1>7 DEF WriteSegment, ReaderEnds, View, StreamEnds, vars, child, history
  <2> QED BY <2>1, KeptFrame DEF handler
<1> QED BY <1>1, <1>2, <1>3, <1>4, <1>5, <1>6, <1>7 DEF Next

-----------------------------------------------------------------------------
(* Tokens, segments and channels.                                          *)

\* What a step of the handler h can have done to the player p.
Effects(h, p) ==
    /\ \/ token'[p] \in {token[p], 0}
       \/ Starting(h, p) /\ at[h] = "token" /\ token'[p] = num[h]
    /\ Starting(h, p) /\ at[h] = "token" /\ op'[h] # "none" => failed'[p] \/ token'[p] = num[h]
    /\ failed[p] => failed'[p]
    /\ \/ slot'[p] \in {slot[p], 0}
       \/ Starting(h, p) /\ at[h] = "store" /\ slot'[p] = num[h]
    /\ Starting(h, p) /\ at[h] = "store" => slot'[p] = num[h]
    /\ \/ running'[p] \subseteq running[p]
       \/ Starting(h, p) /\ at[h] = "spawn"
    /\ segs' \subseteq segs
    /\ at[h] = "clean" /\ op'[h] # "none" => segs' = {} \/ failed'["hls"]
    /\ \/ tx' \in {tx, 0}
       \/ op[h] = "preview_start" /\ at[h] = "publish" /\ tx' = num[h]
    /\ at[h] = "drop" => tx' = 0
    /\ \/ issued'[p] = issued[p]
       \/ /\ Starting(h, p) /\ issued'[p] = issued[p] \cup {num[h]} /\ op'[h] = "none"
          /\ at[h] = (IF p = "hls" THEN "store" ELSE "publish")

LEMMA HandlerEffects ==
    ASSUME TypeOK, NEW h \in Handlers, NEW p \in Players, HandlerStep(h) \/ Cancel(h)
    PROVE  Effects(h, p)
<1>1. HandlersOK /\ PlayerOf(h) \in Players /\ (Starting(h, p) => PlayerOf(h) = p)
  BY PlayerFacts DEF TypeOK, Starting, StartOf, Players
<1>2. at[h] \in {"token", "spawn", "store", "publish"} => Starting(h, PlayerOf(h))
  BY <1>1, SpawnIsStart, PlayerFacts DEF Starting, StartOf, Players
<1>3. CASE Cancel(h)
  <2>1. at[h] \notin {"store", "drop"} /\ op'[h] = "none"
    BY <1>3 DEF Cancel, Suspended, Done, TypeOK, HandlersOK
  <2> QED BY <1>3, <2>1 DEF Cancel, child, preview, history, Effects
<1>4. CASE WriteToken(h)
  <2>1. failed[p] => failed'[p]
    BY <1>1, <1>4, Zenon DEF WriteToken, TypeOK
  <2>2. /\ \/ token'[p] \in {token[p], 0}
           \/ Starting(h, p) /\ at[h] = "token" /\ token'[p] = num[h]
        /\ Starting(h, p) => failed'[p] \/ token'[p] = num[h]
    <3>1. CASE token' = [token EXCEPT ![PlayerOf(h)] = num[h]]
      BY <1>1, <1>2, <1>4, <3>1 DEF WriteToken, TypeOK
    <3>2. CASE \E t \in {0, token[PlayerOf(h)]} :
                 /\ token' = [token EXCEPT ![PlayerOf(h)] = t]
                 /\ failed' = [failed EXCEPT ![PlayerOf(h)] = TRUE]
      <4>1. failed'[PlayerOf(h)]
        BY <1>1, <3>2, Zenon DEF TypeOK
      <4> QED BY <1>1, <3>2, <4>1 DEF TypeOK
    <3> QED BY <1>4, <3>1, <3>2 DEF WriteToken
  <2> QED BY <1>4, <2>1, <2>2 DEF WriteToken, child, preview, Effects
<1>5. CASE KillOld(h)
  BY <1>1, <1>5 DEF KillOld, Killed, preview, history, TypeOK, Effects
<1>6. CASE RemoveToken(h)
  BY <1>1, <1>6 DEF RemoveToken, child, preview, history, TypeOK, Effects
<1>7. CASE Clean(h)
  <2>1. failed[p] => failed'[p]
    BY <1>7, Zenon DEF Clean, TypeOK
  <2>2. segs' = {} \/ (segs' = segs /\ failed'["hls"])
    <3>1. CASE failed' = [failed EXCEPT !["hls"] = TRUE]
      <4>1. failed'["hls"]
        BY <3>1, Zenon DEF TypeOK, Players
      <4> QED BY <1>7, <4>1 DEF Clean, SegmentsGone
    <3> QED BY <1>7, <3>1 DEF Clean, SegmentsGone
  <2>3. UNCHANGED <<token, slot, running, tx, issued>> /\ at[h] = "clean"
    BY <1>7 DEF Clean, child, preview
  <2> QED BY <2>1, <2>2, <2>3 DEF Effects
<1>8. CASE DropChannel(h)
  BY <1>8 DEF DropChannel, ChannelDropped, child, history, Effects
<1>9. CASE Spawn(h)
  BY <1>1, <1>2, <1>9 DEF Spawn, preview, history, TypeOK, Effects
<1>10. CASE Store(h)
  <2>1. /\ \/ issued'[p] = issued[p]
           \/ /\ Starting(h, p) /\ issued'[p] = issued[p] \cup {num[h]} /\ op'[h] = "none"
              /\ p = "hls"
    <3>1. CASE op[h] = "hls_start"
      <4>1. op'[h] = "none" /\ PlayerOf(h) = "hls"
        BY <1>1, <1>10, <3>1, IssueStep, PlayerFacts DEF Store, Publish
      <4> QED BY <1>10, <3>1, <4>1 DEF Store, TypeOK, Starting, StartOf, Players
    <3>2. CASE op[h] = "preview_start"
      <4>1. issued' = issued
        BY <1>10, <3>2, IssueStep DEF Store, Publish
      <4> QED BY <4>1
    <3> QED BY <1>10, <1>2, <1>1, <3>1, <3>2 DEF Starting, StartOf, Players, Store
  <2> QED BY <1>1, <1>2, <1>10, <2>1 DEF Store, preview, TypeOK, Effects
<1>11. CASE Publish(h)
  <2>1. op[h] = "preview_start" /\ op'[h] = "none"
        /\ issued' = [issued EXCEPT !["preview"] = @ \cup {num[h]}]
    BY <1>11, IssueStep DEF Publish, Store
  <2> QED BY <1>11, <2>1 DEF Publish, child, TypeOK, Effects, Starting, StartOf, Players
<1> QED BY <1>3, <1>4, <1>5, <1>6, <1>7, <1>8, <1>9, <1>10, <1>11 DEF HandlerStep

\* A step of the environment, the process or a reader.
Frame == UNCHANGED <<handler, started, slot, token, tx, issued, clash, failed>>

LEMMA Environment ==
    ASSUME TypeOK, ChildExits \/ WriteSegment \/ ReaderEnds \/ View \/ StreamEnds \/ Launch
                   \/ UNCHANGED vars
    PROVE  /\ Frame
           /\ \A p \in Players : running'[p] \subseteq running[p]
           /\ segs' = segs \/ \E n \in running["hls"] : segs' = segs \cup {n}
<1>1. Frame
  BY DEF ChildExits, WriteSegment, ReaderEnds, View, StreamEnds, Launch, vars, handler, child,
     preview, history, Frame
<1>2. running' = running \/ ChildExits \/ Launch
  BY DEF WriteSegment, ReaderEnds, View, StreamEnds, vars, child
<1>3. \A p \in Players : running'[p] \subseteq running[p]
  BY <1>2 DEF ChildExits, Launch, KilledAll, TypeOK
<1>4. segs' = segs \/ \E n \in running["hls"] : segs' = segs \cup {n}
  BY DEF ChildExits, WriteSegment, ReaderEnds, View, StreamEnds, Launch, vars, preview
<1> QED BY <1>1, <1>3, <1>4

\* With no other start in progress, only the child in hand can run.
LEMMA OnlyChild ==
    ASSUME TypeOK, SerialInv, KeptInv, DownInv, NEW h \in Handlers, op[h] = "hls_start",
           ~clash["hls"]
    PROVE  /\ at[h] = "spawn" => running["hls"] = {}
           /\ at[h] = "store" => running["hls"] \subseteq {num[h]}
<1>1. up /\ "hls" \in Players /\ Starting(h, "hls")
  BY DEF DownInv, Players, Starting, StartOf
<1>2. \A g \in Handlers : Starting(g, "hls") => g = h
  BY <1>1 DEF SerialInv
<1>3. at[h] \in {"spawn", "store"} => slot["hls"] = 0
  BY <1>1 DEF SerialInv
<1>4. \A n \in running["hls"] : n # 0
  BY <1>1 DEF TypeOK, Starts
<1>5. \A n \in running["hls"] :
         n = slot["hls"] \/ \E g \in Handlers : Starting(g, "hls") /\ at[g] = "store" /\ num[g] = n
  BY <1>1 DEF KeptInv
<1> QED BY <1>2, <1>3, <1>4, <1>5

LEMMA StepHls ==
    ASSUME TypeOK, SerialInv, KeptInv, DownInv, HlsInv, [Next]_vars
    PROVE  HlsInv'
<1>1. ASSUME NEW h \in Handlers, NEW p \in Players, RequestStart(h, p) PROVE HlsInv'
  <2>1. \A g \in Handlers : g # h => op'[g] = op[g] /\ at'[g] = at[g] /\ num'[g] = num[g]
    BY <1>1 DEF RequestStart, Arrives, TypeOK, HandlersOK
  <2>2. op'[h] = "hls_start" => at'[h] = "token"
    BY <1>1, NewStart DEF StartOf, Players
  <2>3. UNCHANGED <<token, segs, failed>> /\ (~clash'["hls"] => ~clash["hls"])
    BY <1>1, NewStart DEF Players
  <2> QED BY <2>1, <2>2, <2>3 DEF HlsInv
<1>2. ASSUME NEW h \in Handlers, RequestOther(h) PROVE HlsInv'
  BY <1>2, OtherRequest DEF HlsInv
<1>3. ASSUME NEW h \in Handlers, HandlerStep(h) \/ Cancel(h) PROVE HlsInv'
  <2>1. Moved(h) /\ UNCHANGED clash /\ Effects(h, "hls")
    BY <1>3, HandlerMoves, HandlerKeeps, HandlerEffects DEF TypeOK, Players
  <2>2. SUFFICES ASSUME NEW g \in Handlers, op'[g] = "hls_start", ~clash["hls"], ~failed'["hls"]
                 PROVE  /\ at'[g] \in {"kill", "clean", "spawn", "store"} =>
                              token'["hls"] \in {0, num'[g]}
                        /\ at'[g] = "spawn" => segs' = {}
                        /\ at'[g] = "store" => segs' \subseteq {num'[g]}
    BY <2>1 DEF HlsInv
  <2>3. CASE g = h
    BY <2>1, <2>2, <2>3 DEF Moved, Follows, HlsInv, Effects, Starting, StartOf
  <2>4. CASE g # h
    <3>1. ~Starting(h, "hls")
      BY <2>1, <2>2, <2>4 DEF Moved, SerialInv, Starting, StartOf, Players
    <3> QED BY <2>1, <2>2, <2>4, <3>1 DEF Moved, HlsInv, Effects
  <2> QED BY <2>3, <2>4
<1>4. CASE Crash
  BY <1>4 DEF Crash, HlsInv
<1>5. CASE \/ ChildExits \/ WriteSegment \/ ReaderEnds \/ View \/ StreamEnds \/ Launch
           \/ UNCHANGED vars
  BY <1>5, Environment, OnlyChild DEF Frame, handler, HlsInv
<1> QED BY <1>1, <1>2, <1>3, <1>4, <1>5 DEF Next

LEMMA StepPreview ==
    ASSUME TypeOK, SerialInv, PreviewInv, [Next]_vars
    PROVE  PreviewInv'
<1>1. ASSUME NEW h \in Handlers, NEW p \in Players, RequestStart(h, p) PROVE PreviewInv'
  <2>1. \A g \in Handlers : g # h => op'[g] = op[g] /\ at'[g] = at[g] /\ num'[g] = num[g]
    BY <1>1 DEF RequestStart, Arrives, TypeOK, HandlersOK
  <2>2. op'[h] = "preview_start" => at'[h] = "kill"
    BY <1>1, NewStart DEF StartOf, Players
  <2>3. UNCHANGED <<token, tx, slot, failed>> /\ (~clash'["preview"] => ~clash["preview"])
    BY <1>1, NewStart DEF Players
  <2> QED BY <2>1, <2>2, <2>3 DEF PreviewInv
<1>2. ASSUME NEW h \in Handlers, RequestOther(h) PROVE PreviewInv'
  BY <1>2, OtherRequest DEF PreviewInv
<1>3. ASSUME NEW h \in Handlers, HandlerStep(h) \/ Cancel(h) PROVE PreviewInv'
  <2>1. Moved(h) /\ UNCHANGED clash /\ Effects(h, "preview")
    BY <1>3, HandlerMoves, HandlerKeeps, HandlerEffects DEF TypeOK, Players
  <2>2. SUFFICES ASSUME NEW g \in Handlers, op'[g] = "preview_start", ~clash["preview"]
                 PROVE  /\ at'[g] \in {"spawn", "store", "token", "publish"} => tx' = 0
                        /\ at'[g] \in {"token", "publish"} => slot'["preview"] \in {0, num'[g]}
                        /\ at'[g] = "publish" /\ ~failed'["preview"] =>
                              token'["preview"] \in {0, num'[g]}
    BY <2>1 DEF PreviewInv
  <2>3. CASE g = h
    BY <2>1, <2>2, <2>3 DEF Moved, Follows, PreviewInv, Effects, Starting, StartOf
  <2>4. CASE g # h
    <3>1. ~Starting(h, "preview")
      BY <2>1, <2>2, <2>4 DEF Moved, SerialInv, Starting, StartOf, Players
    <3> QED BY <2>1, <2>2, <2>4, <3>1 DEF Moved, PreviewInv, Effects, Starting, StartOf
  <2> QED BY <2>3, <2>4
<1>4. CASE Crash
  BY <1>4 DEF Crash, PreviewInv
<1>5. CASE \/ ChildExits \/ WriteSegment \/ ReaderEnds \/ View \/ StreamEnds \/ Launch
           \/ UNCHANGED vars
  BY <1>5, Environment DEF Frame, handler, PreviewInv
<1> QED BY <1>1, <1>2, <1>3, <1>4, <1>5 DEF Next

LEMMA StepServed ==
    ASSUME TypeOK, CountInv, SerialInv, KeptInv, DownInv, HlsInv, ServedInv, [Next]_vars
    PROVE  ServedInv'
<1>1. ASSUME NEW h \in Handlers, NEW p \in Players, RequestStart(h, p) PROVE ServedInv'
  <2>1. UNCHANGED <<token, segs, running, issued, failed>> /\ (~clash'["hls"] => ~clash["hls"])
    BY <1>1, NewStart DEF Players
  <2> QED BY <2>1 DEF ServedInv
<1>2. ASSUME NEW h \in Handlers, RequestOther(h) PROVE ServedInv'
  BY <1>2, OtherRequest DEF ServedInv
<1>3. ASSUME NEW h \in Handlers, HandlerStep(h) \/ Cancel(h) PROVE ServedInv'
  <2>1. UNCHANGED clash /\ Effects(h, "hls") /\ "hls" \in Players
    BY <1>3, HandlerKeeps, HandlerEffects DEF Players
  <2>2. SUFFICES ASSUME token'["hls"] \in issued'["hls"], ~clash["hls"], ~failed'["hls"]
                 PROVE  segs' \cup running'["hls"] \subseteq {token'["hls"]}
    BY <2>1 DEF ServedInv
  <2>3. ~failed["hls"] /\ 0 \notin issued'["hls"]
    <3>1. 0 \notin issued["hls"] /\ (Starting(h, "hls") => num[h] # 0)
      BY <2>1 DEF TypeOK, Starts, CountInv
    <3> QED BY <2>1, <2>2, <3>1 DEF Effects
  <2>4. CASE issued'["hls"] = issued["hls"]
    <3>1. Starting(h, "hls") => num[h] \notin issued["hls"]
      BY <2>1 DEF CountInv
    <3>2. token'["hls"] = token["hls"]
      BY <2>1, <2>2, <2>3, <2>4, <3>1 DEF Effects
    <3>3. ~(Starting(h, "hls") /\ at[h] = "spawn")
      BY <2>2, <2>3, <2>4, <3>1, <3>2 DEF HlsInv, Starting, StartOf
    <3> QED BY <2>1, <2>2, <2>3, <2>4, <3>2, <3>3 DEF ServedInv, Effects
  <2>5. CASE /\ Starting(h, "hls") /\ issued'["hls"] = issued["hls"] \cup {num[h]}
             /\ at[h] = "store"
    <3>1. op[h] = "hls_start"
      BY <2>5 DEF Starting, StartOf
    <3>2. token["hls"] \in {0, num[h]} /\ segs \subseteq {num[h]}
      BY <2>2, <2>3, <2>5, <3>1 DEF HlsInv
    <3>3. running["hls"] \subseteq {num[h]}
      BY <2>2, <2>5, <3>1, OnlyChild
    <3> QED BY <2>1, <2>2, <2>3, <2>5, <3>2, <3>3 DEF Effects
  <2> QED BY <2>1, <2>4, <2>5 DEF Effects
<1>4. CASE Crash
  BY <1>4 DEF Crash, history, ServedInv
<1>5. CASE \/ ChildExits \/ WriteSegment \/ ReaderEnds \/ View \/ StreamEnds \/ Launch
           \/ UNCHANGED vars
  BY <1>5, Environment DEF Frame, ServedInv, Players
<1> QED BY <1>1, <1>2, <1>3, <1>4, <1>5 DEF Next

LEMMA StepChannel ==
    ASSUME TypeOK, CountInv, PreviewInv, TokenOpensItsStart, ChannelOfSlot, ServedInv',
           [Next]_vars
    PROVE  TokenOpensItsStart' /\ ChannelOfSlot'
<1> DEFINE Opens == token["preview"] \in issued["preview"] /\ ~clash["preview"]
                       /\ ~failed["preview"] => tx \in {0, token["preview"]}
<1>a. Opens
  BY DEF TokenOpensItsStart, Players
<1>b. SUFFICES Opens' /\ ChannelOfSlot'
  BY DEF TokenOpensItsStart, Players, ServedInv
<1>1. ASSUME NEW h \in Handlers, NEW p \in Players, RequestStart(h, p)
      PROVE  Opens' /\ ChannelOfSlot'
  <2>1. UNCHANGED <<token, tx, slot, issued, failed>>
        /\ (~clash'["preview"] => ~clash["preview"])
    BY <1>1, NewStart DEF Players
  <2> QED BY <2>1, <1>a DEF ChannelOfSlot
<1>2. ASSUME NEW h \in Handlers, RequestOther(h) PROVE Opens' /\ ChannelOfSlot'
  BY <1>2, <1>a, OtherRequest DEF ChannelOfSlot
<1>3. ASSUME NEW h \in Handlers, HandlerStep(h) \/ Cancel(h) PROVE Opens' /\ ChannelOfSlot'
  <2>1. UNCHANGED clash /\ Effects(h, "preview") /\ "preview" \in Players
    BY <1>3, HandlerKeeps, HandlerEffects DEF Players
  <2>2. /\ 0 \notin issued["preview"]
        /\ Starting(h, "preview") => num[h] # 0 /\ num[h] \notin issued["preview"]
    BY <2>1 DEF TypeOK, Starts, CountInv
  <2>3. Opens'
    <3>1. SUFFICES ASSUME token'["preview"] \in issued'["preview"], ~clash["preview"],
                          ~failed'["preview"]
                   PROVE  tx' \in {0, token'["preview"]}
      BY <2>1
    <3>2. ~failed["preview"]
      BY <2>1, <3>1 DEF Effects
    <3>3. CASE op[h] = "preview_start" /\ at[h] = "publish"
      <4>1. token["preview"] \in {0, num[h]}
        BY <3>1, <3>2, <3>3 DEF PreviewInv
      <4>2. token'["preview"] \in {0, num[h]}
        BY <2>1, <4>1, <3>3 DEF Effects
      <4>3. 0 \notin issued'["preview"]
        BY <2>1, <2>2 DEF Effects
      <4>4. tx = 0
        BY <3>1, <3>3 DEF PreviewInv
      <4> QED BY <2>1, <3>1, <3>3, <4>2, <4>3, <4>4 DEF Effects
    <3>4. CASE ~(op[h] = "preview_start" /\ at[h] = "publish")
      <4>1. issued'["preview"] = issued["preview"] /\ tx' \in {tx, 0}
        BY <2>1, <3>4 DEF Effects, Starting, StartOf
      <4>2. token'["preview"] = token["preview"]
        BY <2>1, <2>2, <3>1, <4>1 DEF Effects
      <4> QED BY <1>a, <3>1, <3>2, <4>1, <4>2
    <3> QED BY <3>3, <3>4
  <2>4. ChannelOfSlot'
    <3>1. SUFFICES ASSUME ~clash["preview"], tx' # 0 PROVE slot'["preview"] \in {0, tx'}
      BY <2>1 DEF ChannelOfSlot
    <3>2. CASE op[h] = "preview_start" /\ at[h] = "publish" /\ tx' = num[h]
      BY <2>1, <3>1, <3>2 DEF PreviewInv, Effects
    <3>3. CASE tx' = tx
      BY <2>1, <3>1, <3>3 DEF ChannelOfSlot, PreviewInv, Effects, Starting, StartOf
    <3> QED BY <2>1, <3>1, <3>2, <3>3 DEF Effects
  <2> QED BY <2>3, <2>4
<1>4. CASE Crash
  BY <1>4, <1>a DEF Crash, history, ChannelOfSlot
<1>5. CASE \/ ChildExits \/ WriteSegment \/ ReaderEnds \/ View \/ StreamEnds \/ Launch
           \/ UNCHANGED vars
  BY <1>5, <1>a, Environment DEF Frame, ChannelOfSlot
<1> QED BY <1>1, <1>2, <1>3, <1>4, <1>5 DEF Next

LEMMA StepDown ==
    ASSUME TypeOK, DownInv, [Next]_vars
    PROVE  DownInv'
<1>1. ASSUME NEW h \in Handlers, HandlerStep(h) \/ Cancel(h) PROVE DownInv'
  <2>1. at[h] # "idle"
    BY <1>1 DEF HandlerStep, WriteToken, KillOld, RemoveToken, Clean, DropChannel, Spawn, Store,
       Publish, Cancel, Suspended
  <2>2. up' = up /\ op[h] # "none"
    BY <1>1, <2>1, HandlerKeeps DEF TypeOK, HandlersOK
  <2> QED BY <2>2 DEF DownInv
<1>2. CASE (\E h \in Handlers : RequestOther(h) \/ \E p \in Players : RequestStart(h, p)) \/ View
  BY <1>2 DEF RequestOther, RequestStart, Arrives, View, DownInv
<1>3. CASE Crash
  BY <1>3 DEF Crash, DownInv
<1>4. CASE \/ ChildExits \/ WriteSegment \/ ReaderEnds \/ StreamEnds \/ UNCHANGED vars
  <2>1. Frame /\ up' = up
    BY <1>4, Environment DEF ChildExits, WriteSegment, ReaderEnds, StreamEnds, vars
  <2> QED BY <2>1 DEF Frame, handler, DownInv
<1>5. CASE Launch
  BY <1>5 DEF Launch, DownInv
<1> QED BY <1>1, <1>2, <1>3, <1>4, <1>5 DEF Next

-----------------------------------------------------------------------------
(* The theorems.                                                           *)

LEMMA InitInv == Init => IInv
<1> SUFFICES ASSUME Init PROVE IInv
  OBVIOUS
<1>1. \A h \in Handlers, p \in Players : ~Starting(h, p)
  BY DEF Init, Starting, StartOf, Players
<1>2. CountInv /\ SerialInv /\ HlsInv /\ PreviewInv /\ DownInv
  BY <1>1 DEF Init, CountInv, SerialInv, HlsInv, PreviewInv, DownInv, Starting
<1>3. ServedInv /\ TokenOpensItsStart /\ ChannelOfSlot /\ OrphansOnlyFromClash
  BY DEF Init, ServedInv, TokenOpensItsStart, ChannelOfSlot, OrphansOnlyFromClash, Orphans,
     Players
<1> QED BY <1>2, <1>3, InitType DEF IInv

LEMMA StepInv == IInv /\ [Next]_vars => IInv'
<1> SUFFICES ASSUME IInv, [Next]_vars PROVE IInv'
  OBVIOUS
<1> USE DEF IInv
<1>1. KeptInv
  BY KeptMeans
<1>2. TypeOK' /\ CountInv' /\ SerialInv'
  BY StepType, StepCount, StepSerial
<1>3. KeptInv'
  BY <1>1, StepKept
<1>4. OrphansOnlyFromClash'
  BY <1>3 DEF KeptInv, OrphansOnlyFromClash, Orphans, Starting
<1>5. HlsInv' /\ PreviewInv' /\ ServedInv' /\ DownInv'
  BY <1>1, StepHls, StepPreview, StepServed, StepDown
<1>6. TokenOpensItsStart' /\ ChannelOfSlot'
  BY <1>5, StepChannel
<1> QED BY <1>2, <1>4, <1>5, <1>6

\* IInv holds in every reachable state.
THEOREM Invariance == Spec => []IInv
<1>1. Init => IInv
  BY InitInv
<1>2. IInv /\ [Next]_vars => IInv'
  BY StepInv
<1> QED BY <1>1, <1>2, PTL DEF Spec

\* The shape of the state, for any number of handlers and starts: in
\* particular a handler is always at one of its own steps.
THEOREM TypeCorrect == Spec => []TypeOK
<1>1. IInv => TypeOK
  BY DEF IInv
<1> QED BY <1>1, Invariance, PTL

\* A transcoder that no handler can kill any more is left only by two starts
\* at once, however stops, logouts, disconnects, crashes and restarts fall.
THEOREM NoLostTranscoder == Spec => []OrphansOnlyFromClash
<1>1. IInv => OrphansOnlyFromClash
  BY DEF IInv
<1> QED BY <1>1, Invariance, PTL

\* What a client's token opens is what its own start made, in both players.
THEOREM TokensKeepFaith == Spec => []TokenOpensItsStart
<1>1. IInv => TokenOpensItsStart
  BY DEF IInv
<1> QED BY <1>1, Invariance, PTL

\* The channel that viewers subscribe to is fed by the transcoder that a stop
\* would kill.
THEOREM ChannelFollowsSlot == Spec => []ChannelOfSlot
<1>1. IInv => ChannelOfSlot
  BY DEF IInv
<1> QED BY <1>1, Invariance, PTL

\* Of each player at most one transcoder runs.
AtMostOne ==
    up => \A p \in Players : ~clash[p] => \A m, n \in running[p] : m = n

\* Unless two starts of a player overlap, it never has two transcoders at
\* work on the camera's stream at once, whatever stops, logouts, abandoned
\* requests and restarts come in between: a start that has spawned its own has
\* emptied the slot, and no other start is in progress.
THEOREM OneTranscoder == Spec => []AtMostOne
<1>1. IInv => AtMostOne
  <2>. SUFFICES ASSUME IInv, up, NEW p \in Players, ~clash[p],
                       NEW m \in running[p], NEW n \in running[p]
                PROVE  m = n
    BY DEF AtMostOne
  <2>1. m # 0 /\ n # 0
    BY DEF IInv, TypeOK, Starts
  <2>2. running[p] \subseteq
          {slot[p]} \cup {num[h] : h \in {g \in Handlers : Starting(g, p) /\ at[g] = "store"}}
    BY DEF IInv, OrphansOnlyFromClash, Orphans
  <2>3. CASE \E h \in Handlers : Starting(h, p) /\ at[h] = "store"
    <3>1. PICK h \in Handlers : Starting(h, p) /\ at[h] = "store"
      BY <2>3
    <3>2. slot[p] = 0 /\ \A g \in Handlers : Starting(g, p) => g = h
      BY <3>1 DEF IInv, SerialInv
    <3>. QED
      BY <2>1, <2>2, <3>1, <3>2
  <2>4. CASE ~ \E h \in Handlers : Starting(h, p) /\ at[h] = "store"
    BY <2>2, <2>4
  <2>. QED
    BY <2>3, <2>4
<1> QED BY <1>1, Invariance, PTL

\* While the token of an HLS client is valid, the only transcoder that runs
\* and the only segments in the directory are those of the start that gave it
\* the token, if no start overlapped another and every file operation worked.
THEOREM ServedAlone == Spec => []ServedInv
<1>1. IInv => ServedInv
  BY DEF IInv
<1> QED BY <1>1, Invariance, PTL
=============================================================================
