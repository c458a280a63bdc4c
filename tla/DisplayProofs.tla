---------------------------- MODULE DisplayProofs ----------------------------
(***************************************************************************)
(* Proofs about the display process, for all delays, periods and limits.   *)
(***************************************************************************)
EXTENDS Display, TLAPS

\* Messages wait on the bus only for a pipeline that has failed.
MessagesOfBroken == posted > 0 => pipe \in {"failed", "stuck", "broken"}

\* The watchdog's count and the rest of its sleep say how long ago the last
\* frame was, to within one sleep.
WatchdogOnTime ==
    main # "exited" =>
        /\ stale < StaleLimit
        /\ IF fresh THEN quiet + wd <= CheckPeriod
                    ELSE /\ (stale + 1) * CheckPeriod <= quiet + wd
                         /\ quiet + wd <= (stale + 2) * CheckPeriod

\* Nothing is queued or posted before the pipeline is started.
NothingBeforeBoot ==
    main = "boot" => pipe = "none" /\ posted = 0 /\ timers = {}

\* The inductive invariant.
IInv ==
    /\ TypeOK
    /\ OneRestart
    /\ RestartOnlyWhenBroken
    /\ MessagesOfBroken
    /\ WatchdogOnTime
    /\ NothingBeforeBoot

\* The boot has one pipeline to come, no restart and no message.
LEMMA Starts == Init => IInv
<1>. SUFFICES ASSUME Init PROVE IInv
  OBVIOUS
<1>1. FirstDelay \in 0 .. MaxDelay /\ 0 \in 0 .. MaxDelay
  BY DisplayConstants DEF MaxDelay
<1>2. TypeOK
  <2>1. stale \in 0 .. StaleLimit /\ wd \in 0 .. CheckPeriod
        /\ posted \in 0 .. MaxMessages
    BY DisplayConstants DEF Init
  <2>2. timers \in SUBSET (0 .. MaxDelay)
        /\ delay \in 0 .. MaxDelay /\ waited \in 0 .. MaxDelay
    BY <1>1 DEF Init
  <2>3. quiet \in Nat
    BY DEF Init
  <2>4. told \in BOOLEAN /\ source \in BOOLEAN /\ fresh \in BOOLEAN
    BY DEF Init
  <2>. QED
    BY <2>1, <2>2, <2>3, <2>4 DEF Init, TypeOK
<1>3. WatchdogOnTime
  BY DisplayConstants DEF Init, WatchdogOnTime
<1>. QED
  BY <1>2, <1>3 DEF Init, IInv, OneRestart, RestartOnlyWhenBroken,
     MessagesOfBroken, NothingBeforeBoot

\* One step per action of the process, its environment and the clock.
LEMMA Steps == IInv /\ [Next]_vars => IInv'
<1>. SUFFICES ASSUME IInv, [Next]_vars PROVE IInv'
  OBVIOUS
<1>1. CASE Launch
  <2>1. TypeOK'
    <3>1. timers' \in SUBSET (0 .. MaxDelay)
      BY <1>1, DisplayConstants
         DEF IInv, TypeOK, MaxDelay, Launch, restart, watchdog, outage
    <3>2. delay' \in 0 .. MaxDelay /\ waited' \in 0 .. MaxDelay
      BY <1>1, DisplayConstants
         DEF IInv, TypeOK, MaxDelay, Launch, restart, watchdog, outage
    <3>3. stale' \in 0 .. StaleLimit /\ wd' \in 0 .. CheckPeriod
      BY <1>1, DisplayConstants
         DEF IInv, WatchdogOnTime, TypeOK, MaxDelay, Launch, restart, watchdog,
             outage
    <3>4. posted' \in 0 .. MaxMessages
      BY <1>1, DisplayConstants
         DEF IInv, TypeOK, MaxDelay, Launch, restart, watchdog, outage
    <3>5. main' \in {"boot"} /\ pipe' \in {"none"}
          /\ quiet' \in Nat
      BY <1>1 DEF Launch
    <3>6. told' \in BOOLEAN /\ source' \in BOOLEAN /\ fresh' \in BOOLEAN
      BY <1>1 DEF Launch
    <3>. QED
      BY <3>1, <3>2, <3>3, <3>4, <3>5, <3>6 DEF TypeOK
  <2>2. WatchdogOnTime'
    BY <1>1, DisplayConstants
       DEF IInv, TypeOK, WatchdogOnTime, Launch, restart, watchdog, outage
  <2>. QED
    BY <1>1, <2>1, <2>2
       DEF IInv, OneRestart, RestartOnlyWhenBroken, MessagesOfBroken,
           NothingBeforeBoot, Launch, restart, watchdog, outage
<1>2. CASE BootFails
  BY <1>2
     DEF IInv, TypeOK, OneRestart, RestartOnlyWhenBroken, MessagesOfBroken,
         WatchdogOnTime, NothingBeforeBoot, BootFails, restart, watchdog,
         outage
<1>3. CASE Boot
  <2>1. RestartOnlyWhenBroken'
    BY <1>3, DisplayConstants
       DEF IInv, OneRestart, RestartOnlyWhenBroken, MessagesOfBroken, TypeOK,
           NothingBeforeBoot, Boot, restart, watchdog, outage
  <2>. QED
    BY <1>3, <2>1
       DEF IInv, TypeOK, OneRestart, MessagesOfBroken, WatchdogOnTime,
           NothingBeforeBoot, Boot, restart, watchdog, outage
<1>4. CASE NewLoop
  BY <1>4
     DEF IInv, TypeOK, OneRestart, RestartOnlyWhenBroken, MessagesOfBroken,
         WatchdogOnTime, NothingBeforeBoot, NewLoop, restart, watchdog, outage
<1>5. CASE RunLoop
  BY <1>5
     DEF IInv, TypeOK, OneRestart, RestartOnlyWhenBroken, MessagesOfBroken,
         WatchdogOnTime, NothingBeforeBoot, RunLoop, restart, watchdog, outage
<1>6. CASE BusMessage
  <2>1. TypeOK'
    <3>1. timers' \in SUBSET (0 .. MaxDelay)
      BY <1>6, DisplayConstants
         DEF IInv, TypeOK, MaxDelay, BusMessage, Schedule, restart, watchdog,
             outage
    <3>2. delay' \in 0 .. MaxDelay /\ waited' \in 0 .. MaxDelay
      BY <1>6, DisplayConstants
         DEF IInv, TypeOK, MaxDelay, BusMessage, Schedule, restart, watchdog,
             outage
    <3>3. stale' \in 0 .. StaleLimit /\ wd' \in 0 .. CheckPeriod
      BY <1>6, DisplayConstants
         DEF IInv, WatchdogOnTime, TypeOK, MaxDelay, BusMessage, Schedule,
             restart, watchdog, outage
    <3>4. posted' \in 0 .. MaxMessages
      BY <1>6, DisplayConstants
         DEF IInv, TypeOK, MaxDelay, BusMessage, Schedule, restart, watchdog,
             outage
    <3>. QED
      BY <1>6, <3>1, <3>2, <3>3, <3>4
         DEF IInv, TypeOK, BusMessage, Schedule, restart, watchdog, outage
  <2>2. OneRestart'
    BY <1>6, DisplayConstants
       DEF IInv, TypeOK, OneRestart, BusMessage, Schedule, restart, watchdog,
           outage
  <2>3. RestartOnlyWhenBroken'
    BY <1>6, DisplayConstants
       DEF IInv, OneRestart, RestartOnlyWhenBroken, MessagesOfBroken, TypeOK,
           NothingBeforeBoot, BusMessage, Schedule, restart, watchdog, outage
  <2>. QED
    BY <1>6, <2>1, <2>2, <2>3
       DEF IInv, MessagesOfBroken, WatchdogOnTime, NothingBeforeBoot, TypeOK,
           BusMessage, Schedule, restart, watchdog, outage
<1>7. CASE RestartStarts
  <2>1. TypeOK'
    <3>1. timers' \in SUBSET (0 .. MaxDelay)
      BY <1>7, DisplayConstants
         DEF IInv, TypeOK, MaxDelay, RestartStarts, WatchRemoved, restart,
             watchdog, outage
    <3>2. delay' \in 0 .. MaxDelay /\ waited' \in 0 .. MaxDelay
      BY <1>7, DisplayConstants
         DEF IInv, TypeOK, MaxDelay, RestartStarts, WatchRemoved, restart,
             watchdog, outage
    <3>3. stale' \in 0 .. StaleLimit /\ wd' \in 0 .. CheckPeriod
      BY <1>7, DisplayConstants
         DEF IInv, WatchdogOnTime, TypeOK, MaxDelay, RestartStarts,
             WatchRemoved, restart, watchdog, outage
    <3>4. posted' \in 0 .. MaxMessages
      BY <1>7, DisplayConstants
         DEF IInv, TypeOK, MaxDelay, RestartStarts, WatchRemoved, restart,
             watchdog, outage
    <3>. QED
      BY <1>7, <3>1, <3>2, <3>3, <3>4
         DEF IInv, TypeOK, RestartStarts, WatchRemoved, restart, watchdog,
             outage
  <2>2. OneRestart'
    BY <1>7, DisplayConstants
       DEF IInv, TypeOK, OneRestart, RestartStarts, WatchRemoved, restart,
           watchdog, outage
  <2>3. RestartOnlyWhenBroken'
    BY <1>7, DisplayConstants
       DEF IInv, OneRestart, RestartOnlyWhenBroken, MessagesOfBroken, TypeOK,
           NothingBeforeBoot, RestartStarts, WatchRemoved, restart, watchdog,
           outage
  <2>. QED
    BY <1>7, <2>1, <2>2, <2>3
       DEF IInv, MessagesOfBroken, WatchdogOnTime, NothingBeforeBoot, TypeOK,
           RestartStarts, WatchRemoved, restart, watchdog, outage
<1>8. CASE RestartFails
  <2>1. TypeOK'
    <3>1. timers' \in SUBSET (0 .. MaxDelay)
      BY <1>8, DisplayConstants
         DEF IInv, TypeOK, MaxDelay, RestartFails, WatchRemoved, Schedule,
             Doubled, restart, watchdog, outage
    <3>2. delay' \in 0 .. MaxDelay /\ waited' \in 0 .. MaxDelay
      BY <1>8, DisplayConstants
         DEF IInv, TypeOK, MaxDelay, RestartFails, WatchRemoved, Schedule,
             Doubled, restart, watchdog, outage
    <3>3. stale' \in 0 .. StaleLimit /\ wd' \in 0 .. CheckPeriod
      BY <1>8, DisplayConstants
         DEF IInv, WatchdogOnTime, TypeOK, MaxDelay, RestartFails,
             WatchRemoved, Schedule, Doubled, restart, watchdog, outage
    <3>4. posted' \in 0 .. MaxMessages
      BY <1>8, DisplayConstants
         DEF IInv, TypeOK, MaxDelay, RestartFails, WatchRemoved, Schedule,
             Doubled, restart, watchdog, outage
    <3>. QED
      BY <1>8, <3>1, <3>2, <3>3, <3>4
         DEF IInv, TypeOK, RestartFails, WatchRemoved, Schedule, Doubled,
             restart, watchdog, outage
  <2>2. OneRestart'
    BY <1>8, DisplayConstants
       DEF IInv, TypeOK, OneRestart, RestartFails, WatchRemoved, Schedule,
           Doubled, restart, watchdog, outage
  <2>. QED
    BY <1>8, <2>1, <2>2
       DEF IInv, RestartOnlyWhenBroken, MessagesOfBroken, WatchdogOnTime,
           NothingBeforeBoot, TypeOK, RestartFails, WatchRemoved, Schedule,
           restart, watchdog, outage
<1>9. CASE RestartHangs
  <2>1. TypeOK'
    <3>1. timers' \in SUBSET (0 .. MaxDelay)
      BY <1>9, DisplayConstants
         DEF IInv, TypeOK, MaxDelay, RestartHangs, WatchRemoved, restart,
             watchdog, outage
    <3>2. delay' \in 0 .. MaxDelay /\ waited' \in 0 .. MaxDelay
      BY <1>9, DisplayConstants
         DEF IInv, TypeOK, MaxDelay, RestartHangs, WatchRemoved, restart,
             watchdog, outage
    <3>3. stale' \in 0 .. StaleLimit /\ wd' \in 0 .. CheckPeriod
      BY <1>9, DisplayConstants
         DEF IInv, WatchdogOnTime, TypeOK, MaxDelay, RestartHangs,
             WatchRemoved, restart, watchdog, outage
    <3>4. posted' \in 0 .. MaxMessages
      BY <1>9, DisplayConstants
         DEF IInv, TypeOK, MaxDelay, RestartHangs, WatchRemoved, restart,
             watchdog, outage
    <3>. QED
      BY <1>9, <3>1, <3>2, <3>3, <3>4
         DEF IInv, TypeOK, RestartHangs, WatchRemoved, restart, watchdog,
             outage
  <2>2. OneRestart'
    BY <1>9, DisplayConstants
       DEF IInv, TypeOK, OneRestart, RestartHangs, WatchRemoved, restart,
           watchdog, outage
  <2>. QED
    BY <1>9, <2>1, <2>2
       DEF IInv, RestartOnlyWhenBroken, MessagesOfBroken, WatchdogOnTime,
           NothingBeforeBoot, TypeOK, RestartHangs, WatchRemoved, restart,
           watchdog, outage
<1>10. CASE CleanUp
  BY <1>10
     DEF IInv, TypeOK, OneRestart, RestartOnlyWhenBroken, MessagesOfBroken,
         WatchdogOnTime, NothingBeforeBoot, CleanUp, restart, watchdog, outage
<1>11. CASE Signal
  BY <1>11
     DEF IInv, TypeOK, OneRestart, RestartOnlyWhenBroken, MessagesOfBroken,
         WatchdogOnTime, NothingBeforeBoot, Signal, restart, watchdog, outage
<1>12. CASE Frame
  <2>1. TypeOK'
    BY <1>12, DisplayConstants
       DEF IInv, TypeOK, WatchdogOnTime, Frame, Alive, MaxDelay, restart,
           watchdog, outage
  <2>2. RestartOnlyWhenBroken'
    BY <1>12, DisplayConstants
       DEF IInv, OneRestart, RestartOnlyWhenBroken, MessagesOfBroken, TypeOK,
           NothingBeforeBoot, Frame, Alive, restart, watchdog, outage
  <2>3. WatchdogOnTime'
    BY <1>12, DisplayConstants
       DEF IInv, TypeOK, WatchdogOnTime, Frame, Alive, restart, watchdog,
           outage
  <2>. QED
    BY <1>12, <2>1, <2>2, <2>3
       DEF IInv, OneRestart, MessagesOfBroken, NothingBeforeBoot, TypeOK,
           Frame, Alive, restart, watchdog, outage
<1>13. CASE Stick
  BY <1>13
     DEF IInv, TypeOK, OneRestart, RestartOnlyWhenBroken, MessagesOfBroken,
         WatchdogOnTime, NothingBeforeBoot, Stick, Alive, restart, watchdog,
         outage
<1>14. CASE Break
  <2>1. TypeOK'
    BY <1>14, DisplayConstants
       DEF IInv, TypeOK, WatchdogOnTime, Break, Alive, MaxDelay, restart,
           watchdog, outage
  <2>. QED
    BY <1>14, <2>1
       DEF IInv, OneRestart, RestartOnlyWhenBroken, MessagesOfBroken,
           WatchdogOnTime, NothingBeforeBoot, Break, Alive, restart, watchdog,
           outage
<1>15. CASE CheckFrames
  <2>1. TypeOK'
    <3>1. timers' \in SUBSET (0 .. MaxDelay)
      BY <1>15, DisplayConstants
         DEF IInv, TypeOK, MaxDelay, CheckFrames, TooStale, Alive, Counted, restart,
             watchdog, outage
    <3>2. delay' \in 0 .. MaxDelay /\ waited' \in 0 .. MaxDelay
      BY <1>15, DisplayConstants
         DEF IInv, TypeOK, MaxDelay, CheckFrames, TooStale, Alive, Counted, restart,
             watchdog, outage
    <3>3. stale' \in 0 .. StaleLimit /\ wd' \in 0 .. CheckPeriod
      BY <1>15, DisplayConstants
         DEF IInv, WatchdogOnTime, TypeOK, MaxDelay, CheckFrames, TooStale, Alive,
             Counted, restart, watchdog, outage
    <3>4. posted' \in 0 .. MaxMessages
      BY <1>15, DisplayConstants
         DEF IInv, TypeOK, MaxDelay, CheckFrames, TooStale, Alive, Counted, restart,
             watchdog, outage
    <3>. QED
      BY <1>15, <3>1, <3>2, <3>3, <3>4
         DEF IInv, TypeOK, CheckFrames, TooStale, Alive, Counted, restart, watchdog,
             outage
  <2>2. WatchdogOnTime'
    BY <1>15, DisplayConstants
       DEF IInv, TypeOK, WatchdogOnTime, CheckFrames, TooStale, Alive, Counted, restart,
           watchdog, outage
  <2>. QED
    BY <1>15, <2>1, <2>2
       DEF IInv, OneRestart, RestartOnlyWhenBroken, MessagesOfBroken,
           NothingBeforeBoot, TypeOK, CheckFrames, TooStale, Alive, restart, watchdog,
           outage
<1>16. CASE Tick
  <2>1. TypeOK'
    BY <1>16, DisplayConstants
       DEF IInv, TypeOK, WatchdogOnTime, Tick, Alive, MaxDelay, restart,
           watchdog, outage
  <2>2. OneRestart'
    <3>. DEFINE down(t) == IF t > 0 THEN t - 1 ELSE 0
    <3>1. timers' = {down(t) : t \in timers} /\ source' = source
      BY <1>16 DEF Tick
    <3>2. timers' = {} <=> timers = {}
      BY <3>1
    <3>3. \A t1, t2 \in timers' : t1 = t2
      <4>. SUFFICES ASSUME NEW t1 \in timers', NEW t2 \in timers' PROVE t1 = t2
        OBVIOUS
      <4>1. PICK u1 \in timers, u2 \in timers : t1 = down(u1) /\ t2 = down(u2)
        BY <3>1
      <4>2. u1 = u2
        BY DEF IInv, OneRestart
      <4>. QED
        BY <4>1, <4>2
    <3>. QED
      BY <3>1, <3>2, <3>3 DEF IInv, OneRestart
  <2>3. WatchdogOnTime'
    BY <1>16, DisplayConstants
       DEF IInv, TypeOK, WatchdogOnTime, Tick, Alive, restart, watchdog, outage
  <2>. QED
    BY <1>16, <2>1, <2>2, <2>3
       DEF IInv, RestartOnlyWhenBroken, MessagesOfBroken, NothingBeforeBoot,
           Tick, Alive, restart, watchdog, outage
<1>17. CASE UNCHANGED vars
  BY <1>17
     DEF IInv, TypeOK, OneRestart, RestartOnlyWhenBroken, MessagesOfBroken,
         WatchdogOnTime, NothingBeforeBoot, Alive, vars, restart, watchdog,
         outage
<1>. QED
  BY <1>1, <1>2, <1>3, <1>4, <1>5, <1>6, <1>7, <1>8, <1>9, <1>10, <1>11, <1>12, <1>13, <1>14, <1>15, <1>16, <1>17
     DEF Next, MainStep, PipeStep

-----------------------------------------------------------------------------
\* Every reachable state of the display process satisfies the invariant.
THEOREM Invariance == Spec => []IInv
BY Starts, Steps, PTL DEF Spec

\* The state of main.c's process keeps its shape.
THEOREM TypeCorrect == Spec => []TypeOK
<1>1. IInv => TypeOK
  BY DEF IInv
<1>. QED
  BY <1>1, Invariance, PTL

\* At most one restart_pipeline_cb timeout is ever pending, and
\* g_restart_source tells whether one is.
THEOREM OneRestartPending == Spec => []OneRestart
<1>1. IInv => OneRestart
  BY DEF IInv
<1>. QED
  BY <1>1, Invariance, PTL

\* No restart is ever pending for a pipeline that connects or plays.
THEOREM NoStrayRestart == Spec => []RestartOnlyWhenBroken
<1>1. IInv => RestartOnlyWhenBroken
  BY DEF IInv
<1>. QED
  BY <1>1, Invariance, PTL

\* A process that lives has been without a frame for no longer than the
\* watchdog's count allows.
LEMMA InTime == IInv => ExitsInTime
<1>. SUFFICES ASSUME IInv, Alive
              PROVE  quiet <= (StaleLimit + 1) * CheckPeriod
  BY DEF ExitsInTime
<1>1. CheckPeriod \in Nat /\ StaleLimit \in Nat \ {0} /\ stale \in Nat
      /\ wd \in Nat /\ quiet \in Nat
  BY DisplayConstants DEF IInv, TypeOK
<1>2. stale < StaleLimit
  BY DEF IInv, WatchdogOnTime, Alive
<1>3. CASE fresh
  <2>1. quiet <= CheckPeriod
    BY <1>1, <1>3 DEF IInv, WatchdogOnTime, Alive
  <2>2. CheckPeriod <= (StaleLimit + 1) * CheckPeriod
    BY <1>1
  <2>. QED
    BY <1>1, <2>1, <2>2
<1>4. CASE ~fresh
  <2>1. quiet + wd <= (stale + 2) * CheckPeriod
    BY <1>4 DEF IInv, WatchdogOnTime, Alive
  <2>2. (stale + 2) * CheckPeriod <= (StaleLimit + 1) * CheckPeriod
    BY <1>1, <1>2
  <2>. QED
    BY <1>1, <2>1, <2>2
<1>. QED
  BY <1>3, <1>4

\* frame_watchdog bounds how long a process without a picture lives, whatever
\* the main loop does.
THEOREM WatchdogBounds == Spec => []ExitsInTime
BY InTime, Invariance, PTL

\* frame_watchdog never ends a process too early.
THEOREM WatchdogPatient == Spec => ExitsOnlyWhenQuiet
<1>1. IInv /\ [Next]_vars
        => [CheckFrames /\ main' = "exited"
              => quiet >= StaleLimit * CheckPeriod]_vars
  <2>. SUFFICES ASSUME IInv, CheckFrames, main' = "exited"
                PROVE  quiet >= StaleLimit * CheckPeriod
    OBVIOUS
  <2>1. CheckPeriod \in Nat /\ StaleLimit \in Nat \ {0} /\ stale \in Nat
        /\ quiet \in Nat
    BY DisplayConstants DEF IInv, TypeOK
  <2>2. wd = 0 /\ main # "exited" /\ Counted >= StaleLimit
    BY DEF CheckFrames, TooStale, Alive
  <2>3. ~fresh /\ stale + 1 >= StaleLimit
    BY <2>1, <2>2 DEF Counted
  <2>4. (stale + 1) * CheckPeriod <= quiet
    BY <2>1, <2>2, <2>3 DEF IInv, WatchdogOnTime
  <2>5. StaleLimit * CheckPeriod <= (stale + 1) * CheckPeriod
    BY <2>1, <2>3
  <2>. QED
    BY <2>1, <2>4, <2>5
<1>. QED
  BY <1>1, Invariance, PTL DEF Spec, ExitsOnlyWhenQuiet
-----------------------------------------------------------------------------
(* The backoff.                                                            *)

\* The longest that a process lives without a frame.
Patience == (StaleLimit + 1) * CheckPeriod

\* What the delay has grown to has been waited for: a restart is tried only
\* when its timer has run, and the frame that would set the quiet back comes
\* from a pipeline that has set the delay back.
BackoffOK ==
    /\ \A t \in timers : delay <= quiet + t
    /\ main \notin {"exited", "hung", "cleanup"} /\ delay # FirstDelay => timers # {}
    /\ delay = FirstDelay \/ delay <= 2 * Patience
    /\ waited \in {0, FirstDelay} \/ waited <= 2 * Patience

\* Every step keeps the delay within what has been waited.
LEMMA BackoffStep == IInv /\ BackoffOK /\ [Next]_vars => BackoffOK'
<1>. SUFFICES ASSUME IInv, BackoffOK, [Next]_vars PROVE BackoffOK'
  OBVIOUS
<1>. USE DEF restart, watchdog, outage
<1>1. /\ delay \in Nat /\ quiet \in Nat /\ waited \in Nat /\ timers \in SUBSET Nat
      /\ FirstDelay \in Nat \ {0} /\ Patience \in Nat
  BY DisplayConstants DEF IInv, TypeOK, MaxDelay, Patience
<1>2. CASE Launch
  BY <1>1, <1>2 DEF Launch, BackoffOK
<1>3. CASE BusMessage
  <2>1. CASE source
    <3>1. timers # {} /\ timers' = timers /\ waited' = waited
      BY <1>3, <2>1 DEF BusMessage, Schedule, IInv, OneRestart
    <3>2. UNCHANGED <<main, delay, quiet>>
      BY <1>3 DEF BusMessage
    <3>. QED
      BY <2>1, <3>1, <3>2 DEF BackoffOK
  <2>2. CASE ~source
    <3>1. timers = {} /\ main = "run" /\ delay = FirstDelay
      BY <1>3, <2>2 DEF BusMessage, IInv, OneRestart, BackoffOK
    <3>2. timers' = {FirstDelay} /\ waited' = FirstDelay /\ delay' = delay /\ quiet' = quiet
      BY <1>3, <2>2, <3>1 DEF BusMessage, Schedule
    <3>. QED
      BY <1>1, <3>1, <3>2 DEF BackoffOK
  <2>. QED
    BY <2>1, <2>2
<1>4. CASE RestartStarts
  <2>1. timers' = {} /\ delay' = FirstDelay /\ waited' = waited
    BY <1>4 DEF RestartStarts, IInv, OneRestart
  <2>. QED
    BY <2>1 DEF BackoffOK
<1>5. CASE RestartFails
  <2>1. 0 \in timers /\ timers \ {0} = {} /\ main = "run"
    BY <1>5 DEF RestartFails, IInv, OneRestart
  <2>2. timers' = {delay} /\ waited' = delay /\ quiet' = quiet
    BY <1>5, <2>1 DEF RestartFails, Schedule
  <2>3. delay' = 2 * delay \/ delay' = delay
    BY <1>5 DEF RestartFails, Doubled
  <2>4. delay <= quiet
    BY <1>1, <2>1 DEF BackoffOK
  <2>5. quiet <= Patience
    BY <2>1, InTime DEF ExitsInTime, Alive, Patience
  <2>6. \A t \in timers' : delay' <= quiet' + t
    BY <1>1, <2>2, <2>3, <2>4
  <2>7. delay' = FirstDelay \/ delay' <= 2 * Patience
    BY <1>1, <2>3, <2>4, <2>5
  <2>8. waited' \in {0, FirstDelay} \/ waited' <= 2 * Patience
    BY <1>1, <2>2, <2>4, <2>5
  <2>. QED
    BY <2>2, <2>6, <2>7, <2>8 DEF BackoffOK
<1>6. CASE RestartHangs
  <2>1. timers' = {} /\ main' = "hung" /\ UNCHANGED <<delay, waited>>
    BY <1>6 DEF RestartHangs, IInv, OneRestart
  <2>. QED
    BY <2>1 DEF BackoffOK
<1>7. CASE Frame
  <2>1. timers = {} /\ UNCHANGED <<main, timers, delay>> /\ waited' = 0
    BY <1>7 DEF Frame, IInv, RestartOnlyWhenBroken
  <2>. QED
    BY <2>1 DEF BackoffOK
<1>8. CASE Tick
  <2>1. /\ timers' = {IF t > 0 THEN t - 1 ELSE 0 : t \in timers}
        /\ quiet' = quiet + 1 /\ UNCHANGED <<main, delay, waited>>
    BY <1>8 DEF Tick
  <2>2. ASSUME NEW t \in timers' PROVE delay' <= quiet' + t
    <3>1. PICK u \in timers : t = IF u > 0 THEN u - 1 ELSE 0
      BY <2>1
    <3>2. delay <= quiet + u
      BY DEF BackoffOK
    <3>. QED
      BY <1>1, <2>1, <3>1, <3>2
  <2>3. timers # {} => timers' # {}
    BY <2>1
  <2>. QED
    BY <2>1, <2>2, <2>3 DEF BackoffOK
<1>9. CASE /\ UNCHANGED <<timers, delay, quiet, waited>>
           /\ main \in {"exited", "hung", "cleanup"} => main' \in {"exited", "hung", "cleanup"}
  BY <1>9 DEF BackoffOK
<1>. QED
  BY <1>2, <1>3, <1>4, <1>5, <1>6, <1>7, <1>8, <1>9
     DEF Next, MainStep, PipeStep, BootFails, Boot, NewLoop, RunLoop, Signal, Stick, Break,
         CheckFrames, CleanUp, vars

\* The delay between two restarts is the first one, or no more than twice as
\* long as frame_watchdog lets the process live without a frame.
THEOREM BackoffBound == Spec => []BackoffOK
<1>1. Init => BackoffOK
  BY DEF Init, BackoffOK
<1>. QED
  BY <1>1, BackoffStep, Invariance, PTL DEF Spec

\* The cap of the backoff is further away than that: 30 s, against twice 9 s.
CapOutOfReach == FirstDelay < DelayCap /\ 2 * Patience < DelayCap

\* restart_pipeline_cb never comes to wait as long as its cap: frame_watchdog
\* ends the process before.
THEOREM BackoffStopsShort == CapOutOfReach => (Spec => []BackoffCutShort)
<1>1. CapOutOfReach /\ IInv /\ BackoffOK => BackoffCutShort
  <2>. SUFFICES ASSUME CapOutOfReach, IInv, BackoffOK
                PROVE  delay < DelayCap /\ waited < DelayCap
    BY DEF BackoffCutShort
  <2>1. /\ delay \in Nat /\ waited \in Nat /\ Patience \in Nat
        /\ FirstDelay \in Nat \ {0} /\ DelayCap \in Nat
    BY DisplayConstants DEF IInv, TypeOK, MaxDelay, Patience
  <2>. QED
    BY <2>1 DEF CapOutOfReach, BackoffOK
<1>2. ASSUME CapOutOfReach PROVE Spec => []BackoffCutShort
  <2>1. IInv /\ BackoffOK => BackoffCutShort
    BY <1>1, <1>2
  <2>. QED
    BY <2>1, Invariance, BackoffBound, PTL
<1>. QED
  BY <1>2
==============================================================================
