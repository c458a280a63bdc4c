------------------------------- MODULE Display -------------------------------
(***************************************************************************)
(* The display process rtsp_display (main.c): a GStreamer pipeline that    *)
(* pulls a camera's stream and shows it, the main loop that rebuilds the   *)
(* pipeline after an error, the frame watchdog thread that ends the        *)
(* process when no frame comes, and S99camera, which starts it again.      *)
(*                                                                         *)
(* Time is in seconds.  The watchdog is on time; the main loop may be late *)
(* (a timer at 0 waits for it).  What a pipeline does (connect, deliver,   *)
(* stop, get stuck in the decoder) is the environment's choice.            *)
(***************************************************************************)
EXTENDS Integers

CONSTANTS
    FirstDelay,     \* g_retry_delay at first and after a started restart, 2 s
    DelayCap,       \* g_retry_delay is doubled while it is below this, 30 s
    CheckPeriod,    \* the watchdog's sleep, 3 s
    StaleLimit,     \* the checks without a new frame that make it exit, 2
    MaxMessages     \* bound: EOS and ERROR messages waiting on the bus

ASSUME DisplayConstants ==
    /\ FirstDelay \in Nat \ {0} /\ DelayCap \in Nat /\ FirstDelay <= DelayCap
    /\ CheckPeriod \in Nat \ {0} /\ StaleLimit \in Nat \ {0}
    /\ MaxMessages \in Nat

VARIABLES
    main,       \* where the main thread is, see TypeOK
    told,       \* bound: this process has had its one SIGTERM or SIGINT
    pipe,       \* g_pipeline
    posted,     \* EOS and ERROR messages the bus watch has not dispatched
    timers,     \* restart_pipeline_cb timeouts pending, in seconds left
    source,     \* g_restart_source # 0
    delay,      \* g_retry_delay
    fresh,      \* frame_count # last: a frame since the watchdog looked
    stale,      \* the watchdog's count of checks without one
    wd,         \* the seconds left of its sleep
    quiet,      \* history: seconds since the last frame, or since its start
    waited      \* history: how long the latest restart waits

restart == <<timers, source, delay>>
watchdog == <<fresh, stale, wd, quiet>>
outage == <<waited>>
vars == <<main, told, pipe, posted, restart, watchdog, outage>>

MaxDelay == 2 * DelayCap

\* The shape of the state.  main is "ready" once the watchdog thread runs
\* and "created" once g_loop is set; "hung" never leaves a call it made.
TypeOK ==
    /\ main \in {"exited", "boot", "ready", "created", "run", "hung", "cleanup"}
    /\ told \in BOOLEAN
    /\ pipe \in {"none", "failed", "connecting", "playing", "stuck", "broken"}
    /\ posted \in 0 .. MaxMessages
    /\ timers \in SUBSET (0 .. MaxDelay)
    /\ source \in BOOLEAN
    /\ delay \in 0 .. MaxDelay
    /\ fresh \in BOOLEAN
    /\ stale \in 0 .. StaleLimit /\ wd \in 0 .. CheckPeriod
    /\ quiet \in Nat
    /\ waited \in 0 .. MaxDelay

\* A process as the shell starts it.
Init ==
    /\ main = "boot" /\ told = FALSE
    /\ pipe = "none" /\ posted = 0
    /\ timers = {} /\ source = FALSE /\ delay = FirstDelay
    /\ fresh = FALSE /\ stale = 0 /\ wd = CheckPeriod /\ quiet = 0
    /\ waited = 0

-----------------------------------------------------------------------------
(* The main thread: main and the main loop's callbacks.                    *)

\* S99camera looks every 15 s and starts the process if there is none.
Launch ==
    /\ main = "exited"
    /\ main' = "boot" /\ told' = FALSE
    /\ pipe' = "none" /\ posted' = 0
    /\ timers' = {} /\ source' = FALSE /\ delay' = FirstDelay
    /\ fresh' = FALSE /\ stale' = 0 /\ wd' = CheckPeriod /\ quiet' = 0
    /\ waited' = 0

\* main up to the watchdog thread.  A display or a pipeline that cannot be
\* set up or started returns 1.
BootFails ==
    /\ main = "boot"
    /\ main' = "exited"
    /\ UNCHANGED <<told, pipe, posted, restart, watchdog, outage>>

Boot ==
    /\ main = "boot"
    /\ main' = "ready" /\ pipe' = "connecting"
    /\ UNCHANGED <<told, posted, restart, watchdog, outage>>

\* g_loop = g_main_loop_new
NewLoop ==
    /\ main = "ready"
    /\ main' = "created"
    /\ UNCHANGED <<told, pipe, posted, restart, watchdog, outage>>

RunLoop ==
    /\ main = "created"
    /\ main' = "run"
    /\ UNCHANGED <<told, pipe, posted, restart, watchdog, outage>>

\* schedule_restart, when source is g_restart_source # 0 and pending the
\* timeouts that remain.  The bug: every message adds a timeout of its own.
ScheduleTwice(is_queued, pending) ==
    /\ timers' = pending \cup {delay}
    /\ source' = TRUE
    /\ waited' = delay

Schedule(is_queued, pending) ==
    /\ source' = TRUE
    /\ \/ is_queued /\ timers' = pending /\ UNCHANGED outage
       \/ /\ ~is_queued
          /\ timers' = pending \cup {delay}
          /\ waited' = delay

\* on_bus_message: an EOS or an ERROR.  The rest is only logged.
BusMessage ==
    /\ main = "run" /\ posted > 0
    /\ posted' = posted - 1
    /\ Schedule(source, timers)
    /\ UNCHANGED <<main, told, pipe, delay, watchdog>>

\* What is left to dispatch when a pipeline has been destroyed: nothing, its
\* bus watch was removed before it.  The bug: the watch stays.
WatchKept == posted
WatchRemoved == 0

Doubled == IF delay < DelayCap THEN 2 * delay ELSE delay

\* restart_pipeline_cb with a new pipeline that starts: ASYNC, the connection
\* is made, or fails, later.
RestartStarts ==
    /\ main = "run" /\ 0 \in timers
    /\ pipe' = "connecting"
    /\ posted' = WatchRemoved
    /\ timers' = timers \ {0} /\ source' = FALSE
    /\ delay' = FirstDelay
    /\ UNCHANGED <<main, told, watchdog, outage>>

\* restart_pipeline_cb when the new pipeline is not built, or cannot start
\* and says so on its bus too.
RestartFails ==
    /\ main = "run" /\ 0 \in timers
    /\ \/ pipe' = "none" /\ posted' = WatchRemoved
       \/ pipe' = "failed" /\ posted' \in WatchRemoved .. MaxMessages
    /\ Schedule(FALSE, timers \ {0})
    /\ delay' = Doubled
    /\ UNCHANGED <<main, told, watchdog>>

\* gst_element_set_state(NULL) need not return when the decoder is stuck:
\* in restart_pipeline_cb, and in main's clean-up.
RestartHangs ==
    /\ main = "run" /\ 0 \in timers /\ pipe = "stuck"
    /\ main' = "hung"
    /\ timers' = timers \ {0} /\ source' = FALSE
    /\ posted' = WatchRemoved
    /\ UNCHANGED <<told, pipe, delay, watchdog, outage>>

CleanUp ==
    /\ main = "cleanup"
    /\ \/ main' = "exited"
       \/ main' = "hung" /\ pipe = "stuck"
    /\ UNCHANGED <<told, pipe, posted, restart, watchdog, outage>>

\* A signal: the default action before main has installed on_signal, then
\* on_signal, whose g_main_loop_quit stops only a loop that runs, and takes a
\* lock that the thread it interrupts may hold.
Signal ==
    /\ ~told /\ told' = TRUE
    /\ \/ main = "boot" /\ main' \in {"boot", "exited"}
       \/ main \in {"ready", "created"} /\ UNCHANGED main
       \/ main = "run" /\ main' \in {"cleanup", "hung"}
    /\ UNCHANGED <<pipe, posted, restart, watchdog, outage>>

-----------------------------------------------------------------------------
(* The pipeline's threads, the watchdog, and time.                         *)

Alive == main \notin {"exited", "boot"}

\* on_new_sample, up to frame_count++.
Frame ==
    /\ Alive /\ pipe \in {"connecting", "playing"}
    /\ pipe' = "playing"
    /\ fresh' = TRUE /\ quiet' = 0
    /\ waited' = 0
    /\ UNCHANGED <<main, told, posted, restart, stale, wd>>

\* The decoder's endless reconfiguration.
Stick ==
    /\ Alive /\ pipe = "playing"
    /\ pipe' = "stuck"
    /\ UNCHANGED <<main, told, posted, restart, watchdog, outage>>

\* The stream ends or an element fails, with one message or several.
Break ==
    /\ Alive /\ pipe # "none" /\ posted < MaxMessages
    /\ posted' = posted + 1
    /\ pipe' = IF pipe = "stuck" THEN "stuck" ELSE "broken"
    /\ UNCHANGED <<main, told, restart, watchdog, outage>>

\* The watchdog's counter after a check.  The bugs: every look finds a new
\* frame; a new frame does not reset it; the limit is off by one.
StaleForgotten == 0
StaleKept == stale + 1
Counted == IF fresh THEN 0 ELSE stale + 1

TooStale(n) == n >= StaleLimit

\* frame_watchdog after its sleep.
CheckFrames ==
    /\ Alive /\ wd = 0
    /\ wd' = CheckPeriod
    /\ fresh' = FALSE
    /\ stale' = Counted
    /\ main' = IF TooStale(Counted) THEN "exited" ELSE main
    /\ UNCHANGED <<told, pipe, posted, restart, quiet, outage>>

Tick ==
    /\ Alive /\ wd > 0
    /\ wd' = wd - 1
    /\ quiet' = quiet + 1
    /\ timers' = {IF t > 0 THEN t - 1 ELSE 0 : t \in timers}
    /\ UNCHANGED <<main, told, pipe, posted, source, delay, fresh, stale, outage>>

-----------------------------------------------------------------------------
MainStep ==
    \/ Launch \/ BootFails \/ Boot \/ NewLoop \/ RunLoop \/ BusMessage
    \/ RestartStarts \/ RestartFails \/ RestartHangs \/ CleanUp

PipeStep == Frame \/ Stick \/ Break

Next == MainStep \/ Signal \/ PipeStep \/ CheckFrames \/ Tick

Spec == Init /\ [][Next]_vars

-----------------------------------------------------------------------------
(* Properties.                                                             *)

\* However many EOS and ERROR messages come in a row, and whenever, at most
\* one restart is pending, and g_restart_source says if there is one
\* (schedule_restart's g_restart_source test and the callback's reset).
OneRestart ==
    /\ source <=> timers # {}
    /\ \A t1, t2 \in timers : t1 = t2

\* A restart is only ever pending for a pipeline that failed: a late message
\* of a destroyed pipeline never takes down the one that replaced it
\* (restart_pipeline_cb removes the bus watch first).
RestartOnlyWhenBroken ==
    timers # {} => pipe \in {"none", "failed", "stuck", "broken"}

\* Whatever the main loop is doing, stuck in the decoder included, and
\* however often it restarts, a process that shows nothing is gone after
\* (StaleLimit + 1) sleeps of the watchdog (frame_watchdog).
ExitsInTime == Alive => quiet <= (StaleLimit + 1) * CheckPeriod

\* The watchdog never ends a process that showed a frame in the last
\* StaleLimit sleeps (frame_watchdog: "6 s without a new frame").
ExitsOnlyWhenQuiet ==
    [][CheckFrames /\ main' = "exited" => quiet >= StaleLimit * CheckPeriod]_vars

\* The backoff never comes to its cap: no process lives through enough failed
\* restarts without a frame (restart_pipeline_cb against frame_watchdog).
BackoffCutShort == delay < DelayCap /\ waited < DelayCap
=============================================================================
