---------------------------- MODULE Supervision ----------------------------
(***************************************************************************)
(* What keeps the display and the web back end of the board running, and   *)
(* on one camera: S99camera with its watchdog, the web process's           *)
(* auto_recover, and the connect requests it serves (main.rs).  They are   *)
(* processes that look at one another with pidof, pgrep and ss, kill one   *)
(* another with killall, and share two files, config.ini, which a display  *)
(* reads when it starts, and last_connect.json, which auto_recover reads.  *)
(*                                                                         *)
(* One tick stands for the five seconds everybody waits, at most, for      *)
(* weston, the desktop, to end; the watchdog's sleep is some ticks; any    *)
(* other command takes no time, but its neighbours may come in between.    *)
(* A display is told apart by the url it shows; that of an empty or        *)
(* missing config.ini is NoUrl.                                            *)
(***************************************************************************)
EXTENDS Integers

CONSTANTS
    Dogs,           \* watchdogs: S99camera start makes one each time it runs
    Webs,           \* web processes that can run at the same time
    Requests,       \* connect requests that can be in progress
    Urls, NoUrl,    \* cameras
    Period,         \* ticks a watchdog sleeps (15 s)
    MaxDisplays,    \* bound: displays on one url
    MaxFaults       \* bound: processes that die, requests cut short, stops

ASSUME SupervisionConstants ==
    /\ NoUrl \notin Urls
    /\ Webs \cap Requests = {} /\ Dogs \cap (Webs \cup Requests) = {}
    /\ Period \in Nat \ {0} /\ MaxDisplays \in Nat \ {0} /\ MaxFaults \in Nat

Jobs == Webs \cup Requests

VARIABLES
    dog,        \* watchdogs: the next step
    timer,      \* watchdogs: what is left of the sleep, or of the wait
    at,         \* web processes and connect requests: the next step
    url,        \* jobs: the camera in hand
    waited,     \* jobs: the wait for weston is over, or the last sleep is
    displays,   \* per url: the displays that run
    config, last,   \* the urls in config.ini and last_connect.json
    strays,     \* the writes that go on though their connect was dropped
    weston,     \* the desktop: "runs", "ends" (killed and not gone), "gone"
    light,      \* the backlight is on
    faults,
    overlap,    \* history: since all displays were killed, two have been about
                \* to start one at the same time
    parted,     \* history: since a connect last began alone, one met another
                \* writer or was cut short
    unlit,      \* history: a wait was over before weston was gone, or cut short
    stopped     \* history: S99camera stop was run after the last start

files == <<config, last, strays>>
panel == <<weston, light>>
history == <<overlap, parted, unlit, stopped>>
vars == <<dog, timer, at, url, waited, displays, files, panel, faults, history>>

DogSteps == {"off", "boot", "check", "kill", "first",
             "sleep", "rekill", "restart", "look", "start"}
JobSteps == {"idle", "look", "read", "config", "last", "kill", "weston", "wait", "light",
             "start", "bind", "serve", "rest"}
Serving == {w \in Webs : at[w] = "serve"}
Running == {u \in Urls \cup {NoUrl} : displays[u] > 0}

\* The shape of the state: at most one web process has the port, and requests
\* or left a write behind only while one has.
TypeOK ==
    /\ dog \in [Dogs -> DogSteps] /\ timer \in [Dogs -> 0 .. Period]
    /\ at \in [Jobs -> JobSteps] /\ url \in [Jobs -> Urls \cup {NoUrl}]
    /\ waited \in [Jobs -> BOOLEAN]
    /\ displays \in [Urls \cup {NoUrl} -> 0 .. MaxDisplays]
    /\ config \in Urls \cup {NoUrl} /\ last \in Urls \cup {NoUrl}
    /\ strays \subseteq [file : {"config", "last"}, url : Urls \cup {NoUrl}]
    /\ weston \in {"runs", "ends", "gone"} /\ light \in BOOLEAN
    /\ faults \in 0 .. MaxFaults
    /\ overlap \in BOOLEAN /\ parted \in BOOLEAN /\ unlit \in BOOLEAN /\ stopped \in BOOLEAN
    /\ \A v, w \in Serving : v = w
    /\ Serving = {} => strays = {} /\ \A r \in Requests : at[r] = "idle"

Init ==
    /\ dog = [d \in Dogs |-> "off"] /\ timer = [d \in Dogs |-> 0]
    /\ at = [j \in Jobs |-> "idle"] /\ url = [j \in Jobs |-> NoUrl]
    /\ waited = [j \in Jobs |-> FALSE]
    /\ displays = [u \in Urls \cup {NoUrl} |-> 0]
    /\ config = NoUrl /\ last = NoUrl /\ strays = {}
    /\ weston = "runs" /\ light = TRUE /\ faults = 0
    /\ overlap = FALSE /\ parted = FALSE /\ unlit = FALSE /\ stopped = FALSE

-----------------------------------------------------------------------------
(* The displays.                                                           *)

\* Those who have seen to it that no display runs, and are about to start one.
Starters ==
    {d \in Dogs : dog[d] = "start"}
    \cup {j \in Jobs : at[j] \in {"light", "start"}}
    \cup {r \in Requests : at[r] \in {"weston", "wait"}}

\* A display starts, and reads config.ini.
DisplayStarts ==
    displays' = [displays EXCEPT ![config] = IF @ = MaxDisplays THEN @ ELSE @ + 1]

NoDisplays == displays' = [u \in Urls \cup {NoUrl} |-> 0]

\* Goes with every step after which someone is about to start a display:
\* it says whether another is.
NotesOthers(fresh) ==
    overlap' = ((~fresh /\ overlap) \/ \E x, y \in Starters' : x # y)

-----------------------------------------------------------------------------
(* The web processes and their requests.                                   *)

Goto(j, s) ==
    /\ at' = [at EXCEPT ![j] = s]
    /\ waited' = [waited EXCEPT ![j] = FALSE]
    /\ url' = IF s \in {"idle", "serve"} THEN [url EXCEPT ![j] = NoUrl] ELSE url

\* Those who have killed weston and will switch the backlight on.
Relights(j) == at[j] \in {"wait", "light"} \/ (j \in Webs /\ at[j] = "kill")

\* Web processes W end, and with the one that serves its requests; what was
\* about to be written is lost, and the file it had emptied may stay empty.
Killed(W) ==
    LET serving == W \cap Serving # {}
        ended == W \cup (IF serving THEN Requests ELSE {})
        cut(f) == \/ \E j \in ended : at[j] = f
                  \/ serving /\ \E s \in strays : s.file = f
    IN  /\ at' = [j \in Jobs |-> IF j \in ended THEN "idle" ELSE at[j]]
        /\ url' = [j \in Jobs |-> IF j \in ended THEN NoUrl ELSE url[j]]
        /\ waited' = [j \in Jobs |-> j \notin ended /\ waited[j]]
        /\ config' \in {config} \cup (IF cut("config") THEN {NoUrl} ELSE {})
        /\ last' \in {last} \cup (IF cut("last") THEN {NoUrl} ELSE {})
        /\ strays' = IF serving THEN {} ELSE strays
        /\ parted' = (parted \/ cut("config") \/ cut("last"))
        /\ unlit' = (unlit \/ \E j \in ended : Relights(j))

\* start_web, after its killall: a process that looks whether to recover.
WebStarts == \E w \in Webs : at[w] = "idle" /\ Goto(w, "look")

\* auto_recover: a display runs, or the last connection is looked for ...
Look(w) ==
    /\ at[w] = "look"
    /\ Goto(w, IF Running = {} THEN "read" ELSE "bind")
    /\ UNCHANGED <<dog, timer, displays, files, panel, faults, history>>

\* ... and there never was one, or its display is to be started again.
Read(w) ==
    /\ at[w] = "read"
    /\ at' = [at EXCEPT ![w] = IF last = NoUrl THEN "bind" ELSE "config"]
    /\ url' = [url EXCEPT ![w] = last]
    /\ UNCHANGED <<dog, timer, waited, displays, files, panel, faults, history>>

\* The jobs that write a connection's two files, and one that does so alone.
Writers == {j \in Jobs : at[j] \in {"config", "last"}}
WritesAlone(j) == Writers = {j} /\ strays = {}

WriteConfig(j) ==
    /\ at[j] = "config"
    /\ config' = url[j]
    /\ Goto(j, IF j \in Requests THEN "last" ELSE "weston")
    /\ parted' = (~WritesAlone(j) \/ (parted /\ j \notin Requests))
    /\ UNCHANGED <<dog, timer, displays, last, strays, panel, faults, overlap, unlit, stopped>>

\* The bug: the connection is not remembered.
WriteLastNot(r) ==
    /\ at[r] = "last"
    /\ Goto(r, "kill")
    /\ parted' = (parted \/ ~WritesAlone(r))
    /\ UNCHANGED <<dog, timer, displays, files, panel, faults, overlap, unlit, stopped>>

WriteLast(r) ==
    /\ at[r] = "last"
    /\ last' = url[r]
    /\ Goto(r, "kill")
    /\ parted' = (parted \/ ~WritesAlone(r))
    /\ UNCHANGED <<dog, timer, displays, config, strays, panel, faults, overlap, unlit, stopped>>

\* The write of a dropped connect ends.
StrayWrite(s) ==
    /\ s \in strays /\ strays' = strays \ {s}
    /\ config' = IF s.file = "config" THEN s.url ELSE config
    /\ last' = IF s.file = "last" THEN s.url ELSE last
    /\ parted' = (parted \/ Writers # {} \/ strays # {s})
    /\ UNCHANGED <<dog, timer, at, url, waited, displays, panel, faults, overlap, unlit, stopped>>

\* killall of the displays; a request goes on to weston, which auto_recover
\* has waited for before ...
KillDisplays(j) ==
    /\ at[j] = "kill"
    /\ NoDisplays
    /\ Goto(j, IF j \in Requests THEN "weston" ELSE "light")
    /\ UNCHANGED <<dog, timer, files, panel, faults, parted, unlit, stopped>>
    /\ NotesOthers(TRUE)

\* ... and killall of weston.
KillWeston(j) ==
    /\ at[j] = "weston"
    /\ Goto(j, "wait")
    /\ weston' = IF weston = "runs" THEN "ends" ELSE weston
    /\ UNCHANGED <<dog, timer, displays, files, light, faults, history>>

\* Weston is gone, or has been waited for long enough.
Waited(j) ==
    /\ at[j] = "wait" /\ (weston = "gone" \/ waited[j])
    /\ Goto(j, IF j \in Requests THEN "light" ELSE "kill")
    /\ unlit' = (unlit \/ weston # "gone")
    /\ UNCHANGED <<dog, timer, displays, files, panel, faults, overlap, parted, stopped>>

\* The backlight is switched on ...
SwitchOn(j) ==
    /\ at[j] = "light"
    /\ light' = TRUE
    /\ Goto(j, "start")
    /\ UNCHANGED <<dog, timer, displays, files, weston, faults, history>>

\* ... and the display started; a request then sleeps for a second before it
\* answers.
StartDisplay(j) ==
    /\ at[j] = "start"
    /\ DisplayStarts
    /\ Goto(j, IF j \in Requests THEN "rest" ELSE "bind")
    /\ UNCHANGED <<dog, timer, files, panel, faults, history>>

\* The bug: a second web process serves as well.
BindAnyway(w) ==
    /\ at[w] = "bind"
    /\ Goto(w, "serve")
    /\ UNCHANGED <<dog, timer, displays, files, panel, faults, history>>

\* The port is bound, or taken.
Bind(w) ==
    /\ at[w] = "bind"
    /\ Goto(w, IF Serving = {} THEN "serve" ELSE "idle")
    /\ UNCHANGED <<dog, timer, displays, files, panel, faults, history>>

Answer(r) ==
    /\ at[r] = "rest" /\ waited[r]
    /\ Goto(r, "idle")
    /\ UNCHANGED <<dog, timer, displays, files, panel, faults, history>>

\* Somebody asks for a camera.
Connect(r) ==
    /\ at[r] = "idle" /\ Serving # {}
    /\ \E u \in Urls : url' = [url EXCEPT ![r] = u]
    /\ at' = [at EXCEPT ![r] = "config"]
    /\ UNCHANGED <<dog, timer, waited, displays, files, panel, faults, history>>

-----------------------------------------------------------------------------
(* S99camera.                                                              *)

\* start kills weston and waits for it.
Boot(d) ==
    /\ dog[d] = "off"
    /\ dog' = [dog EXCEPT ![d] = "boot"] /\ timer' = [timer EXCEPT ![d] = 1]
    /\ weston' = IF weston = "runs" THEN "ends" ELSE weston
    /\ stopped' = FALSE
    /\ UNCHANGED <<at, url, waited, displays, files, light, faults, overlap, parted, unlit>>

\* The bug: the backlight is switched on without the wait.
BootedAtOnce(d) ==
    /\ dog[d] = "boot"
    /\ light' = TRUE
    /\ dog' = [dog EXCEPT ![d] = "check"] /\ timer' = [timer EXCEPT ![d] = 0]
    /\ UNCHANGED <<at, url, waited, displays, files, weston, faults, history>>

\* It switches the backlight on ...
Booted(d) ==
    /\ dog[d] = "boot" /\ (weston = "gone" \/ timer[d] = 0)
    /\ light' = TRUE /\ unlit' = (unlit \/ weston # "gone")
    /\ dog' = [dog EXCEPT ![d] = "check"] /\ timer' = [timer EXCEPT ![d] = 0]
    /\ UNCHANGED <<at, url, waited, displays, files, weston, faults, overlap, parted, stopped>>

\* ... and starts the web process, unless its port is bound.
FirstCheck(d) ==
    /\ dog[d] = "check"
    /\ IF Serving # {}
       THEN /\ dog' = [dog EXCEPT ![d] = "sleep"]
            /\ timer' = [timer EXCEPT ![d] = Period]
       ELSE dog' = [dog EXCEPT ![d] = "kill"] /\ UNCHANGED timer
    /\ UNCHANGED <<at, url, waited, displays, files, panel, faults, history>>

\* Every Period the watchdog looks at the port ...
Wake(d) ==
    /\ dog[d] = "sleep" /\ timer[d] = 0
    /\ dog' = [dog EXCEPT ![d] = IF Serving # {} THEN "look" ELSE "rekill"]
    /\ UNCHANGED <<timer, at, url, waited, displays, files, panel, faults, history>>

\* ... kills the web processes there are, one that has bound the port since
\* included ...
KillWebs(d) ==
    /\ dog[d] \in {"kill", "rekill"}
    /\ dog' = [dog EXCEPT ![d] = IF @ = "kill" THEN "first" ELSE "restart"]
    /\ Killed(Webs)
    /\ UNCHANGED <<timer, displays, panel, faults, overlap, stopped>>

\* ... starts one ...
StartWeb(d) ==
    /\ dog[d] \in {"first", "restart"}
    /\ WebStarts
    /\ IF dog[d] = "first"
       THEN /\ dog' = [dog EXCEPT ![d] = "sleep"]
            /\ timer' = [timer EXCEPT ![d] = Period]
       ELSE dog' = [dog EXCEPT ![d] = "look"] /\ UNCHANGED timer
    /\ UNCHANGED <<displays, files, panel, faults, history>>

\* The bug: the display is looked for no more than at boot.
SeekDisplayOnce(d) ==
    /\ dog[d] = "look"
    /\ dog' = [dog EXCEPT ![d] = "sleep"] /\ timer' = [timer EXCEPT ![d] = Period]
    /\ UNCHANGED <<at, url, waited, displays, files, panel, faults, history>>

\* The bug: a display is started whether or not one runs.
SeekNoDisplay(d) ==
    /\ dog[d] = "look"
    /\ dog' = [dog EXCEPT ![d] = "start"]
    /\ UNCHANGED <<timer, at, url, waited, displays, files, panel, faults, parted, unlit, stopped>>
    /\ NotesOthers(FALSE)

\* ... then looks for a display ...
SeekDisplay(d) ==
    /\ dog[d] = "look"
    /\ UNCHANGED <<at, url, waited, displays, files, panel, faults, parted, unlit, stopped>>
    /\ IF Running # {}
       THEN /\ dog' = [dog EXCEPT ![d] = "sleep"]
            /\ timer' = [timer EXCEPT ![d] = Period]
            /\ UNCHANGED overlap
       ELSE /\ dog' = [dog EXCEPT ![d] = "start"] /\ UNCHANGED timer
            /\ NotesOthers(FALSE)

\* ... and starts one.
Revive(d) ==
    /\ dog[d] = "start"
    /\ DisplayStarts
    /\ dog' = [dog EXCEPT ![d] = "sleep"] /\ timer' = [timer EXCEPT ![d] = Period]
    /\ UNCHANGED <<at, url, waited, files, panel, faults, history>>

-----------------------------------------------------------------------------
(* Weston, time, and what goes wrong.                                      *)

\* Weston switches the backlight off as it ends.
WestonGone ==
    /\ weston = "ends"
    /\ weston' = "gone" /\ light' = FALSE
    /\ UNCHANGED <<dog, timer, at, url, waited, displays, files, faults, history>>

\* Nobody has anything to do at once.
Tick ==
    /\ strays = {}
    /\ \A j \in Jobs : at[j] \in {"idle", "serve"}
                       \/ (at[j] = "wait" /\ weston # "gone" /\ ~waited[j])
                       \/ (at[j] = "rest" /\ ~waited[j])
    /\ \A d \in Dogs : dog[d] = "off" \/ (dog[d] = "sleep" /\ timer[d] > 0)
                       \/ (dog[d] = "boot" /\ weston # "gone" /\ timer[d] > 0)
    /\ waited' = [j \in Jobs |-> at[j] \in {"wait", "rest"}]
    /\ timer' = [d \in Dogs |-> IF timer[d] > 0 THEN timer[d] - 1 ELSE 0]
    /\ UNCHANGED <<dog, at, url, displays, files, panel, faults, history>>

Fault == faults < MaxFaults /\ faults' = faults + 1

DisplayDies(u) ==
    /\ Fault /\ displays[u] > 0
    /\ displays' = [displays EXCEPT ![u] = @ - 1]
    /\ UNCHANGED <<dog, timer, at, url, waited, files, panel, history>>

WebDies(w) ==
    /\ Fault /\ at[w] # "idle"
    /\ Killed({w})
    /\ UNCHANGED <<dog, timer, displays, panel, overlap, stopped>>

\* The client of a connect goes away: its handler is dropped where it waits;
\* the write it waits for goes on without it.
Hangup(r) ==
    /\ Fault /\ at[r] # "idle"
    /\ Goto(r, "idle")
    /\ strays' = strays \cup {s \in [file : {at[r]}, url : {url[r]}] :
                                 s.file \in {"config", "last"}}
    /\ parted' = (parted \/ at[r] = "config")
    /\ unlit' = (unlit \/ Relights(r))
    /\ UNCHANGED <<dog, timer, displays, config, last, panel, overlap, stopped>>

\* S99camera stop: the web process and the displays, not the watchdogs.
Stop ==
    /\ Fault
    /\ Killed(Webs) /\ NoDisplays /\ stopped' = TRUE
    /\ UNCHANGED <<dog, timer, panel, overlap>>

\* Somebody starts the desktop again.
Desktop ==
    /\ Fault /\ weston = "gone"
    /\ weston' = "runs"
    /\ UNCHANGED <<dog, timer, at, url, waited, displays, files, light, history>>

DogStep(d) ==
    \/ Booted(d) \/ FirstCheck(d) \/ Wake(d) \/ KillWebs(d) \/ StartWeb(d)
    \/ SeekDisplay(d) \/ Revive(d)
WebStep(w) == Look(w) \/ Read(w) \/ Bind(w)
RequestStep(r) == WriteLast(r) \/ Answer(r)
JobStep(j) ==
    \/ WriteConfig(j) \/ KillDisplays(j) \/ KillWeston(j) \/ Waited(j)
    \/ SwitchOn(j) \/ StartDisplay(j)

Next ==
    \/ \E d \in Dogs : Boot(d) \/ DogStep(d)
    \/ \E w \in Webs : WebStep(w) \/ WebDies(w)
    \/ \E r \in Requests : Connect(r) \/ RequestStep(r) \/ Hangup(r)
    \/ \E j \in Jobs : JobStep(j)
    \/ \E s \in strays : StrayWrite(s)
    \/ \E u \in Urls \cup {NoUrl} : DisplayDies(u)
    \/ WestonGone \/ Desktop \/ Tick \/ Stop

Spec == Init /\ [][Next]_vars

\* Processes run, sleeps and waits end.
FairSpec ==
    /\ Spec /\ WF_vars(Tick)
    /\ \A d \in Dogs : WF_vars(DogStep(d))
    /\ \A w \in Webs : WF_vars(WebStep(w))
    /\ \A r \in Requests : WF_vars(RequestStep(r))
    /\ \A j \in Jobs : WF_vars(JobStep(j))
    /\ WF_vars(\E s \in strays : StrayWrite(s))

-----------------------------------------------------------------------------
(* Properties.                                                             *)

\* Two displays fight for the screen only if two who start them, a watchdog, a
\* connect or auto_recover, met between their look, or their kill, and their
\* start; and the next connect puts an end to it.
OneDisplay ==
    overlap \/ \A u, v \in Running : u = v /\ displays[u] = 1

\* Once the writes of a connect are over, what auto_recover would connect to
\* after a power cut is what config.ini says; a connect that met another writer
\* or was cut short may leave them apart, until the next that writes alone.
FilesAgree ==
    \/ parted \/ config = last
    \/ \E r \in Requests : at[r] = "last"
    \/ \E s \in strays : s.file = "last"

\* The backlight that weston switches off as it ends is switched on again by
\* whoever ended weston, unless weston outlived the wait for its end or the
\* wait was cut short.
LitAtLast ==
    \/ light \/ unlit
    \/ \E j \in Jobs : Relights(j)
    \/ \E d \in Dogs : dog[d] = "boot"

\* Once S99camera was started, web back end and display come back whatever
\* dies, unless it is told to stop.  (A stop does not keep them away either: it
\* leaves the watchdogs, which start both again, whatever the documents say.)
ComesBack ==
    (\E d \in Dogs : dog[d] # "off") ~> (Serving # {} /\ Running # {}) \/ stopped
=============================================================================
