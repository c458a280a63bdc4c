------------------------- MODULE SupervisionProofs -------------------------
(***************************************************************************)
(* Proofs about the supervision of the display, for any number of          *)
(* watchdogs, web processes, requests and cameras, and any number of       *)
(* failures.                                                               *)
(***************************************************************************)
EXTENDS Supervision, TLAPS

\* The parts of the state the arguments below are about.
Shape ==
    /\ dog \in [Dogs -> DogSteps] /\ at \in [Jobs -> JobSteps]
    /\ url \in [Jobs -> Urls \cup {NoUrl}]
    /\ displays \in [Urls \cup {NoUrl} -> 0 .. MaxDisplays]
    /\ config \in Urls \cup {NoUrl} /\ last \in Urls \cup {NoUrl}
    /\ weston \in {"runs", "ends", "gone"} /\ light \in BOOLEAN
    /\ strays \subseteq [file : {"config", "last"}, url : Urls \cup {NoUrl}]
    /\ overlap \in BOOLEAN /\ parted \in BOOLEAN /\ unlit \in BOOLEAN /\ stopped \in BOOLEAN

\* Unless starters have met, there is one at most, and none runs that it has
\* not seen.
StarterOK ==
    overlap \/ \A x \in Starters : Running = {} /\ \A y \in Starters : x = y

\* Unless connects have met or were cut short, a job writes what the other file
\* says, and so does the write that goes on without its connect, the second.
WriterOK ==
    \/ parted
    \/ /\ \A w \in Webs : at[w] = "config" => url[w] = last
       /\ \A r \in Requests : at[r] = "last" => url[r] = config
       /\ \A s \in strays : s.file = "last" /\ s.url = config

\* Those who will switch the backlight on after weston is gone.
Pending ==
    (\E j \in Jobs : at[j] = "wait") \/ (\E d \in Dogs : dog[d] = "boot")

\* A weston that is on its way out is waited for.
WestonOK == weston = "ends" => unlit \/ Pending

\* The inductive invariant.
IInv ==
    Shape /\ OneDisplay /\ StarterOK /\ FilesAgree /\ WriterOK /\ LitAtLast /\ WestonOK

-----------------------------------------------------------------------------

\* What is left of the jobs, and of the files, when web processes end.
LEMMA KilledJobs ==
    ASSUME Shape, NEW W \in SUBSET Webs, Killed(W)
    PROVE  /\ at' \in [Jobs -> JobSteps] /\ url' \in [Jobs -> Urls \cup {NoUrl}]
           /\ config' \in {config, NoUrl} /\ last' \in {last, NoUrl}
           /\ strays' \in {strays, {}}
           /\ parted' \in BOOLEAN /\ unlit' \in BOOLEAN
           /\ \A j \in Jobs : \/ at'[j] = at[j] /\ url'[j] = url[j]
                              \/ at'[j] = "idle"
           /\ (parted' = FALSE) => /\ parted = FALSE /\ UNCHANGED files
                                   /\ \A j \in Jobs : at[j] = "last" => at'[j] = "last"
           /\ (unlit' = FALSE) => /\ unlit = FALSE
                                  /\ \A j \in Jobs : Relights(j) => at'[j] = at[j]
<1>. DEFINE serving == W \cap Serving # {}
            ended == W \cup (IF serving THEN Requests ELSE {})
            cut(f) == \/ \E j \in ended : at[j] = f
                      \/ serving /\ \E s \in strays : s.file = f
<1>1. /\ at' = [j \in Jobs |-> IF j \in ended THEN "idle" ELSE at[j]]
      /\ url' = [j \in Jobs |-> IF j \in ended THEN NoUrl ELSE url[j]]
      /\ config' \in {config} \cup (IF cut("config") THEN {NoUrl} ELSE {})
      /\ last' \in {last} \cup (IF cut("last") THEN {NoUrl} ELSE {})
      /\ strays' = IF serving THEN {} ELSE strays
      /\ parted' = (parted \/ cut("config") \/ cut("last"))
      /\ unlit' = (unlit \/ \E j \in ended : Relights(j))
  BY DEF Killed
<1>. HIDE DEF ended, serving
<1>2. at' \in [Jobs -> JobSteps] /\ url' \in [Jobs -> Urls \cup {NoUrl}]
  BY <1>1 DEF Shape, JobSteps
<1>3. /\ parted' \in BOOLEAN /\ unlit' \in BOOLEAN
      /\ config' \in {config, NoUrl} /\ last' \in {last, NoUrl} /\ strays' \in {strays, {}}
  BY <1>1
<1>4. \A j \in Jobs : (at'[j] = at[j] /\ url'[j] = url[j]) \/ at'[j] = "idle"
  BY <1>1
<1>5. ASSUME parted' = FALSE
      PROVE  /\ parted = FALSE /\ UNCHANGED files
             /\ \A j \in Jobs : at[j] = "last" => at'[j] = "last"
  <2>1. parted = FALSE /\ ~cut("config") /\ ~cut("last")
    BY <1>1, <1>5 DEF Shape
  <2>2. \A j \in ended : at[j] # "config" /\ at[j] # "last"
    BY <2>1
  <2>3. serving => strays = {}
    BY <2>1 DEF Shape
  <2>. QED
    BY <1>1, <2>1, <2>2, <2>3 DEF files
<1>6. ASSUME unlit' = FALSE
      PROVE  /\ unlit = FALSE
             /\ \A j \in Jobs : Relights(j) => at'[j] = at[j]
  <2>1. unlit = FALSE /\ \A j \in ended : ~Relights(j)
    BY <1>1, <1>6 DEF Shape
  <2>. QED
    BY <1>1, <2>1
<1>. QED
  BY <1>2, <1>3, <1>4, <1>5, <1>6

\* The start of a display, on what config.ini says.
LEMMA Started ==
    ASSUME Shape, DisplayStarts
    PROVE  /\ displays' \in [Urls \cup {NoUrl} -> 0 .. MaxDisplays]
           /\ Running = {} => /\ Running' = {config}
                              /\ displays'[config] = 1
<1>1. config \in Urls \cup {NoUrl} /\ MaxDisplays \in Nat \ {0}
      /\ displays \in [Urls \cup {NoUrl} -> 0 .. MaxDisplays]
  BY SupervisionConstants DEF Shape
<1>2. displays' \in [Urls \cup {NoUrl} -> 0 .. MaxDisplays]
  BY <1>1 DEF DisplayStarts
<1>3. ASSUME Running = {} PROVE Running' = {config} /\ displays'[config] = 1
  <2>1. \A u \in Urls \cup {NoUrl} : displays[u] = 0
    BY <1>1, <1>3 DEF Running
  <2>. QED
    BY <1>1, <2>1 DEF DisplayStarts, Running
<1>. QED
  BY <1>2, <1>3

\* Every step keeps the shape of the state.
LEMMA ShapeStep ==
    Shape /\ [Next]_vars => Shape'
<1>. SUFFICES ASSUME Shape, [Next]_vars PROVE Shape'
  OBVIOUS
<1>. USE DEF files, panel, history, Fault
<1>1. ASSUME NEW d \in Dogs, Boot(d) \/ Booted(d) PROVE Shape'
  BY <1>1 DEF Shape, Boot, Booted, DogSteps
<1>2. ASSUME NEW d \in Dogs, FirstCheck(d) \/ Wake(d) \/ KillWebs(d) PROVE Shape'
  <2>1. CASE KillWebs(d)
    BY <2>1, KilledJobs DEF Shape, KillWebs, DogSteps
  <2>2. CASE FirstCheck(d) \/ Wake(d)
    BY <2>2 DEF Shape, FirstCheck, Wake, DogSteps
  <2>. QED
    BY <1>2, <2>1, <2>2
<1>3. ASSUME NEW d \in Dogs, StartWeb(d) PROVE Shape'
  BY <1>3 DEF Shape, StartWeb, WebStarts, Goto, DogSteps, JobSteps, Jobs
<1>4. ASSUME NEW d \in Dogs, SeekDisplay(d) PROVE Shape'
  BY <1>4 DEF Shape, SeekDisplay, NotesOthers, DogSteps
<1>5. ASSUME NEW d \in Dogs, Revive(d) PROVE Shape'
  BY <1>5, Started DEF Shape, Revive, DogSteps
<1>6. ASSUME NEW j \in Jobs, WriteConfig(j) PROVE Shape'
  BY <1>6 DEF Shape, WriteConfig, Goto, JobSteps
<1>7. ASSUME NEW j \in Jobs, KillDisplays(j) PROVE Shape'
  <2>1. displays' \in [Urls \cup {NoUrl} -> 0 .. MaxDisplays]
    BY <1>7, SupervisionConstants DEF KillDisplays, NoDisplays
  <2>. QED
    BY <1>7, <2>1 DEF Shape, KillDisplays, Goto, NotesOthers, JobSteps
<1>8. ASSUME NEW j \in Jobs, KillWeston(j) \/ Waited(j) \/ SwitchOn(j) PROVE Shape'
  BY <1>8 DEF Shape, KillWeston, Waited, SwitchOn, Goto, JobSteps
<1>9. ASSUME NEW j \in Jobs, StartDisplay(j) PROVE Shape'
  BY <1>9, Started DEF Shape, StartDisplay, Goto, JobSteps
<1>10. ASSUME NEW w \in Webs, Look(w) \/ Read(w) \/ Bind(w) PROVE Shape'
  BY <1>10 DEF Shape, Look, Read, Bind, Goto, JobSteps, Jobs
<1>11. ASSUME NEW r \in Requests, Connect(r) \/ WriteLast(r) \/ Answer(r) \/ Hangup(r)
       PROVE  Shape'
  <2>1. CASE Connect(r) \/ WriteLast(r) \/ Answer(r)
    BY <1>11, <2>1 DEF Shape, Connect, WriteLast, Answer, Goto, JobSteps, Jobs
  <2>2. CASE Hangup(r)
    <3>1. url[r] \in Urls \cup {NoUrl}
      BY <1>11 DEF Shape, Jobs
    <3>2. \A s \in [file : {at[r]}, url : {url[r]}] : s.file \in {"config", "last"} =>
              s \in [file : {"config", "last"}, url : Urls \cup {NoUrl}]
      BY <3>1
    <3>3. strays' \subseteq [file : {"config", "last"}, url : Urls \cup {NoUrl}]
      BY <2>2, <3>2 DEF Hangup, Shape
    <3>. QED
      BY <1>11, <2>2, <3>3 DEF Shape, Hangup, Goto, JobSteps, Jobs
  <2>. QED
    BY <1>11, <2>1, <2>2
<1>12. ASSUME NEW w \in Webs, WebDies(w) PROVE Shape'
  BY <1>12, KilledJobs DEF Shape, WebDies
<1>13. CASE Stop
  <2>1. displays' \in [Urls \cup {NoUrl} -> 0 .. MaxDisplays]
    BY <1>13, SupervisionConstants DEF Stop, NoDisplays
  <2>. QED
    BY <1>13, <2>1, KilledJobs DEF Shape, Stop
<1>14. ASSUME NEW u \in Urls \cup {NoUrl}, DisplayDies(u) PROVE Shape'
  BY <1>14, SupervisionConstants DEF Shape, DisplayDies
<1>15. CASE WestonGone \/ Desktop \/ Tick
  BY <1>15 DEF Shape, WestonGone, Desktop, Tick
<1>16. CASE UNCHANGED vars
  BY <1>16 DEF Shape, vars
<1>17. ASSUME NEW s \in strays, StrayWrite(s) PROVE Shape'
  <2>1. s.url \in Urls \cup {NoUrl}
    BY <1>17 DEF Shape
  <2>. QED
    BY <1>17, <2>1 DEF Shape, StrayWrite
<1>. QED
  BY <1>1, <1>2, <1>3, <1>4, <1>5, <1>6, <1>7, <1>8, <1>9, <1>10, <1>11, <1>12, <1>13,
     <1>14, <1>15, <1>16, <1>17 DEF Next, DogStep, WebStep, RequestStep, JobStep

-----------------------------------------------------------------------------
(* The displays.                                                           *)

\* What disturbs neither: no display starts, nobody becomes a starter.
LEMMA NothingStarts ==
    ASSUME OneDisplay, StarterOK, overlap' = overlap,
           Starters' \subseteq Starters, Running' \subseteq Running,
           \A u \in Running' : displays'[u] <= displays[u] /\ displays'[u] \in Nat \ {0}
    PROVE  OneDisplay' /\ StarterOK'
<1>1. CASE overlap
  BY <1>1 DEF OneDisplay, StarterOK
<1>2. CASE ~overlap
  <2>1. \A u, v \in Running' : u = v /\ displays'[u] = 1
    BY <1>2 DEF OneDisplay
  <2>2. \A x \in Starters' : Running' = {} /\ \A y \in Starters' : x = y
    BY <1>2 DEF StarterOK
  <2>. QED
    BY <2>1, <2>2 DEF OneDisplay, StarterOK
<1>. QED
  BY <1>1, <1>2

\* The displays that run are as many as before.
LEMMA SameDisplays ==
    ASSUME Shape, OneDisplay, StarterOK, UNCHANGED <<displays, overlap>>,
           Starters' \subseteq Starters
    PROVE  OneDisplay' /\ StarterOK'
<1>1. Running' = Running /\ displays' = displays
  BY DEF Running
<1>2. \A u \in Running : displays[u] \in Nat \ {0}
  BY SupervisionConstants DEF Running, Shape
<1>. QED
  BY <1>1, <1>2, NothingStarts

\* A starter starts its display and is none any more.
LEMMA OneStarts ==
    ASSUME Shape, OneDisplay, StarterOK, NEW x \in Starters, DisplayStarts, overlap' = overlap,
           Starters' = Starters \ {x}
    PROVE  OneDisplay' /\ StarterOK'
<1>1. CASE overlap
  BY <1>1 DEF OneDisplay, StarterOK
<1>2. CASE ~overlap
  <2>1. Running = {} /\ \A y \in Starters : x = y
    BY <1>2 DEF StarterOK
  <2>2. Running' = {config} /\ displays'[config] = 1
    BY <2>1, Started
  <2>3. Starters' = {}
    BY <2>1
  <2>. QED
    BY <2>2, <2>3 DEF OneDisplay, StarterOK
<1>. QED
  BY <1>1, <1>2

\* Every step keeps the displays and those about to start one.
LEMMA DisplayStep ==
    Shape /\ OneDisplay /\ StarterOK /\ [Next]_vars => OneDisplay' /\ StarterOK'
<1>. SUFFICES ASSUME Shape, OneDisplay, StarterOK, [Next]_vars PROVE OneDisplay' /\ StarterOK'
  OBVIOUS
<1>. USE DEF files, panel, history, Fault
<1>a. ASSUME Shape', NoDisplays PROVE Running' = {}
  BY <1>a DEF NoDisplays, Running
<1>1. ASSUME NEW d \in Dogs, Boot(d) \/ Booted(d) PROVE OneDisplay' /\ StarterOK'
  <2>1. Starters' \subseteq Starters /\ UNCHANGED <<displays, overlap>>
    BY <1>1 DEF Boot, Booted, Starters, Shape
  <2>. QED
    BY <2>1, SameDisplays
<1>2. ASSUME NEW d \in Dogs, FirstCheck(d) \/ Wake(d) \/ KillWebs(d)
      PROVE  OneDisplay' /\ StarterOK'
  <2>0. UNCHANGED <<displays, overlap>>
    BY <1>2 DEF FirstCheck, Wake, KillWebs
  <2>1. \A j \in Jobs : at'[j] = at[j] \/ at'[j] = "idle"
    BY <1>2, KilledJobs DEF FirstCheck, Wake, KillWebs
  <2>2. \A e \in Dogs : dog'[e] = "start" => dog[e] = "start"
    BY <1>2 DEF FirstCheck, Wake, KillWebs, Shape
  <2>3. Starters' \subseteq Starters
    BY <2>1, <2>2 DEF Starters, Jobs
  <2>. QED
    BY <2>0, <2>3, SameDisplays
<1>3. ASSUME NEW d \in Dogs, StartWeb(d) PROVE OneDisplay' /\ StarterOK'
  <2>1. Starters' \subseteq Starters /\ UNCHANGED <<displays, overlap>>
    BY <1>3 DEF StartWeb, WebStarts, Goto, Starters, Shape, Jobs
  <2>. QED
    BY <2>1, SameDisplays
<1>4. ASSUME NEW d \in Dogs, SeekDisplay(d) PROVE OneDisplay' /\ StarterOK'
  <2>1. CASE Running # {}
    <3>1. Starters' \subseteq Starters /\ UNCHANGED <<displays, overlap>>
      BY <1>4, <2>1 DEF SeekDisplay, Starters, Shape
    <3>. QED
      BY <3>1, SameDisplays
  <2>2. CASE Running = {}
    <3>1. Running' = {} /\ (overlap' = FALSE => \A x, y \in Starters' : x = y)
      BY <1>4, <2>2 DEF SeekDisplay, NotesOthers, Running
    <3>2. overlap' \in BOOLEAN
      BY <1>4, <2>2 DEF SeekDisplay, NotesOthers
    <3>. QED
      BY <3>1, <3>2 DEF OneDisplay, StarterOK
  <2>. QED
    BY <2>1, <2>2
<1>5. ASSUME NEW d \in Dogs, Revive(d) PROVE OneDisplay' /\ StarterOK'
  <2>1. d \in Starters /\ Starters' = Starters \ {d}
    BY <1>5, SupervisionConstants DEF Revive, Starters, Shape, Jobs
  <2>. QED
    BY <1>5, <2>1, OneStarts DEF Revive
<1>6. ASSUME NEW j \in Jobs, WriteConfig(j) PROVE OneDisplay' /\ StarterOK'
  <2>1. Starters' \subseteq Starters /\ UNCHANGED <<displays, overlap>>
    BY <1>6, SupervisionConstants DEF WriteConfig, Goto, Starters, Shape, Jobs
  <2>. QED
    BY <2>1, SameDisplays
<1>7. ASSUME NEW j \in Jobs, KillDisplays(j) PROVE OneDisplay' /\ StarterOK'
  <2>1. Running' = {}
    BY <1>7, <1>a, ShapeStep DEF KillDisplays
  <2>2. overlap' = FALSE => \A x, y \in Starters' : x = y
    BY <1>7 DEF KillDisplays, NotesOthers
  <2>3. overlap' \in BOOLEAN
    BY <1>7 DEF KillDisplays, NotesOthers
  <2>. QED
    BY <2>1, <2>2, <2>3 DEF OneDisplay, StarterOK
<1>8. ASSUME NEW j \in Jobs, KillWeston(j) \/ Waited(j) \/ SwitchOn(j)
      PROVE  OneDisplay' /\ StarterOK'
  <2>1. Starters' \subseteq Starters /\ UNCHANGED <<displays, overlap>>
    BY <1>8, SupervisionConstants DEF KillWeston, Waited, SwitchOn, Goto, Starters, Shape, Jobs
  <2>. QED
    BY <2>1, SameDisplays
<1>9. ASSUME NEW j \in Jobs, StartDisplay(j) PROVE OneDisplay' /\ StarterOK'
  <2>1. j \in Starters /\ Starters' = Starters \ {j}
    BY <1>9, SupervisionConstants DEF StartDisplay, Goto, Starters, Shape, Jobs
  <2>. QED
    BY <1>9, <2>1, OneStarts DEF StartDisplay
<1>10. ASSUME NEW w \in Webs, Look(w) \/ Read(w) \/ Bind(w) PROVE OneDisplay' /\ StarterOK'
  <2>1. Starters' \subseteq Starters /\ UNCHANGED <<displays, overlap>>
    BY <1>10, SupervisionConstants DEF Look, Read, Bind, Goto, Starters, Shape, Jobs
  <2>. QED
    BY <2>1, SameDisplays
<1>11. ASSUME NEW r \in Requests, Connect(r) \/ WriteLast(r) \/ Answer(r) \/ Hangup(r)
       PROVE  OneDisplay' /\ StarterOK'
  <2>1. Starters' \subseteq Starters /\ UNCHANGED <<displays, overlap>>
    BY <1>11, SupervisionConstants
       DEF Connect, WriteLast, Answer, Hangup, Goto, Starters, Shape, Jobs
  <2>. QED
    BY <2>1, SameDisplays
<1>12. ASSUME NEW w \in Webs, WebDies(w) PROVE OneDisplay' /\ StarterOK'
  <2>1. \A j \in Jobs : at'[j] = at[j] \/ at'[j] = "idle"
    BY <1>12, KilledJobs DEF WebDies
  <2>2. Starters' \subseteq Starters /\ UNCHANGED <<displays, overlap>>
    BY <1>12, <2>1 DEF WebDies, Starters, Jobs
  <2>. QED
    BY <2>2, SameDisplays
<1>13. CASE Stop
  <2>1. \A j \in Jobs : at'[j] = at[j] \/ at'[j] = "idle"
    BY <1>13, KilledJobs DEF Stop
  <2>2. Starters' \subseteq Starters /\ overlap' = overlap
    BY <1>13, <2>1 DEF Stop, Starters, Jobs
  <2>3. Running' = {}
    BY <1>13, <1>a, ShapeStep DEF Stop
  <2>. QED
    BY <2>2, <2>3, NothingStarts
<1>14. ASSUME NEW u \in Urls \cup {NoUrl}, DisplayDies(u) PROVE OneDisplay' /\ StarterOK'
  <2>1. Starters' = Starters /\ overlap' = overlap
    BY <1>14 DEF DisplayDies, Starters
  <2>2. \A v \in Urls \cup {NoUrl} : displays[v] \in Nat /\ displays'[v] \in Nat
                                       /\ displays'[v] <= displays[v]
    BY <1>14, SupervisionConstants DEF DisplayDies, Shape
  <2>3. Running' \subseteq Running
    BY <2>2 DEF Running
  <2>4. \A v \in Running' : displays'[v] <= displays[v] /\ displays'[v] \in Nat \ {0}
    BY <2>2 DEF Running
  <2>. QED
    BY <2>1, <2>3, <2>4, NothingStarts
<1>15. CASE WestonGone \/ Desktop \/ Tick
  <2>1. Starters' = Starters /\ UNCHANGED <<displays, overlap>>
    BY <1>15 DEF WestonGone, Desktop, Tick, Starters
  <2>. QED
    BY <2>1, SameDisplays
<1>16. ASSUME UNCHANGED vars \/ \E s \in strays : StrayWrite(s) PROVE OneDisplay' /\ StarterOK'
  <2>1. Starters' = Starters /\ UNCHANGED <<displays, overlap>>
    BY <1>16 DEF vars, StrayWrite, Starters
  <2>. QED
    BY <2>1, SameDisplays
<1>. QED
  BY <1>1, <1>2, <1>3, <1>4, <1>5, <1>6, <1>7, <1>8, <1>9, <1>10, <1>11, <1>12, <1>13,
     <1>14, <1>15, <1>16 DEF Next, DogStep, WebStep, RequestStep, JobStep

-----------------------------------------------------------------------------
(* The files.                                                              *)

\* Every step keeps the two files in step.
LEMMA FilesStep ==
    Shape /\ FilesAgree /\ WriterOK /\ [Next]_vars => FilesAgree' /\ WriterOK'
<1>. SUFFICES ASSUME Shape, FilesAgree, WriterOK, [Next]_vars PROVE FilesAgree' /\ WriterOK'
  OBVIOUS
<1>. USE DEF files, panel, history, Fault
<1>0. ASSUME UNCHANGED <<config, last, strays, parted>>,
             \A j \in Jobs : at[j] = "last" => at'[j] = "last",
             \A j \in Jobs : at'[j] \in {"config", "last"} => at'[j] = at[j] /\ url'[j] = url[j]
      PROVE  FilesAgree' /\ WriterOK'
  BY <1>0 DEF FilesAgree, WriterOK, Jobs
<1>1. ASSUME NEW W \in SUBSET Webs, Killed(W) PROVE FilesAgree' /\ WriterOK'
  <2>1. CASE parted' = FALSE
    <3>1. parted = FALSE /\ UNCHANGED <<config, last, strays>>
          /\ \A j \in Jobs : at[j] = "last" => at'[j] = "last"
      BY <1>1, <2>1, KilledJobs
    <3>2. \A j \in Jobs : (at'[j] = at[j] /\ url'[j] = url[j]) \/ at'[j] = "idle"
      BY <1>1, KilledJobs
    <3>. QED
      BY <2>1, <3>1, <3>2, <1>0
  <2>2. CASE parted' = TRUE
    BY <2>2 DEF FilesAgree, WriterOK
  <2>. QED
    BY <1>1, <2>1, <2>2, KilledJobs
<1>2. ASSUME NEW j \in Jobs, WriteConfig(j) PROVE FilesAgree' /\ WriterOK'
  <2>1. CASE parted'
    BY <2>1 DEF FilesAgree, WriterOK
  <2>2. CASE ~parted'
    <3>0. WritesAlone(j) /\ (parted => j \in Requests)
      BY <1>2, <2>2 DEF WriteConfig
    <3>1. /\ config' = url[j] /\ last' = last /\ url'[j] = url[j] /\ strays' = strays
          /\ at'[j] = (IF j \in Requests THEN "last" ELSE "weston")
          /\ \A i \in Jobs \ {j} : at'[i] = at[i]
          /\ at[j] = "config"
      BY <1>2 DEF WriteConfig, Goto, Shape
    <3>2. strays = {} /\ \A i \in Jobs \ {j} : at[i] \notin {"config", "last"}
      BY <3>0 DEF Writers, WritesAlone
    <3>3. CASE j \in Requests
      <4>1. j \notin Webs
        BY <3>3, SupervisionConstants
      <4>. QED
        BY <3>1, <3>2, <3>3, <4>1 DEF FilesAgree, WriterOK, Jobs
    <3>4. CASE j \notin Requests
      <4>1. url[j] = last
        BY <3>0, <3>1, <3>4 DEF WriterOK, Jobs
      <4>. QED
        BY <3>1, <3>2, <3>4, <4>1 DEF FilesAgree, WriterOK, Jobs
    <3>. QED
      BY <3>3, <3>4
  <2>. QED
    BY <2>1, <2>2
<1>3. ASSUME NEW r \in Requests, WriteLast(r) PROVE FilesAgree' /\ WriterOK'
  <2>1. CASE parted \/ ~WritesAlone(r)
    BY <1>3, <2>1 DEF WriteLast, FilesAgree, WriterOK
  <2>2. CASE ~parted /\ WritesAlone(r)
    <3>1. /\ config' = config /\ last' = url[r] /\ strays' = strays /\ at[r] = "last" /\ at'[r] = "kill"
          /\ \A i \in Jobs \ {r} : at'[i] = at[i]
      BY <1>3 DEF WriteLast, Goto, Shape, Jobs
    <3>2. strays = {} /\ \A i \in Jobs \ {r} : at[i] \notin {"config", "last"}
      BY <2>2 DEF Writers, WritesAlone
    <3>3. url[r] = config
      BY <2>2, <3>1 DEF WriterOK
    <3>. QED
      BY <3>1, <3>2, <3>3 DEF FilesAgree, WriterOK, Jobs
  <2>. QED
    BY <2>1, <2>2
<1>4. ASSUME NEW w \in Webs, Read(w) PROVE FilesAgree' /\ WriterOK'
  <2>1. /\ at'[w] \in {"bind", "config"} /\ at[w] = "read"
        /\ at'[w] = "config" => url'[w] = last
        /\ \A j \in Jobs \ {w} : at'[j] = at[j] /\ url'[j] = url[j]
        /\ UNCHANGED <<config, last, strays, parted>> /\ w \notin Requests
    BY <1>4, SupervisionConstants DEF Read, Shape, Jobs
  <2>. QED
    BY <2>1 DEF FilesAgree, WriterOK, Jobs
<1>5. ASSUME NEW r \in Requests, Connect(r) PROVE FilesAgree' /\ WriterOK'
  <2>1. /\ at'[r] = "config" /\ at[r] = "idle"
        /\ \A j \in Jobs \ {r} : at'[j] = at[j] /\ url'[j] = url[j]
        /\ UNCHANGED <<config, last, strays, parted>> /\ r \notin Webs
    BY <1>5, SupervisionConstants DEF Connect, Shape, Jobs
  <2>. QED
    BY <2>1 DEF FilesAgree, WriterOK, Jobs
<1>6. ASSUME NEW r \in Requests, Hangup(r) PROVE FilesAgree' /\ WriterOK'
  <2>1. CASE parted'
    BY <2>1 DEF FilesAgree, WriterOK
  <2>2. CASE ~parted'
    <3>1. /\ ~parted /\ at[r] # "config" /\ UNCHANGED <<config, last>>
          /\ at'[r] = "idle" /\ r \notin Webs
          /\ \A j \in Jobs \ {r} : at'[j] = at[j] /\ url'[j] = url[j]
      BY <1>6, <2>2, SupervisionConstants DEF Hangup, Goto, Shape, Jobs
    <3>2. CASE at[r] = "last"
      <4>1. [file |-> "last", url |-> url[r]] \in strays'
        BY <1>6, <3>2 DEF Hangup
      <4>2. FilesAgree'
        BY <4>1 DEF FilesAgree
      <4>3. url[r] = config
        BY <3>1, <3>2 DEF WriterOK
      <4>4. \A s \in strays' : s \in strays \/ (s.file = "last" /\ s.url = url[r])
        BY <1>6, <3>2 DEF Hangup
      <4>. QED
        BY <3>1, <4>2, <4>3, <4>4 DEF WriterOK, Jobs
    <3>3. CASE at[r] # "last"
      <4>1. strays' = strays
        BY <1>6, <3>1, <3>3 DEF Hangup
      <4>2. parted' = parted
        BY <1>6, <3>1 DEF Hangup, Shape
      <4>3. \A j \in Jobs : at[j] = "last" => at'[j] = "last"
        BY <3>1, <3>3
      <4>4. \A j \in Jobs : at'[j] \in {"config", "last"} => at'[j] = at[j] /\ url'[j] = url[j]
        BY <3>1
      <4>. QED
        BY <1>0, <3>1, <4>1, <4>2, <4>3, <4>4
    <3>. QED
      BY <3>2, <3>3
  <2>. QED
    BY <2>1, <2>2
<1>7. ASSUME NEW j \in Jobs,
             KillDisplays(j) \/ KillWeston(j) \/ Waited(j) \/ SwitchOn(j) \/ StartDisplay(j)
      PROVE  FilesAgree' /\ WriterOK'
  <2>1. /\ \A i \in Jobs \ {j} : at'[i] = at[i] /\ url'[i] = url[i]
        /\ at[j] # "last" /\ at'[j] \notin {"config", "last"}
        /\ UNCHANGED <<config, last, strays, parted>>
    BY <1>7 DEF KillDisplays, KillWeston, Waited, SwitchOn, StartDisplay, Goto, Shape
  <2>. QED
    BY <1>0, <2>1
<1>8. ASSUME NEW j \in Jobs,
             (j \in Webs /\ (Look(j) \/ Bind(j))) \/ (j \in Requests /\ Answer(j))
      PROVE  FilesAgree' /\ WriterOK'
  <2>1. /\ \A i \in Jobs \ {j} : at'[i] = at[i] /\ url'[i] = url[i]
        /\ at[j] # "last" /\ at'[j] \notin {"config", "last"}
        /\ UNCHANGED <<config, last, strays, parted>>
    BY <1>8 DEF Look, Bind, Answer, Goto, Shape
  <2>. QED
    BY <1>0, <2>1
<1>9. ASSUME NEW d \in Dogs, StartWeb(d) PROVE FilesAgree' /\ WriterOK'
  <2>1. PICK w \in Webs : at[w] = "idle" /\ Goto(w, "look")
    BY <1>9 DEF StartWeb, WebStarts
  <2>2. /\ \A i \in Jobs \ {w} : at'[i] = at[i] /\ url'[i] = url[i]
        /\ at'[w] = "look"
        /\ UNCHANGED <<config, last, strays, parted>>
    BY <1>9, <2>1 DEF StartWeb, Goto, Shape, Jobs
  <2>. QED
    BY <1>0, <2>1, <2>2
<1>10. CASE UNCHANGED <<at, url, config, last, strays, parted>>
  BY <1>0, <1>10
<1>11. ASSUME NEW s \in strays, StrayWrite(s) PROVE FilesAgree' /\ WriterOK'
  <2>1. CASE parted'
    BY <2>1 DEF FilesAgree, WriterOK
  <2>2. CASE ~parted'
    <3>1. ~parted /\ Writers = {} /\ strays = {s} /\ UNCHANGED <<at, url>>
      BY <1>11, <2>2 DEF StrayWrite
    <3>2. s.file = "last" /\ s.url = config
      BY <3>1 DEF WriterOK
    <3>3. config' = config /\ last' = config /\ strays' = {}
      BY <1>11, <3>1, <3>2 DEF StrayWrite
    <3>4. \A j \in Jobs : at'[j] \notin {"config", "last"}
      BY <3>1 DEF Writers
    <3>. QED
      BY <3>3, <3>4 DEF FilesAgree, WriterOK, Jobs
  <2>. QED
    BY <2>1, <2>2
<1>. QED
  BY <1>1, <1>2, <1>3, <1>4, <1>5, <1>6, <1>7, <1>8, <1>9, <1>10, <1>11
     DEF Next, DogStep, WebStep, RequestStep, JobStep, vars, Jobs, Boot, Booted, FirstCheck,
         Wake, KillWebs, SeekDisplay, Revive, WebDies, Stop, DisplayDies, WestonGone, Desktop, Tick

-----------------------------------------------------------------------------
(* The backlight.                                                          *)

\* A step that leaves weston and the backlight alone, and takes nobody off
\* the way to the switch, disturbs neither.
LEMMA StillPending ==
    ASSUME LitAtLast, WestonOK, UNCHANGED <<weston, light>>,
           unlit' \in BOOLEAN, unlit => unlit',
           ~unlit' => /\ \A j \in Jobs : Relights(j) => at'[j] = at[j]
                      /\ \A d \in Dogs : dog[d] = "boot" => dog'[d] = "boot"
    PROVE  LitAtLast' /\ WestonOK'
<1>1. CASE unlit'
  BY <1>1 DEF LitAtLast, WestonOK
<1>2. CASE ~unlit'
  <2>1. ~unlit
    BY <1>2
  <2>2. LitAtLast'
    <3>1. CASE light
      BY <3>1 DEF LitAtLast
    <3>2. CASE \E j \in Jobs : Relights(j)
      BY <1>2, <3>2 DEF LitAtLast, Relights
    <3>3. CASE \E d \in Dogs : dog[d] = "boot"
      BY <1>2, <3>3 DEF LitAtLast
    <3>. QED
      BY <2>1, <3>1, <3>2, <3>3 DEF LitAtLast
  <2>3. Pending => Pending'
    BY <1>2 DEF Pending, Relights
  <2>. QED
    BY <2>1, <2>2, <2>3 DEF WestonOK
<1>. QED
  BY <1>1, <1>2

\* Every step keeps the light and those who wait for weston.
LEMMA LightStep ==
    Shape /\ LitAtLast /\ WestonOK /\ [Next]_vars => LitAtLast' /\ WestonOK'
<1>. SUFFICES ASSUME Shape, LitAtLast, WestonOK, [Next]_vars PROVE LitAtLast' /\ WestonOK'
  OBVIOUS
<1>. USE DEF files, panel, history, Fault
<1>1. ASSUME NEW d \in Dogs, Boot(d) PROVE LitAtLast' /\ WestonOK'
  <2>1. dog'[d] = "boot"
    BY <1>1 DEF Boot, Shape
  <2>. QED
    BY <2>1 DEF LitAtLast, WestonOK, Pending
<1>2. ASSUME NEW d \in Dogs, Booted(d) PROVE LitAtLast' /\ WestonOK'
  <2>1. light' = TRUE /\ weston' = weston /\ (weston' = "ends" => unlit')
    BY <1>2 DEF Booted
  <2>. QED
    BY <2>1 DEF LitAtLast, WestonOK
<1>3. ASSUME NEW W \in SUBSET Webs, Killed(W), UNCHANGED <<weston, light>>,
             \A d \in Dogs : dog[d] = "boot" => dog'[d] = "boot"
      PROVE  LitAtLast' /\ WestonOK'
  <2>1. unlit' \in BOOLEAN /\ (unlit => unlit')
    BY <1>3, KilledJobs DEF Shape
  <2>2. ~unlit' => \A j \in Jobs : Relights(j) => at'[j] = at[j]
    BY <1>3, KilledJobs
  <2>. QED
    BY <1>3, <2>1, <2>2, StillPending
<1>4. ASSUME NEW d \in Dogs, FirstCheck(d) \/ Wake(d) \/ KillWebs(d)
      PROVE  LitAtLast' /\ WestonOK'
  <2>1. UNCHANGED <<weston, light>> /\ \A e \in Dogs : dog[e] = "boot" => dog'[e] = "boot"
    BY <1>4 DEF FirstCheck, Wake, KillWebs, Shape
  <2>2. CASE KillWebs(d)
    BY <1>3, <2>1, <2>2 DEF KillWebs
  <2>3. CASE UNCHANGED <<at, unlit>>
    BY <2>1, <2>3, StillPending DEF Shape
  <2>. QED
    BY <1>4, <2>2, <2>3 DEF FirstCheck, Wake
<1>5. ASSUME NEW d \in Dogs, StartWeb(d) \/ SeekDisplay(d) \/ Revive(d)
      PROVE  LitAtLast' /\ WestonOK'
  <2>1. UNCHANGED <<weston, light, unlit>>
        /\ \A e \in Dogs : dog[e] = "boot" => dog'[e] = "boot"
    BY <1>5 DEF StartWeb, SeekDisplay, Revive, Shape
  <2>2. \A j \in Jobs : at[j] # "idle" => at'[j] = at[j]
    BY <1>5 DEF StartWeb, SeekDisplay, Revive, WebStarts, Goto, Shape, Jobs
  <2>. QED
    BY <2>1, <2>2, StillPending DEF Shape, Relights
<1>6. ASSUME NEW j \in Jobs, KillWeston(j) \/ Waited(j) PROVE LitAtLast' /\ WestonOK'
  <2>1. CASE KillWeston(j)
    <3>1. at'[j] = "wait"
      BY <1>6, <2>1 DEF KillWeston, Goto, Shape
    <3>. QED
      BY <3>1 DEF LitAtLast, WestonOK, Pending, Relights
  <2>2. CASE Waited(j)
    <3>1. weston' = weston /\ (weston' = "gone" \/ unlit')
      BY <2>2 DEF Waited, Shape
    <3>2. IF j \in Requests THEN at'[j] = "light" ELSE j \in Webs /\ at'[j] = "kill"
      BY <2>2 DEF Waited, Goto, Shape, Jobs
    <3>3. LitAtLast'
      BY <3>2 DEF LitAtLast, Relights
    <3>. QED
      BY <3>1, <3>3 DEF WestonOK
  <2>. QED
    BY <1>6, <2>1, <2>2
<1>7. ASSUME NEW j \in Jobs, SwitchOn(j) PROVE LitAtLast' /\ WestonOK'
  <2>1. light' = TRUE /\ UNCHANGED <<dog, weston, unlit>>
        /\ \A i \in Jobs : at[i] = "wait" => at'[i] = "wait"
    BY <1>7 DEF SwitchOn, Goto, Shape
  <2>. QED
    BY <2>1 DEF LitAtLast, WestonOK, Pending
<1>8. ASSUME NEW j \in Jobs,
             \/ WriteConfig(j) \/ StartDisplay(j)
             \/ j \in Webs /\ (Look(j) \/ Read(j) \/ Bind(j))
             \/ j \in Requests /\ (Connect(j) \/ WriteLast(j) \/ Answer(j))
      PROVE  LitAtLast' /\ WestonOK'
  <2>1. UNCHANGED <<dog, weston, light, unlit>>
        /\ \A i \in Jobs : Relights(i) => at'[i] = at[i]
    BY <1>8 DEF WriteConfig, StartDisplay, Look, Read, Bind, Connect, WriteLast, Answer, Goto,
                Shape, Relights
  <2>. QED
    BY <2>1, StillPending DEF Shape
<1>9. ASSUME NEW r \in Requests, Hangup(r) PROVE LitAtLast' /\ WestonOK'
  <2>1. UNCHANGED <<dog, weston, light>> /\ unlit' = (unlit \/ Relights(r))
        /\ \A i \in Jobs \ {r} : at'[i] = at[i]
    BY <1>9 DEF Hangup, Goto, Shape, Jobs
  <2>2. CASE Relights(r)
    BY <2>1, <2>2 DEF LitAtLast, WestonOK
  <2>3. CASE ~Relights(r)
    <3>1. unlit' = unlit /\ \A i \in Jobs : Relights(i) => at'[i] = at[i]
      BY <2>1, <2>3 DEF Shape
    <3>. QED
      BY <2>1, <3>1, StillPending DEF Shape
  <2>. QED
    BY <2>2, <2>3
<1>15. ASSUME NEW j \in Jobs, KillDisplays(j) PROVE LitAtLast' /\ WestonOK'
  <2>1. UNCHANGED <<dog, weston, light, unlit>> /\ at[j] = "kill"
        /\ at'[j] = (IF j \in Requests THEN "weston" ELSE "light")
        /\ \A i \in Jobs \ {j} : at'[i] = at[i]
    BY <1>15 DEF KillDisplays, Goto, Shape
  <2>2. CASE j \in Requests
    <3>1. j \notin Webs
      BY <2>2, SupervisionConstants
    <3>2. \A i \in Jobs : Relights(i) => at'[i] = at[i]
      BY <2>1, <3>1 DEF Relights
    <3>. QED
      BY <2>1, <3>2, StillPending DEF Shape
  <2>3. CASE j \notin Requests
    <3>1. LitAtLast'
      BY <2>1, <2>3 DEF LitAtLast, Relights
    <3>2. Pending => Pending'
      BY <2>1 DEF Pending
    <3>. QED
      BY <2>1, <3>1, <3>2 DEF WestonOK
  <2>. QED
    BY <2>2, <2>3
<1>10. CASE WestonGone
  <2>1. weston = "ends" /\ weston' = "gone" /\ UNCHANGED <<dog, at, unlit>>
    BY <1>10 DEF WestonGone
  <2>2. unlit' \/ Pending'
    BY <2>1 DEF WestonOK, Pending
  <2>3. LitAtLast'
    BY <2>2 DEF LitAtLast, Pending, Relights
  <2>. QED
    BY <2>1, <2>3 DEF WestonOK
<1>11. CASE Desktop
  <2>1. weston' = "runs" /\ UNCHANGED <<dog, at, light, unlit>>
    BY <1>11 DEF Desktop
  <2>. QED
    BY <2>1 DEF LitAtLast, WestonOK, Relights
<1>12. CASE UNCHANGED <<dog, at, weston, light, unlit>>
  BY <1>12 DEF LitAtLast, WestonOK, Pending, Relights
<1>13. ASSUME NEW w \in Webs, WebDies(w) PROVE LitAtLast' /\ WestonOK'
  BY <1>3, <1>13 DEF WebDies
<1>14. CASE Stop
  BY <1>3, <1>14 DEF Stop
<1>. QED
  BY <1>1, <1>2, <1>4, <1>5, <1>6, <1>7, <1>8, <1>9, <1>10, <1>11, <1>12, <1>13, <1>14, <1>15
     DEF Next, DogStep, WebStep, RequestStep, JobStep, vars, Jobs, StrayWrite, DisplayDies, Tick

-----------------------------------------------------------------------------
(* The port.                                                               *)

\* One web process at most has the port, and only while one has are requests
\* in progress, or writes they have left behind.
PortOK ==
    /\ \A v, w \in Serving : v = w
    /\ Serving = {} => strays = {} /\ \A r \in Requests : at[r] = "idle"

\* The rest of the shape: sleeps, waits and the count of faults.
WaitsOK ==
    /\ timer \in [Dogs -> 0 .. Period] /\ waited \in [Jobs -> BOOLEAN]
    /\ faults \in 0 .. MaxFaults

\* When web processes end and the one that has the port is among them, its
\* requests end with it.
LEMMA KilledPort ==
    ASSUME Shape, PortOK, NEW W \in SUBSET Webs, Killed(W)
    PROVE  PortOK'
<1>. DEFINE ended == W \cup (IF W \cap Serving # {} THEN Requests ELSE {})
<1>1. /\ at' = [j \in Jobs |-> IF j \in ended THEN "idle" ELSE at[j]]
      /\ strays' = IF W \cap Serving # {} THEN {} ELSE strays
      /\ Webs \subseteq Jobs /\ Requests \subseteq Jobs /\ Webs \cap Requests = {}
  BY SupervisionConstants DEF Killed, Jobs
<1>2. CASE W \cap Serving = {}
  <2>1. \A w \in Webs : at'[w] = (IF w \in W THEN "idle" ELSE at[w])
    BY <1>1, <1>2
  <2>2. Serving' = Serving
    BY <1>2, <2>1 DEF Serving
  <2>3. \A r \in Requests : at'[r] = at[r]
    BY <1>1, <1>2
  <2>. QED
    BY <1>1, <1>2, <2>2, <2>3 DEF PortOK
<1>3. CASE W \cap Serving # {}
  <2>1. \A r \in Requests : at'[r] = "idle"
    BY <1>1, <1>3
  <2>2. Serving' \subseteq Serving
    BY <1>1 DEF Serving
  <2>. QED
    BY <1>1, <1>3, <2>1, <2>2 DEF PortOK
<1>. QED
  BY <1>2, <1>3

\* Nobody takes the port or gives it up when a job that has not got it goes on
\* to a step that is not serving.
LEMMA SamePort ==
    ASSUME Shape, PortOK, NEW j \in Jobs, NEW s \in JobSteps \ {"serve"},
           at[j] # "serve", at' = [at EXCEPT ![j] = s], strays' = strays \/ Serving # {},
           j \in Requests => at[j] # "idle" \/ s = "idle" \/ Serving # {}
    PROVE  PortOK'
<1>1. Webs \subseteq Jobs /\ Requests \subseteq Jobs /\ at \in [Jobs -> JobSteps]
  BY DEF Jobs, Shape
<1>2. at'[j] = s /\ \A i \in Jobs \ {j} : at'[i] = at[i]
  BY <1>1
<1>3. Serving' = Serving
  BY <1>1, <1>2 DEF Serving
<1>. QED
  BY <1>1, <1>2, <1>3 DEF PortOK

\* Every step keeps the port: it is bound only when nobody has it.
LEMMA PortStep ==
    Shape /\ PortOK /\ [Next]_vars => PortOK'
<1>. SUFFICES ASSUME Shape, PortOK, [Next]_vars PROVE PortOK'
  OBVIOUS
<1>. USE DEF files, panel, history, Fault
<1>1. CASE at' = at /\ strays' \subseteq strays
  BY <1>1 DEF PortOK, Serving
<1>2. ASSUME NEW W \in SUBSET Webs, Killed(W) PROVE PortOK'
  BY <1>2, KilledPort
<1>3. ASSUME NEW d \in Dogs, StartWeb(d) PROVE PortOK'
  <2>1. PICK w \in Webs : at[w] = "idle" /\ at' = [at EXCEPT ![w] = "look"] /\ strays' = strays
    BY <1>3 DEF StartWeb, WebStarts, Goto
  <2>. QED
    BY <2>1, SamePort, SupervisionConstants DEF Jobs, JobSteps
<1>4. ASSUME NEW j \in Jobs, JobStep(j) PROVE PortOK'
  <2>1. PICK s \in {"last", "weston", "wait", "light", "start", "kill", "rest", "bind"} :
            at' = [at EXCEPT ![j] = s] /\ strays' = strays
    BY <1>4 DEF JobStep, WriteConfig, KillDisplays, KillWeston, Waited, SwitchOn, StartDisplay, Goto
  <2>2. at[j] \in {"config", "kill", "weston", "wait", "light", "start"}
    BY <1>4 DEF JobStep, WriteConfig, KillDisplays, KillWeston, Waited, SwitchOn, StartDisplay
  <2>. QED
    BY <2>1, <2>2, SamePort DEF JobSteps
<1>5. ASSUME NEW w \in Webs, Look(w) \/ Read(w) PROVE PortOK'
  <2>1. at[w] \in {"look", "read"} /\ strays' = strays
        /\ \E s \in {"bind", "read", "config"} : at' = [at EXCEPT ![w] = s]
    BY <1>5 DEF Look, Read, Goto
  <2>. QED
    BY <2>1, SamePort DEF Jobs, JobSteps
<1>6. ASSUME NEW w \in Webs, Bind(w) PROVE PortOK'
  <2>1. CASE Serving = {}
    <3>1. at' = [at EXCEPT ![w] = "serve"] /\ at \in [Jobs -> JobSteps]
      BY <1>6, <2>1 DEF Bind, Goto, Shape
    <3>2. Serving' = {w}
      BY <2>1, <3>1 DEF Serving, Jobs
    <3>. QED
      BY <3>2 DEF PortOK
  <2>2. CASE Serving # {}
    <3>1. at[w] = "bind" /\ at' = [at EXCEPT ![w] = "idle"] /\ strays' = strays
      BY <1>6, <2>2 DEF Bind, Goto
    <3>. QED
      BY <3>1, SamePort DEF Jobs, JobSteps
  <2>. QED
    BY <2>1, <2>2
<1>7. ASSUME NEW r \in Requests, Connect(r) \/ RequestStep(r) \/ Hangup(r) PROVE PortOK'
  <2>1. PICK s \in {"config", "kill", "idle"} :
            at' = [at EXCEPT ![r] = s] /\ Serving # {}
    BY <1>7 DEF Connect, RequestStep, WriteLast, Answer, Hangup, Goto, PortOK
  <2>2. CASE at[r] # "serve"
    BY <2>1, <2>2, SamePort DEF Jobs, JobSteps
  <2>3. CASE at[r] = "serve"
    <3>1. r \notin Webs /\ at' \in [Jobs -> JobSteps] /\ \A i \in Jobs \ {r} : at'[i] = at[i]
      BY <2>1, SupervisionConstants DEF Shape, Jobs, JobSteps
    <3>2. Serving' = Serving
      BY <3>1 DEF Serving, Jobs
    <3>. QED
      BY <2>1, <2>3, <3>1, <3>2 DEF PortOK, Jobs
  <2>. QED
    BY <2>2, <2>3
<1>8. ASSUME NEW d \in Dogs, Boot(d) \/ DogStep(d) PROVE PortOK'
  <2>1. CASE KillWebs(d)
    BY <1>2, <2>1 DEF KillWebs
  <2>. QED
    BY <1>1, <1>3, <1>8, <2>1
       DEF Boot, DogStep, Booted, FirstCheck, Wake, SeekDisplay, Revive
<1>9. ASSUME NEW w \in Webs, WebDies(w) PROVE PortOK'
  BY <1>2, <1>9 DEF WebDies
<1>10. CASE Stop
  BY <1>2, <1>10 DEF Stop
<1>. QED
  BY <1>1, <1>4, <1>5, <1>6, <1>7, <1>8, <1>9, <1>10
     DEF Next, WebStep, StrayWrite, DisplayDies, WestonGone, Desktop, Tick, vars

\* Every step keeps sleeps within Period, and faults within their number.
LEMMA WaitsStep ==
    Shape /\ WaitsOK /\ [Next]_vars => WaitsOK'
<1>. SUFFICES ASSUME Shape, WaitsOK, [Next]_vars PROVE WaitsOK'
  OBVIOUS
<1>. USE DEF files, panel, history
<1>1. Period \in Nat \ {0} /\ MaxFaults \in Nat
  BY SupervisionConstants
<1>2. ASSUME NEW d \in Dogs, Boot(d) \/ DogStep(d) PROVE timer' \in [Dogs -> 0 .. Period]
  <2>1. \/ timer' = timer
        \/ \E n \in {0, 1, Period} : timer' = [timer EXCEPT ![d] = n]
    <3>1. CASE Boot(d) \/ Booted(d)
      BY <3>1 DEF Boot, Booted
    <3>2. CASE FirstCheck(d) \/ Wake(d) \/ KillWebs(d) \/ StartWeb(d)
      BY <3>2 DEF FirstCheck, Wake, KillWebs, StartWeb
    <3>3. CASE SeekDisplay(d) \/ Revive(d)
      BY <3>3 DEF SeekDisplay, Revive
    <3>. QED
      BY <1>2, <3>1, <3>2, <3>3 DEF DogStep
  <2>2. {0, 1, Period} \subseteq 0 .. Period
    BY <1>1
  <2>. QED
    BY <2>1, <2>2 DEF WaitsOK
<1>3. CASE Tick
  BY <1>1, <1>3 DEF Tick, WaitsOK
<1>4. timer' \in [Dogs -> 0 .. Period]
  <2>1. CASE UNCHANGED timer
    BY <2>1 DEF WaitsOK
  <2>. QED
    BY <1>2, <1>3, <2>1
       DEF Next, WaitsOK, WebStep, Look, Read, Bind, WebDies, Connect, RequestStep, WriteLast,
           Answer, Hangup, JobStep, WriteConfig, KillDisplays, KillWeston, Waited, SwitchOn,
           StartDisplay, StrayWrite, DisplayDies, WestonGone, Desktop, Stop, vars
<1>5. waited' \in [Jobs -> BOOLEAN]
  <2>1. CASE UNCHANGED waited
    BY <2>1 DEF WaitsOK
  <2>2. ASSUME NEW j, NEW s, Goto(j, s) PROVE waited' \in [Jobs -> BOOLEAN]
    BY <2>2 DEF Goto, WaitsOK
  <2>3. ASSUME NEW W, Killed(W) PROVE waited' \in [Jobs -> BOOLEAN]
    <3>1. \E E : waited' = [j \in Jobs |-> j \notin E /\ waited[j]]
      BY <2>3 DEF Killed
    <3>. QED
      BY <3>1, Zenon
  <2>4. ASSUME NEW d \in Dogs, Boot(d) \/ DogStep(d) PROVE waited' \in [Jobs -> BOOLEAN]
    BY <2>1, <2>2, <2>3, <2>4
       DEF Boot, DogStep, Booted, FirstCheck, Wake, KillWebs, StartWeb, WebStarts, SeekDisplay,
           Revive
  <2>5. ASSUME NEW j \in Jobs, JobStep(j) PROVE waited' \in [Jobs -> BOOLEAN]
    BY <2>2, <2>5
       DEF JobStep, WriteConfig, KillDisplays, KillWeston, Waited, SwitchOn, StartDisplay
  <2>6. ASSUME NEW w \in Webs, WebStep(w) \/ WebDies(w) PROVE waited' \in [Jobs -> BOOLEAN]
    BY <2>1, <2>2, <2>3, <2>6 DEF WebStep, Look, Read, Bind, WebDies
  <2>7. ASSUME NEW r \in Requests, Connect(r) \/ RequestStep(r) \/ Hangup(r)
        PROVE  waited' \in [Jobs -> BOOLEAN]
    BY <2>1, <2>2, <2>7 DEF Connect, RequestStep, WriteLast, Answer, Hangup
  <2>8. CASE Stop
    BY <2>3, <2>8 DEF Stop
  <2>. QED
    BY <1>3, <2>1, <2>4, <2>5, <2>6, <2>7, <2>8
       DEF Next, WaitsOK, StrayWrite, DisplayDies, WestonGone, Desktop, Tick, vars
<1>6. faults' \in 0 .. MaxFaults
  <2>1. CASE UNCHANGED faults
    BY <2>1 DEF WaitsOK
  <2>2. CASE Fault
    BY <1>1, <2>2 DEF Fault, WaitsOK
  <2>. QED
    BY <2>1, <2>2
       DEF Next, Boot, DogStep, Booted, FirstCheck, Wake, KillWebs, StartWeb, SeekDisplay, Revive,
           WebStep, Look, Read, Bind, WebDies, Connect, RequestStep, WriteLast, Answer, Hangup,
           JobStep, WriteConfig, KillDisplays, KillWeston, Waited, SwitchOn, StartDisplay,
           StrayWrite, DisplayDies, WestonGone, Desktop, Tick, Stop, vars
<1>. QED
  BY <1>4, <1>5, <1>6 DEF WaitsOK

-----------------------------------------------------------------------------
(* The theorems.                                                           *)

\* The initial states satisfy the invariant.
LEMMA InitIInv ==
    Init => IInv
<1>. SUFFICES ASSUME Init PROVE IInv
  OBVIOUS
<1>1. Shape
  <2>1. 0 \in 0 .. MaxDisplays
    BY SupervisionConstants
  <2>. QED
    BY <2>1 DEF Init, Shape, DogSteps, JobSteps
<1>2. Running = {} /\ Starters = {}
  BY SupervisionConstants DEF Init, Running, Starters, Jobs
<1>3. OneDisplay /\ StarterOK
  BY <1>2 DEF OneDisplay, StarterOK
<1>4. FilesAgree /\ WriterOK /\ LitAtLast /\ WestonOK
  BY DEF Init, FilesAgree, WriterOK, LitAtLast, WestonOK, Jobs
<1>. QED
  BY <1>1, <1>3, <1>4 DEF IInv

\* Every reachable state satisfies the inductive invariant: what starters,
\* writers and those who wait for weston know at each of their steps.
THEOREM Invariance == Spec => []IInv
<1>1. IInv /\ [Next]_vars => IInv'
  BY ShapeStep, DisplayStep, FilesStep, LightStep DEF IInv
<1>. QED
  BY InitIInv, <1>1, PTL DEF Spec

\* Two displays run at once only if two starters met since all were killed
\* (S99camera's watchdog, handle_connect, auto_recover).
THEOREM DisplaysAlone == Spec => []OneDisplay
<1>1. IInv => OneDisplay
  BY DEF IInv
<1>. QED
  BY <1>1, Invariance, PTL

\* config.ini and last_connect.json name the same camera after a connect that
\* wrote both alone, until one meets another writer or is cut short.
THEOREM FilesInStep == Spec => []FilesAgree
<1>1. IInv => FilesAgree
  BY DEF IInv
<1>. QED
  BY <1>1, Invariance, PTL

\* The backlight weston switches off is switched on again by whoever ended
\* weston, unless the wait was over too soon or was cut short.
THEOREM BacklightOn == Spec => []LitAtLast
<1>1. IInv => LitAtLast
  BY DEF IInv
<1>. QED
  BY <1>1, Invariance, PTL

\* At most one web process has the port, whoever starts and kills them, and
\* no connect request outlives the process that serves it (start_web, main's
\* bind); the state keeps its shape.
THEOREM TypeCorrect == Spec => []TypeOK
<1>1. Init => PortOK /\ WaitsOK
  BY SupervisionConstants DEF Init, PortOK, WaitsOK, Serving, Jobs
<1>2. IInv => Shape
  BY DEF IInv
<1>3. IInv /\ PortOK /\ WaitsOK /\ [Next]_vars => PortOK' /\ WaitsOK'
  BY <1>2, PortStep, WaitsStep
<1>4. IInv /\ PortOK /\ WaitsOK => TypeOK
  BY <1>2 DEF Shape, PortOK, WaitsOK, TypeOK
<1>. QED
  BY <1>1, <1>3, <1>4, Invariance, PTL DEF Spec
=============================================================================
