----------------------------- MODULE PtzScreen -----------------------------
(***************************************************************************)
(* The camera's ONVIF service together with the display process that shows *)
(* on the screen, for a while, the PTZ command the camera accepted last    *)
(* (main.c).  They share the file /tmp/ptz_dir and nothing else: the       *)
(* service empties and rewrites it, the display's streaming thread reads   *)
(* it with every few frames, whenever those come.                          *)
(***************************************************************************)
EXTENDS Onvif

CONSTANTS
    Readable,   \* the tokens fscanf's %15s gives back whole
    Hold,       \* how long a command is shown (3 s)
    Every       \* the file is read with every so many frames (5)

ASSUME ScreenConstants ==
    Readable \subseteq (Tokens \ {NoToken}) \cup {"?"} /\ Hold \in Nat \ {0} /\ Every \in Nat \ {0}

VARIABLES
    frame,      \* frame_count modulo Every
    side,       \* ptz_left: the way of the arrow
    label,      \* ptz_label: the preset command shown, or NoLabel
    left,       \* what is left of the time until ptz_until
    age,        \* how long ago the line in the file was stamped, up to Hold
    lag         \* frames since the file, or the display, last changed, up to Every

screen == <<frame, side, label, left>>
svars == <<vars, screen, age, lag>>

NoLabel == NoFile
Presets == [cmd : {"set", "goto", "remove"}, token : Tokens \cup {"?"}]

ScreenInit ==
    /\ Init
    /\ frame = 0 /\ side = "RIGHT" /\ label = NoLabel /\ left = 0
    /\ age = 0 /\ lag = 0

\* A line the display understands.
Whole(f) == f.cmd \in {"LEFT", "RIGHT", "STOP"} \/ (f \in Presets /\ f.token \in Readable)

\* What ends whatever is shown.  Of a line without a token the display takes
\* the mode for the token and a part of the stamp for the stamp, long past.
Ends(f) == f = NoFile \/ f.cmd = "STOP" \/ (f \in Presets /\ f.token = NoToken)

\* The bug: STOP leaves alone what is shown.
UpdateWithoutStop ==
    LET f == ptzDir IN
    [side |-> IF f.cmd \in {"LEFT", "RIGHT"} THEN f.cmd ELSE side,
     label |-> IF ~Whole(f) THEN label ELSE IF f \in Presets THEN f ELSE NoLabel,
     left |-> IF Ends(f) /\ f.cmd # "STOP" THEN 0
              ELSE IF Whole(f) /\ f.cmd # "STOP" THEN Hold - age ELSE left]

\* ptz_indicator_update: what is shown after a look at the file as it is now.
Update ==
    LET f == ptzDir IN
    [side |-> IF f.cmd \in {"LEFT", "RIGHT"} THEN f.cmd ELSE side,
     label |-> IF ~Whole(f) THEN label ELSE IF f \in Presets THEN f ELSE NoLabel,
     left |-> IF Ends(f) THEN 0 ELSE IF Whole(f) THEN Hold - age ELSE left]

\* What a frame draws: for the time that is left an arrow, or a label instead.
Drawn ==
    IF left = 0 THEN NoLabel
    ELSE IF label = NoLabel THEN [cmd |-> side, token |-> NoToken] ELSE label

Shown == [side |-> side, label |-> label, left |-> left]

\* A frame comes: with every few of them the file is looked at; a label is
\* forgotten once its time is over.
Frame ==
    LET s == IF frame = 0 THEN Update ELSE Shown IN
    /\ side' = s.side /\ left' = s.left
    /\ label' = IF s.left > 0 THEN s.label ELSE NoLabel
    /\ frame' = (frame + 1) % Every
    /\ lag' = IF lag = Every THEN Every ELSE lag + 1
    /\ UNCHANGED <<vars, age>>

\* The display process ends and is started again.
Restart ==
    /\ frame' = 0 /\ side' = "RIGHT" /\ label' = NoLabel /\ left' = 0
    /\ lag' = 0
    /\ UNCHANGED <<vars, age>>

\* Time passes, with or without frames.
Tick ==
    /\ age' = IF age = Hold THEN Hold ELSE age + 1
    /\ left' = IF left = 0 THEN 0 ELSE left - 1
    /\ UNCHANGED <<vars, frame, side, label, lag>>

\* The service and its clients; a line is stamped as it is written.
Camera ==
    /\ Next
    /\ IF ptzDir' = ptzDir /\ at # "write" THEN UNCHANGED <<age, lag>>
       ELSE age' = 0 /\ lag' = 0
    /\ UNCHANGED screen

ScreenNext == Frame \/ Restart \/ Tick \/ Camera
ScreenSpec == ScreenInit /\ [][ScreenNext]_svars

-----------------------------------------------------------------------------
(* Properties.                                                             *)

\* Once the display has had as many frames as lie between two looks, since
\* the last command was accepted or since it started, it draws that command
\* for the rest of its time and nothing older, whatever it found before: the
\* file empty under the writer's hands, or missing, or a token it cannot read.
ScreenFollowsFile ==
    lag = Every /\ (Whole(ptzDir) \/ Ends(ptzDir)) =>
        Drawn = IF Whole(ptzDir) /\ ~Ends(ptzDir) /\ age < Hold THEN ptzDir ELSE NoLabel
=============================================================================
