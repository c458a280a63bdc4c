---------------------------- MODULE MCPtzScreen ----------------------------
(* One connection at a time, and one request for each kind of command; the *)
(* display cannot read the token "door of the yard" back, nor an empty one.*)
EXTENDS PtzScreen

MCTokens == {"", "P1", "door of the yard"}
MCBegins == {<<t, t>> : t \in MCTokens} \cup {<<"", t>> : t \in MCTokens}

R(o, t, a) == [op |-> o, token |-> t, name |-> 0, auth |-> a]
MCRequests ==
    {R(o, "", FALSE) : o \in {"left", "right", "stop", "goto", "remove"}}
    \cup {R("set", "P1", FALSE), R("goto", "door of the yard", FALSE), R("imaging", "", TRUE)}
=============================================================================
