------------------------------ MODULE MCOnvif ------------------------------
(* The requests that touch the preset table; "P" begins the other tokens.  *)
EXTENDS Onvif

MCTokens == {"", "P", "P1", "P2"}
MCBegins == {<<"P", "P1">>, <<"P", "P2">>} \cup {<<t, t>> : t \in MCTokens}
            \cup {<<"", t>> : t \in MCTokens}

R(o, t, n, a) == [op |-> o, token |-> t, name |-> n, auth |-> a]
MCRequests ==
    {R("set", t, n, FALSE) : t \in MCTokens, n \in Names}
    \cup {R("remove", t, 0, FALSE) : t \in {"", "P1"}}
    \cup {R(o, "", 0, FALSE) : o \in {"list", "preview", "inquiry"}}

=============================================================================
