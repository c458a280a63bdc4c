----------------------------- MODULE PresetBook -----------------------------
(***************************************************************************)
(* What the camera's preset table promises to those who set, list and      *)
(* remove presets: a book of at most MaxPresets pages, in which no token   *)
(* has two pages, and in which one request writes, rewrites or tears out   *)
(* one page.  Which page a token names is weaker than a reader of the      *)
(* requests would expect: a page whose token merely begins with it will do.*)
(***************************************************************************)
EXTENDS FiniteSets, Naturals

CONSTANTS Tokens, NoToken, Begins, Names, MaxPresets

VARIABLE book      \* the pages: a token and the name given to it

Page == [token : Tokens, name : Names]

\* The pages a request for token t may mean.
Meant(t) == {p \in book : <<t, p.token>> \in Begins}

Init == book = {}

Write(t, n) ==
    LET page == [token |-> t, name |-> n] IN
    /\ t # NoToken
    /\ \/ \E p \in Meant(t) : book' = (book \ {p}) \cup {page}
       \/ Meant(t) = {} /\ Cardinality(book) < MaxPresets /\ book' = book \cup {page}

TearOut(t) == \E p \in Meant(t) : book' = book \ {p}

Next ==
    \/ \E t \in Tokens, n \in Names : Write(t, n)
    \/ \E t \in Tokens : TearOut(t)

Spec == Init /\ [][Next]_book
=============================================================================
