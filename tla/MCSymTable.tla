----------------------------- MODULE MCSymTable -----------------------------
(***************************************************************************)
(* Two names that collide (one of them is then found behind the other) and *)
(* a second, empty bucket for the collection loops to walk over.           *)
(***************************************************************************)
EXTENDS SymTable

CONSTANTS a, b

MCNames == {a, b}
MCHash  == (a :> 1) @@ (b :> 3)
MCPlaces == {<<"TEXT", 5>>, <<"DATA", 5>>}
=============================================================================
