----------------------------- MODULE MCListing ------------------------------
(***************************************************************************)
(* Sources of up to five characters with a statement on any of the lines   *)
(* that hold something, and spans of up to two and a half rows.            *)
(***************************************************************************)
EXTENDS Listing

Texts == UNION {[1 .. n -> {"x", "LF", "CR"}] : n \in 0 .. 5}
LineAt(t, k) == 1 + Cardinality({j \in 1 .. k - 1 : t[j] = "LF"})
FullLines(t) == {LineAt(t, k) : k \in {j \in DOMAIN t : t[j] = "x"}}

\* The amount a statement emits or, in BSS, reserves.
Amounts == {<<"TEXT", 0>>, <<"TEXT", 4>>, <<"TEXT", 5>>, <<"DATA", 1>>, <<"BSS", 3>>}

Total(a, s) == FoldLeft(LAMBDA n, x : IF x[1] = s THEN n + x[2] ELSE n, 0, a)

Spans(lines, a) ==
    [k \in DOMAIN a |->
        [line |-> lines[k], section |-> a[k][1],
         offset |-> Total(SubSeq(a, 1, k - 1), a[k][1]),
         size |-> IF a[k][1] = "BSS" THEN 0 ELSE a[k][2]]]

InputsOf(t) ==
    UNION {{[source |-> t,
             stmts |-> Spans(SetToSortSeq(L, <), a),
             size |-> [s \in {"TEXT", "DATA", "BSS"} |-> Total(a, s)]] :
                a \in [1 .. Cardinality(L) -> Amounts]} : L \in SUBSET FullLines(t)}

MCInputs == UNION {InputsOf(t) : t \in Texts}
=============================================================================
