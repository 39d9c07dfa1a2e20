---------------------------- MODULE SymbolRules -----------------------------
(***************************************************************************)
(* What the symbol table promises its callers, without entries or chains:  *)
(* every call adds facts about a name, and a call is refused exactly when  *)
(* the facts would contradict each other.  The rules are symmetric, so the *)
(* set of programs accepted does not depend on whether a declaration comes *)
(* before or after the definition it speaks of.                            *)
(***************************************************************************)
EXTENDS Integers

CONSTANT Names

VARIABLES
    facts,   \* [Names -> facts accepted so far]
    answer   \* what the last call returned

vars == <<facts, answer>>

Fact == {"defined", "global", "local", "external"}

\* The facts each operation asserts.
Definition == {"defined"}
Global     == {"global"}
Local      == {"local"}
External   == {"external", "global"}
Claims     == {Definition, Global, Local, External}

Consistent(S) ==
    /\ ~({"defined", "external"} \subseteq S)
    /\ ~({"global", "local"} \subseteq S)

\* A second definition is refused even though it adds no fact.
Admissible(S, claim) ==
    /\ ~("defined" \in S /\ "defined" \in claim)
    /\ Consistent(S \union claim)

Init == facts = [n \in Names |-> {}] /\ answer = TRUE

Call(n, claim) ==
    /\ answer' = Admissible(facts[n], claim)
    /\ facts' = IF Admissible(facts[n], claim)
                THEN [facts EXCEPT ![n] = @ \union claim]
                ELSE facts

Next == \E n \in Names, claim \in Claims : Call(n, claim)

Spec == Init /\ [][Next]_vars
=============================================================================
