------------------------------- MODULE MCCoff -------------------------------
(* Coff alone, on inputs whose .bss is beyond the 32-bit limit.            *)
EXTENDS Coff

Given == INSTANCE MCObject

MCNames == Given!MCNames
MCNameLen == Given!MCNameLen

HugeInputs ==
    {[i EXCEPT !.size.BSS = 20003] :
        i \in {g \in Given!MCInputs : g.lines = <<>> /\ g.size.BSS > 0}}
=============================================================================
