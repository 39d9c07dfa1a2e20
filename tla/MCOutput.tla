------------------------------ MODULE MCOutput ------------------------------
(***************************************************************************)
(* The inputs of MCObject in both formats; and inputs for the line tables: *)
(* rows whose offsets, lines and columns, and the differences between      *)
(* them, lie on both sides of the one-byte limits of LEB128 (63, 64 and    *)
(* -64, -65 signed, 127 and 128 unsigned), of the two-byte limit, and of   *)
(* CodeView's 24 bits; three files, one of them without rows at times, and *)
(* an id of no file.                                                       *)
(***************************************************************************)
EXTENDS Output

Given == INSTANCE MCObject

MCNames == Given!MCNames
MCNameLen == Given!MCNameLen

MCFiles == <<[id |-> 7, path |-> <<97>>], [id |-> 3, path |-> <<98, 99>>],
             [id |-> 9, path |-> <<98, 99, 100>>]>>

\* Positions a row may stand at, and the places it may speak of.
Offsets == {0, 127, 128, 16400}
Places == {<<7, 1, 0>>, <<3, 64, 0>>, <<3, 65, 128>>, <<9, 129, 5>>,
           <<7, 16777221, 127>>, <<7, 0, 1>>, <<4, 1, 1>>}

RowsHere == {Given!Row(o, p[1], p[2], p[3]) : o \in Offsets, p \in Places}

TableInputs ==
    [size : {[TEXT |-> t, DATA |-> 0, RODATA |-> 0, BSS |-> 0] :
                 t \in {1, 130, 16400}},
     nodes : {<<Given!Global("a", "TEXT", 0)>>}, relocs : {<<>>},
     lines : UNION {[1 .. n -> RowsHere] : n \in 1 .. 2},
     table : {Given!NoTable}, source_len : {6},
     alignment : {[DATA |-> 0, RODATA |-> 0, BSS |-> 0]}]

MCInputs == Given!MCInputs \cup TableInputs
=============================================================================
