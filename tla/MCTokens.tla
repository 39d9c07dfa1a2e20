------------------------------ MODULE MCTokens ------------------------------
(***************************************************************************)
(* Token lists for the parser: short lines of any tokens; operands of      *)
(* every form and with every kind of mistake, behind a directive and       *)
(* behind instructions of each arity; and files of three and four lines,   *)
(* right and wrong, so that the list of diagnostics (two here) overflows.  *)
(* Immediates have four bits, -8 .. 7, and displacements two, -2 .. 1.     *)
(***************************************************************************)
EXTENDS Integers, Sequences, SequencesExt

T(type, value) == [type |-> type, value |-> value, num |-> 0]
Nl == T("NEWLINE", "")
Eof == T("EOF", "")
Comma == T("COMMA", "")
Open == T("LBRACKET", "")
Close == T("RBRACKET", "")
Plus == T("PLUS", "")
Minus == T("MINUS", "")
Reg == T("REGISTER", "wide")
Narrow == T("REGISTER", "narrow")
Imm(n) == [T("IMMEDIATE", "") EXCEPT !.num = n]
Name == T("LABEL_REF", "name")
Old == T("LABEL_REF", "oldreg")
Rip == T("LABEL_REF", "rip")
Label == T("LABEL_DEF", "label")
Zero == T("MNEMONIC", "zero")
Two == T("MNEMONIC", "two")
Three == T("MNEMONIC", "twothree")
Dir == T("DIRECTIVE", ".dir")
OldDir == T("DIRECTIVE", ".old")
Text == T("STRING", "text")

MCArity == [zero |-> [min |-> 0, max |-> 0], two |-> [min |-> 2, max |-> 2],
            twothree |-> [min |-> 2, max |-> 3]]

Some == <<Nl, Comma, Open, Close, Plus, Minus, Reg, Narrow, Imm(1), Name, Old,
          Label, Zero, Two, Dir, OldDir, Text, T("COLON", "")>>
UpTo(n, m) == UNION {[1 .. k -> 1 .. m] : k \in 0 .. n}
Short == {[i \in DOMAIN c |-> Some[c[i]]] : c \in UpTo(3, Len(Some))}

\* Whatever may stand between brackets, up to four tokens.
Inner == <<Reg, Narrow, Rip, Old, Plus, Minus, Imm(2), Imm(-2), Imm(-8), Name,
           Close, Comma>>
Bracketed ==
    {<<Dir, Open>> \o [i \in DOMAIN c |-> Inner[c[i]]] :
        c \in {d \in UpTo(4, Len(Inner)) :
                  Len(d) > 0 => d[1] \in {1, 3} \/ Len(d) < 3}}

\* Lists of operands, with commas where they should be and where not.
Pieces == <<<<Reg>>, <<Comma>>, <<Open, Reg, Close>>, <<Rip>>, <<Open, Close>>>>
Listed ==
    {<<Label, h>> \o FlattenSeq([n \in DOMAIN c |-> Pieces[c[n]]]) :
        h \in {Dir, Two, Three},
        c \in {d \in UpTo(7, 3) : \/ Len(d) < 5
                                  \/ \A i \in DOMAIN d : i % 2 = 0 => d[i] = 2}
              \cup UpTo(3, Len(Pieces))}

Lines == {<<>>, <<Label>>, <<Zero>>, <<Dir, Imm(1), Imm(1)>>, <<Two, Reg>>,
          <<Two, Reg, Reg>>, <<OldDir, Name>>, <<Name>>, <<Dir, Open>>,
          <<Label, Dir, Text, Comma>>}
Files == {a \o <<Nl>> \o b \o <<Nl>> \o c : a, b, c \in Lines}
         \cup {a \o <<Nl>> \o b \o <<Nl>> \o c \o <<Nl>> \o d :
                   a, b, c, d \in {<<Two, Reg>>, <<Name>>, <<Dir, Open>>, <<Zero>>}}

Lists == {s \o <<Eof>> : s \in Short \cup Bracketed \cup Listed \cup Files}
=============================================================================
