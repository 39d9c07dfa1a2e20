----------------------------- MODULE MCEncoding -----------------------------
(***************************************************************************)
(* Forms with registers of every width on both sides of every boundary the *)
(* encoder tests (REX, SPL ... DIL, RSP/R12, RBP/R13, CL) and numbers on   *)
(* both sides of every range limit.                                        *)
(***************************************************************************)
EXTENDS Encoding

Op(kind, reg, imm) == [kind |-> kind, reg |-> reg, imm |-> imm]

\* RAX RCX RDI R12 R13, EAX R9D, AX R15W, AL CL SPL R8B, XMM0 XMM9
Registers == {0, 1, 7, 12, 13, 16, 25, 32, 47, 48, 49, 52, 56, 64, 73}
Bases == {0, 4, 5, 12, 13, 8, 16}

\* n bytes of value a, then the rest of value b.
Bytes(n, a, last, b) ==
    [k \in 1 .. 8 |-> IF k < n THEN a ELSE IF k = n THEN last ELSE b]

\* 2^(8n-1) - 1, 2^(8n-1), -2^(8n-1), -2^(8n-1) - 1, 2^(8n) - 1 and 2^(8n)
Limits(n) == { Bytes(n, 255, 127, 0), Bytes(n, 0, 128, 0), Bytes(n, 0, 128, 255),
               Bytes(n, 255, 127, 255), Bytes(n, 255, 255, 0), Bytes(n + 1, 0, 1, 0) }

Numbers == {Zero, Int64(1), Int64(-1)} \union Limits(1) \union Limits(2) \union Limits(4)
    \union {Bytes(8, 0, 128, 0), Bytes(8, 255, 127, 0)}
Displacements == {Zero, Int64(127), Int64(128), Int64(-128), Int64(-129)}

Regs == {Op("REG", r, Zero) : r \in Registers}
Imms == {Op("IMM", REG_INVALID, v) : v \in Numbers}
Mems == {Op("MEM", r, d) : r \in Bases, d \in Displacements}
Others == {Op("RIP", REG_INVALID, Zero), Op("LABEL", REG_INVALID, Zero),
           Op("STRING", REG_INVALID, Zero)}
Any == Regs \union Imms \union Mems \union Others

OneOp == {"PUSH", "POP", "INC", "NEG", "DIV", "JMP", "CALL", "INT", "CQO"}
    \union DOMAIN SetccOp \union DOMAIN JccOp \union DOMAIN DivideExt \union DOMAIN UnaryExt
TwoOps == {"MOV", "LEA", "MOVZX", "MOVSX", "ADD", "CMP", "IMUL", "SHL", "SAR", "TEST",
           "ADDSD", "CVTSI2SD", "CVTTSD2SI"}
Other == (DOMAIN AluOp \union DOMAIN ShiftExt \union DOMAIN SseOp) \ TwoOps

Ins(S, lists) == [opcode : S, ops : lists]
Few == {Op("REG", 13, Zero), Op("REG", 52, Zero), Op("REG", 73, Zero),
        Op("IMM", REG_INVALID, Int64(200)), Op("MEM", 12, Int64(-129))}

MCInstructions ==
    Ins(DOMAIN FixedBytes \union {"CQO", "INVALID"}, {<<>>})
    \union Ins(OneOp, {<<a>> : a \in Any})
    \union Ins(TwoOps, {<<a, b>> : a \in Regs, b \in Any})
    \union Ins(TwoOps, {<<a, b>> : a \in Any, b \in Regs})
    \union Ins(Other, {<<a, b>> : a \in Few, b \in Few})
    \union Ins({"IMUL"}, {<<a, b, c>> : a \in Regs, b \in Regs, c \in Imms})

MCTargets == {Zero, Int64(-5), Bytes(4, 0, 128, 255), Bytes(4, 0, 128, 0)}
=============================================================================
