------------------------------ MODULE Encoding ------------------------------
(***************************************************************************)
(* One call of the encoder for one parsed instruction, and what the call   *)
(* promises.  The promise about the bytes is stated against a decoder of   *)
(* the x86-64 subset, written from the architecture's instruction format   *)
(* and not from the encoder: it reads prefixes, REX, opcode, ModRM, SIB,   *)
(* displacement and immediate off the bytes and says what the processor    *)
(* will do.                                                                *)
(***************************************************************************)
EXTENDS Encoder

CONSTANTS
    Instructions,   \* [opcode, ops] records the parser may build
    Targets         \* resolved displacements

\* What the operands of an Instruction may be: int64_t and RegId fields, and
\* an int32_t for the displacement of a MEM.
Number == [1 .. 8 -> 0 .. 255]
Operand == [kind : {"REG", "IMM", "MEM", "RIP", "LABEL", "STRING"},
            reg : 0 .. 255, imm : Number]

ASSUME InstructionsAssumption ==
    /\ Instructions \subseteq [opcode : STRING, ops : Seq(Operand)]
    /\ \A i \in Instructions : \A k \in DOMAIN i.ops :
          i.ops[k].kind = "MEM" => immediate_fits_i32(i.ops[k].imm)
    /\ Targets \subseteq Number

-----------------------------------------------------------------------------
(* The parser's operand counts: ARITY_TABLE, get_arity and check_arity *)

arity(opcode) ==
    CASE opcode \in {"MOV", "LEA", "ADD", "SUB", "AND", "OR", "XOR", "CMP", "TEST",
                     "SHL", "SHR", "SAR", "CVTSI2SD", "CVTTSD2SI"}
                    \union DOMAIN SseOp -> 2 .. 2
      [] opcode = "IMUL" -> 2 .. 3
      [] opcode \in {"PUSH", "POP", "IDIV", "INC", "DEC", "NEG", "NOT", "JMP", "CALL",
                     "INT"} \union DOMAIN JccOp -> 1 .. 1
      [] opcode \in DOMAIN FixedBytes -> 0 .. 0
      [] OTHER -> 0 .. 3

VARIABLES instr, target, enc

vars == <<instr, target, enc>>

NotCalled == [called |-> FALSE]

Init ==
    /\ instr \in {s \in Instructions : Len(s.ops) \in arity(s.opcode)}
    /\ target \in Targets
    /\ enc = NotCalled

Encode ==
    /\ enc = NotCalled
    /\ enc' = encoder_encode(instr.opcode, instr.ops, target)
    /\ UNCHANGED <<instr, target>>

Returned == enc # NotCalled /\ UNCHANGED vars

Next == Encode \/ Returned

Spec == Init /\ [][Next]_vars

-----------------------------------------------------------------------------
(* What the processor does with the bytes.  An operand is <<"reg", width,  *)
(* number>>, <<"high", number>> (AH ... BH), <<"xmm", number>>, <<"mem",   *)
(* base, displacement>>, <<"rip", displacement>> or <<"imm", bytes>>.      *)

SignExtend(v, n) ==
    [k \in 1 .. n |-> IF k <= Len(v) THEN v[k] ELSE IF v[Len(v)] >= 128 THEN 255 ELSE 0]

Cut(b, at, n) == SubSeq(b, at, at + n - 1)

\* Where the fields of the instruction start, and the bits of REX.
Fields(b) ==
    LET prefix == IF b[1] \in {102, 242, 243} THEN b[1] ELSE 0
        after  == IF prefix = 0 THEN 1 ELSE 2
        rex    == IF b[after] \in 64 .. 79 THEN b[after] ELSE 0
        op     == IF rex = 0 THEN after ELSE after + 1
        two    == b[op] = 15
    IN  [prefix |-> prefix, rex |-> rex, w |-> (rex \div 8) % 2 = 1,
         r |-> 8 * ((rex \div 4) % 2), b |-> 8 * (rex % 2),
         two |-> two, opcode |-> IF two THEN b[op + 1] ELSE b[op],
         modrm |-> IF two THEN op + 2 ELSE op + 1]

\* A register by its width, 128 for the XMM registers.  Without REX the byte
\* registers 4 to 7 are AH ... BH.
RegisterOperand(f, width, number) ==
    IF width = 128 THEN <<"xmm", number>>
    ELSE IF width = 8 /\ f.rex = 0 /\ number \in 4 .. 7 THEN <<"high", number>>
    ELSE <<"reg", width, number>>

\* The middle field of ModRM: a register, or an extension of the opcode.
Extension(b, f) == (b[f.modrm] \div 8) % 8
RegOperand(b, f, width) == RegisterOperand(f, width, Extension(b, f) + f.r)

\* The operand of the outer fields of ModRM and the position after it.
RmOperand(b, f, width) ==
    LET mod  == b[f.modrm] \div 64
        rm   == b[f.modrm] % 8
        next == f.modrm + 1
        base == (IF rm = 4 THEN b[next] % 8 ELSE rm) + f.b
        disp == IF rm = 4 THEN next + 1 ELSE next
    IN  CASE mod = 3 -> [operand |-> RegisterOperand(f, width, rm + f.b), next |-> next]
          [] mod = 0 /\ rm = 5 -> [operand |-> <<"rip", Cut(b, next, 4)>>, next |-> next + 4]
          [] mod = 0 /\ rm # 5 ->
                [operand |-> IF rm = 4 /\ (b[next] \div 8 # 4 \/ b[next] % 8 = 5)
                             THEN <<"indexed">> ELSE <<"mem", base, Zero>>,
                 next |-> disp]
          [] mod = 1 -> [operand |-> <<"mem", base, SignExtend(Cut(b, disp, 1), 8)>>,
                         next |-> disp + 1]
          [] mod = 2 -> [operand |-> <<"mem", base, SignExtend(Cut(b, disp, 4), 8)>>,
                         next |-> disp + 4]

\* n bytes read as a number of `to` bytes.
ImmOperand(b, at, n, to) == <<"imm", SignExtend(Cut(b, at, n), to)>>

\* The operation, its operands and the position after the last byte read.
Is(name, ops, next) == [name |-> name, ops |-> ops, next |-> next]

\* The shapes of operands: in the opcode, a number alone, ModRM alone, ModRM
\* to and from a register, and ModRM with a number.
LowOnly(b, f, name, width) ==
    Is(name, <<RegisterOperand(f, width, (f.opcode % 8) + f.b)>>, f.modrm)
LowImm(b, f, name, width) ==
    LET n == width \div 8
    IN  Is(name, <<RegisterOperand(f, width, (f.opcode % 8) + f.b),
                   ImmOperand(b, f.modrm, n, n)>>, f.modrm + n)
ImmOnly(b, f, name, n, to) == Is(name, <<ImmOperand(b, f.modrm, n, to)>>, f.modrm + n)
RmOnly(b, f, name, width) ==
    LET rm == RmOperand(b, f, width) IN Is(name, <<rm.operand>>, rm.next)
RmReg(b, f, name, width, source) ==
    LET rm == RmOperand(b, f, width)
    IN  Is(name, <<rm.operand, RegOperand(b, f, source)>>, rm.next)
ToReg(b, f, name, width, source) ==
    LET rm == RmOperand(b, f, source)
    IN  Is(name, <<RegOperand(b, f, width), rm.operand>>, rm.next)
RmImm(b, f, name, width, n) ==
    LET rm == RmOperand(b, f, width)
    IN  Is(name, <<rm.operand, ImmOperand(b, rm.next, n, width \div 8)>>, rm.next + n)
RmShift(b, f, name, width) ==
    LET rm == RmOperand(b, f, width)
    IN  Is(name, <<rm.operand, ImmOperand(b, rm.next, 1, 1)>>, rm.next + 1)
RmCount(b, f, name, width, count) ==
    LET rm == RmOperand(b, f, width) IN Is(name, <<rm.operand, count>>, rm.next)
RegRmImm(b, f, name, width, n) ==
    LET rm == RmOperand(b, f, width)
    IN  Is(name, <<RegOperand(b, f, width), rm.operand,
                   ImmOperand(b, rm.next, n, width \div 8)>>, rm.next + n)

AluName == <<"ADD", "OR", "ADC", "SBB", "AND", "SUB", "XOR", "CMP">>
Group3Name == <<"TEST", "TEST", "NOT", "NEG", "MUL", "IMUL", "DIV", "IDIV">>
ShiftName == <<"ROL", "ROR", "RCL", "RCR", "SHL", "SHR", "SAL", "SAR">>
Group5Name == <<"INC", "DEC", "CALL", "CALLF", "JMP", "JMPF", "PUSH", "UD">>
JccName == <<"JO", "JNO", "JB", "JAE", "JE", "JNE", "JBE", "JA",
             "JS", "JNS", "JP", "JNP", "JL", "JGE", "JLE", "JG">>
SetccName == <<"SETO", "SETNO", "SETB", "SETAE", "SETE", "SETNE", "SETBE", "SETA",
               "SETS", "SETNS", "SETP", "SETNP", "SETL", "SETGE", "SETLE", "SETG">>

Wide(f) == IF f.w THEN 64 ELSE IF f.prefix = 102 THEN 16 ELSE 32
ByParity(f) == IF f.opcode % 2 = 0 THEN 8 ELSE Wide(f)
LongImm(width) == IF width = 64 THEN 4 ELSE width \div 8

\* One-byte opcodes.
ReadsOne(b, f, d) ==
    LET op   == f.opcode
        wide == Wide(f)
        w    == ByParity(f)
        ext  == Extension(b, f)
    IN  \/ op < 64 /\ op % 8 \in {0, 1} /\ d = RmReg(b, f, AluName[op \div 8 + 1], w, w)
        \/ op < 64 /\ op % 8 \in {2, 3} /\ d = ToReg(b, f, AluName[op \div 8 + 1], w, w)
        \/ op \in 80 .. 87 /\ d = LowOnly(b, f, "PUSH", 64)
        \/ op \in 88 .. 95 /\ d = LowOnly(b, f, "POP", 64)
        \/ op = 99 /\ d = ToReg(b, f, "MOVSX", wide, 32)
        \/ op = 105 /\ d = RegRmImm(b, f, "IMUL", wide, LongImm(wide))
        \/ op = 107 /\ d = RegRmImm(b, f, "IMUL", wide, 1)
        \/ op \in {128, 129} /\ d = RmImm(b, f, AluName[ext + 1], w, LongImm(w))
        \/ op = 131 /\ d = RmImm(b, f, AluName[ext + 1], wide, 1)
        \/ op \in {132, 133} /\ d = RmReg(b, f, "TEST", w, w)
        \/ op \in {136, 137} /\ d = RmReg(b, f, "MOV", w, w)
        \/ op \in {138, 139} /\ d = ToReg(b, f, "MOV", w, w)
        \/ op = 141 /\ d = ToReg(b, f, "LEA", wide, wide)
        \/ op = 144 /\ d = Is("NOP", <<>>, f.modrm)
        \/ op = 153 /\ d = Is(IF f.w THEN "CQO" ELSE "CDQ", <<>>, f.modrm)
        \/ op \in 176 .. 183 /\ d = LowImm(b, f, "MOV", 8)
        \/ op \in 184 .. 191 /\ d = LowImm(b, f, "MOV", wide)
        \/ op \in {192, 193} /\ d = RmShift(b, f, ShiftName[ext + 1], w)
        \/ op = 195 /\ d = Is("RET", <<>>, f.modrm)
        \/ op = 199 /\ d = RmImm(b, f, "MOV", wide, LongImm(wide))
        \/ op = 205 /\ d = ImmOnly(b, f, "INT", 1, 1)
        \/ op \in {208, 209} /\ d = RmCount(b, f, ShiftName[ext + 1], w, <<"imm", <<1>>>>)
        \/ op \in {210, 211} /\ d = RmCount(b, f, ShiftName[ext + 1], w, <<"reg", 8, 1>>)
        \/ op = 232 /\ d = ImmOnly(b, f, "CALL", 4, 8)
        \/ op = 233 /\ d = ImmOnly(b, f, "JMP", 4, 8)
        \/ op = 244 /\ d = Is("HLT", <<>>, f.modrm)
        \/ op \in {246, 247} /\ ext \in {0, 1} /\ d = RmImm(b, f, "TEST", w, LongImm(w))
        \/ op \in {246, 247} /\ ext > 1 /\ d = RmOnly(b, f, Group3Name[ext + 1], w)
        \/ op \in {254, 255} /\ ext \in {0, 1} /\ d = RmOnly(b, f, Group5Name[ext + 1], w)
        \/ op = 255 /\ ext > 1 /\ d = RmOnly(b, f, Group5Name[ext + 1], 64)

\* Two-byte opcodes, the SSE2 ones told apart by their mandatory prefix.
ReadsTwo(b, f, d) ==
    LET op   == f.opcode
        wide == Wide(f)
        full == IF f.w THEN 64 ELSE 32
        Sse(name) == ToReg(b, f, name, 128, 128)
    IN  \/ op = 5 /\ d = Is("SYSCALL", <<>>, f.modrm)
        \/ op = 49 /\ d = Is("RDTSC", <<>>, f.modrm)
        \/ op = 42 /\ f.prefix = 242 /\ d = ToReg(b, f, "CVTSI2SD", 128, full)
        \/ op = 44 /\ f.prefix = 242 /\ d = ToReg(b, f, "CVTTSD2SI", full, 128)
        \/ op = 46 /\ f.prefix = 102 /\ d = Sse("UCOMISD")
        \/ op = 87 /\ f.prefix = 102 /\ d = Sse("XORPD")
        \/ op = 88 /\ f.prefix = 242 /\ d = Sse("ADDSD")
        \/ op = 89 /\ f.prefix = 242 /\ d = Sse("MULSD")
        \/ op = 92 /\ f.prefix = 242 /\ d = Sse("SUBSD")
        \/ op = 94 /\ f.prefix = 242 /\ d = Sse("DIVSD")
        \/ op = 110 /\ f.prefix = 102 /\ d = ToReg(b, f, "MOV", 128, full)
        \/ op = 126 /\ f.prefix = 243 /\ d = Sse("MOV")
        \/ op = 126 /\ f.prefix = 102 /\ d = RmReg(b, f, "MOV", full, 128)
        \/ op = 214 /\ f.prefix = 102 /\ d = RmReg(b, f, "MOV", 128, 128)
        \/ op \in 128 .. 143 /\ d = ImmOnly(b, f, JccName[op - 127], 4, 8)
        \/ op \in 144 .. 159 /\ d = RmOnly(b, f, SetccName[op - 143], 8)
        \/ op = 175 /\ d = ToReg(b, f, "IMUL", wide, wide)
        \/ op = 182 /\ d = ToReg(b, f, "MOVZX", wide, 8)
        \/ op = 183 /\ d = ToReg(b, f, "MOVZX", wide, 16)
        \/ op = 190 /\ d = ToReg(b, f, "MOVSX", wide, 8)
        \/ op = 191 /\ d = ToReg(b, f, "MOVSX", wide, 16)

\* b is the operation, operands and length d.
Reads(b, d) == LET f == Fields(b) IN IF f.two THEN ReadsTwo(b, f, d) ELSE ReadsOne(b, f, d)

-----------------------------------------------------------------------------
(* What the source says. *)

Canonical(opcode) ==
    CASE opcode = "JZ" -> "JE" [] opcode = "JNZ" -> "JNE" [] OTHER -> opcode

\* Bytes of an immediate: those of the register it goes with; one for a shift
\* count or an interrupt number.
ImmediateWidth(opcode, ops) ==
    IF opcode \in {"INT"} \union DOMAIN ShiftExt THEN 1 ELSE Width(ops[1]) \div 8

\* What the k-th operand says.  A shift by RCX is a shift by CL, the only
\* count register there is.
Denotes(opcode, ops, disp, k) ==
    LET op == ops[k]
    IN  CASE opcode \in DOMAIN ShiftExt /\ k = 2 /\ op.kind = "REG" -> <<"reg", 8, 1>>
          [] ~(opcode \in DOMAIN ShiftExt /\ k = 2) /\ op.kind = "REG" ->
                IF reg_is_xmm(op.reg) THEN <<"xmm", reg_index(op.reg)>>
                ELSE <<"reg", Width(op), reg_index(op.reg)>>
          [] op.kind = "MEM" -> <<"mem", reg_index(op.reg), op.imm>>
          [] op.kind = "RIP" -> <<"rip", Low(Zero, 4)>>
          [] op.kind = "IMM" -> <<"imm", Low(op.imm, ImmediateWidth(opcode, ops))>>
          [] op.kind = "LABEL" -> <<"imm", IF opcode = "MOV" THEN Zero ELSE disp>>

Denoted(opcode, ops, disp) == [k \in DOMAIN ops |-> Denotes(opcode, ops, disp, k)]

-----------------------------------------------------------------------------
Encoded == enc # NotCalled /\ ~enc.error

(***************************************************************************)
(* The bytes mean the instruction: whatever form the encoder accepts, the  *)
(* processor reads back the same operation on the same registers, memory   *)
(* address and immediate, and reads exactly the bytes emitted.  Covers     *)
(* REX on the new byte registers, RSP/R12 and RBP/R13 as bases, and the    *)
(* choice among 8-, 16-, 32- and 64-bit immediates at their limits.        *)
(***************************************************************************)
BytesMeanTheInstruction ==
    Encoded =>
        Reads(enc.bytes, Is(Canonical(instr.opcode), Denoted(instr.opcode, instr.ops, target),
                            Len(enc.bytes) + 1))

(***************************************************************************)
(* Sizing before and encoding after the labels are known agree, whatever   *)
(* the displacement turns out to be: encoder_instruction_size, which does  *)
(* not see the target, returns the length encoder_encode produces, and a   *)
(* form with a symbolic memory operand ends in its 32-bit displacement.    *)
(* This is the contract the passes assume of the encoder.                  *)
(***************************************************************************)
SizeIsLength ==
    LET size == encoder_instruction_size(instr.opcode, instr.ops) IN
    /\ size \in 1 .. MAX_BYTES
    /\ Encoded => /\ enc.len = size /\ enc.len = Len(enc.bytes)
                  /\ \A k \in DOMAIN instr.ops : instr.ops[k].kind = "RIP" =>
                        enc.len >= 4 /\ Cut(enc.bytes, enc.len - 3, 4) = Low(Zero, 4)
=============================================================================
