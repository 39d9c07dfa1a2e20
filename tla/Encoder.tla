------------------------------ MODULE Encoder -------------------------------
(***************************************************************************)
(* The x86-64 encoder (src/encoder): encoder_encode, which pass 2 calls,   *)
(* and encoder_instruction_size, which pass 1 calls, as functions of the   *)
(* opcode, the operands and the resolved displacement.                     *)
(*                                                                         *)
(* A 64-bit number is its eight bytes, least significant first, so that    *)
(* every width the code tells apart is exact.  An operand is a record      *)
(* [kind, reg, imm]: reg is the register, or the base of a MEM operand;    *)
(* imm is the value of an IMM and the displacement of a MEM.  OP_MEM_REG   *)
(* is a MEM with displacement 0.  Registers are numbered as in RegId.      *)
(***************************************************************************)
EXTENDS Integers, Sequences

MAX_BYTES == 15
REG_INVALID == 255
REG_RCX == 1
REG_CL == 49

-----------------------------------------------------------------------------
(* Registers (modrm.c) *)

reg_index(r) == IF r \in 0 .. 79 THEN r % 16 ELSE -1
reg_width_bits(r) == IF r \in 0 .. 79 THEN <<64, 32, 16, 8, 128>>[r \div 16 + 1] ELSE 0
reg_is_gpr(r) == r \in 0 .. 63
reg_is_xmm(r) == r \in 64 .. 79
reg_needs_rex(r) == reg_index(r) >= 8

\* Wrong form: SPL, BPL, SIL and DIL are encoded like AH, CH, DH and BH.
requires_rex_byte_never(r) == FALSE

reg_requires_rex_byte(r) == reg_width_bits(r) = 8 /\ reg_index(r) >= 4
reg_field(r) == IF reg_index(r) >= 0 THEN reg_index(r) % 8 ELSE 0

valid_integer_width(w) == w \in {8, 16, 32, 64}
same_register_width(r, s) ==
    valid_integer_width(reg_width_bits(r)) /\ reg_width_bits(r) = reg_width_bits(s)

-----------------------------------------------------------------------------
(* Immediates (immediate.c) *)

Zero == [k \in 1 .. 8 |-> 0]
Low(v, n) == SubSeq(v, 1, n)

\* The eight bytes of a number that fits in 32 bits.
Int64(n) == [k \in 1 .. 8 |-> IF k <= 4 THEN (n \div 256^(k - 1)) % 256
                              ELSE IF n < 0 THEN 255 ELSE 0]

FitsSigned(v, n) ==
    \A k \in n + 1 .. 8 : v[k] = IF v[n] >= 128 THEN 255 ELSE 0
FitsUnsigned(v, n) == \A k \in n + 1 .. 8 : v[k] = 0

immediate_fits_i8(v)  == FitsSigned(v, 1)
immediate_fits_i32(v) == FitsSigned(v, 4)
immediate_fits_u8(v)  == FitsUnsigned(v, 1)

\* The range checks of the register-immediate forms: signed or unsigned up to
\* 32 bits, sign-extended 32 bits for a 64-bit register.
FitsOperand(v, width) ==
    IF width = 64 THEN immediate_fits_i32(v)
    ELSE FitsSigned(v, width \div 8) \/ FitsUnsigned(v, width \div 8)

-----------------------------------------------------------------------------
(* Emit helpers *)

modrm_byte(mod, reg, rm) == 64 * mod + 8 * (reg % 8) + (rm % 8)
sib_byte(scale, index, base) == 64 * scale + 8 * (index % 8) + (base % 8)

Bit(b, weight) == IF b THEN weight ELSE 0

\* rex_byte behind rex_required; `force` is for the new byte registers.
Rex(w, reg, rm, force) ==
    LET r == reg_needs_rex(reg)
        b == reg_needs_rex(rm)
    IN  IF force \/ w \/ r \/ b THEN <<64 + Bit(w, 8) + Bit(r, 4) + Bit(b, 1)>>
        ELSE <<>>

emit_rex_for_width(width, reg, rm) ==
    Rex(width = 64, reg, rm,
        width = 8 /\ (reg_requires_rex_byte(reg) \/ reg_requires_rex_byte(rm)))

emit_width_prefix(width) == IF width = 16 THEN <<102>> ELSE <<>>

\* Prefix, REX, opcode bytes: what every integer form starts with.
Start(width, reg, rm, opcode) ==
    emit_width_prefix(width) \o emit_rex_for_width(width, reg, rm) \o opcode

RegRm(reg, rm) == <<modrm_byte(3, reg, reg_field(rm))>>

\* [base], [base+disp8] or [base+disp32]; RSP and R12 need a SIB byte, RBP
\* and R13 a displacement.
emit_mem_address(reg, base, disp) ==
    LET rm  == reg_field(base)
        sib == IF rm = 4 THEN <<sib_byte(0, 4, rm)>> ELSE <<>>
    IN  IF disp = Zero /\ rm # 5 THEN <<modrm_byte(0, reg, rm)>> \o sib
        ELSE IF immediate_fits_i8(disp)
        THEN <<modrm_byte(1, reg, rm)>> \o sib \o Low(disp, 1)
        ELSE <<modrm_byte(2, reg, rm)>> \o sib \o Low(disp, 4)

emit_rip_relative_mem(opcode, reg, width) ==
    Start(width, reg, REG_INVALID, <<opcode>>)
        \o <<modrm_byte(0, reg_field(reg), 5)>> \o Low(Zero, 4)

emit_rr(opcode, dst, src, width) ==
    Start(width, src, dst, <<opcode>>) \o RegRm(reg_field(src), dst)

emit_mem(opcode, reg, base, disp, width) ==
    Start(width, reg, base, <<opcode>>) \o emit_mem_address(reg_field(reg), base, disp)

make_error == [error |-> TRUE, len |-> 0, bytes |-> <<>>]

\* emit() drops the bytes past MAX_INSTRUCTION_BYTES.
from_buf(b) ==
    LET kept == IF Len(b) > MAX_BYTES THEN Low(b, MAX_BYTES) ELSE b
    IN  [error |-> FALSE, len |-> Len(kept), bytes |-> kept]

EncodeIf(ok, b) == IF ok THEN from_buf(b) ELSE make_error

Kinds(ops) == [k \in DOMAIN ops |-> ops[k].kind]
IsBase(op) == reg_width_bits(op.reg) = 64
Width(op) == reg_width_bits(op.reg)
\* The opcode byte of the byte form is one below that of the wider forms.
ByWidth(opcode, width) == IF width = 8 THEN opcode - 1 ELSE opcode
ImmBytes(width) == IF width = 64 THEN 4 ELSE width \div 8

-----------------------------------------------------------------------------
(* Data movement *)

\* mov register, immediate
MovImmediate(r, v) ==
    LET w == reg_width_bits(r)
        b(opcode) == Start(w, REG_INVALID, r, opcode)
    IN  IF w = 64
        THEN from_buf(IF immediate_fits_i32(v)
                      THEN b(<<199>>) \o RegRm(0, r) \o Low(v, 4)
                      ELSE b(<<184 + reg_field(r)>>) \o v)
        ELSE EncodeIf(valid_integer_width(w) /\ FitsOperand(v, w),
                      b(<<(IF w = 8 THEN 176 ELSE 184) + reg_field(r)>>)
                          \o Low(v, w \div 8))

enc_mov(ops) ==
    LET dst == ops[1]
        src == ops[2]
        w   == IF dst.kind = "REG" THEN Width(dst) ELSE Width(src)
        ok  == valid_integer_width(w)
    IN  CASE Kinds(ops) = <<"REG", "IMM">> -> MovImmediate(dst.reg, src.imm)
          [] Kinds(ops) = <<"REG", "LABEL">> ->
                EncodeIf(w = 64, Start(64, REG_INVALID, dst.reg, <<184 + reg_field(dst.reg)>>)
                                     \o Zero)
          [] Kinds(ops) = <<"REG", "REG">> ->
                EncodeIf(same_register_width(dst.reg, src.reg),
                         emit_rr(ByWidth(137, w), dst.reg, src.reg, w))
          [] Kinds(ops) = <<"REG", "MEM">> ->
                EncodeIf(ok /\ IsBase(src),
                         emit_mem(ByWidth(139, w), dst.reg, src.reg, src.imm, w))
          [] Kinds(ops) = <<"REG", "RIP">> ->
                EncodeIf(ok, emit_rip_relative_mem(ByWidth(139, w), dst.reg, w))
          [] Kinds(ops) = <<"MEM", "REG">> ->
                EncodeIf(ok /\ IsBase(dst),
                         emit_mem(ByWidth(137, w), src.reg, dst.reg, dst.imm, w))
          [] Kinds(ops) = <<"RIP", "REG">> ->
                EncodeIf(ok, emit_rip_relative_mem(ByWidth(137, w), src.reg, w))
          [] OTHER -> make_error

enc_movx(ops, sign_extend) ==
    LET d  == Width(ops[1])
        s  == Width(ops[2])
        supported == \/ s = 8 /\ d \in {16, 32, 64}
                     \/ s = 16 /\ d \in {32, 64}
                     \/ sign_extend /\ s = 32 /\ d = 64
        opcode == IF s = 32 THEN <<99>>
                  ELSE <<15, (IF s = 8 THEN 182 ELSE 183) + Bit(sign_extend, 8)>>
    IN  IF Kinds(ops) # <<"REG", "REG">> THEN make_error
        ELSE EncodeIf(supported,
                emit_width_prefix(d)
                \o Rex(d = 64, ops[1].reg, ops[2].reg,
                       s = 8 /\ reg_requires_rex_byte(ops[2].reg))
                \o opcode \o RegRm(reg_field(ops[1].reg), ops[2].reg))

\* enc_push and enc_pop; the operand is 64 bits wide without REX.W.
PushPop(ops, opcode) ==
    IF Kinds(ops) # <<"REG">> THEN make_error
    ELSE EncodeIf(Width(ops[1]) = 64,
                  Rex(FALSE, REG_INVALID, ops[1].reg, FALSE)
                      \o <<opcode + reg_field(ops[1].reg)>>)

enc_lea(ops) ==
    CASE Kinds(ops) = <<"REG", "RIP">> ->
            EncodeIf(Width(ops[1]) = 64, emit_rip_relative_mem(141, ops[1].reg, 64))
      [] Kinds(ops) = <<"REG", "MEM">> ->
            EncodeIf(Width(ops[1]) = 64 /\ IsBase(ops[2]),
                     emit_mem(141, ops[1].reg, ops[2].reg, ops[2].imm, 64))
      [] OTHER -> make_error

-----------------------------------------------------------------------------
(* Arithmetic, logic and comparison *)

AluImmediate(r, v, ext) ==
    LET w == reg_width_bits(r)
        b(opcode, imm) == Start(w, REG_INVALID, r, <<opcode>>) \o RegRm(ext, r) \o imm
    IN  EncodeIf(valid_integer_width(w) /\ FitsOperand(v, w),
                 IF w = 8 THEN b(128, Low(v, 1))
                 ELSE IF immediate_fits_i8(v) THEN b(131, Low(v, 1))
                 ELSE b(129, Low(v, ImmBytes(w))))

enc_alu(ops, op_rr, ri_ext) ==
    LET w == Width(ops[1])
    IN  CASE Kinds(ops) = <<"REG", "REG">> ->
                EncodeIf(same_register_width(ops[1].reg, ops[2].reg),
                         emit_rr(ByWidth(op_rr, w), ops[1].reg, ops[2].reg, w))
          [] Kinds(ops) = <<"REG", "IMM">> -> AluImmediate(ops[1].reg, ops[2].imm, ri_ext)
          [] Kinds(ops) = <<"REG", "MEM">> ->
                EncodeIf(valid_integer_width(w) /\ IsBase(ops[2]),
                         emit_mem(ByWidth(op_rr, w) + 2, ops[1].reg, ops[2].reg,
                                  ops[2].imm, w))
          [] OTHER -> make_error

\* enc_unary and enc_divide: one register, an opcode and an extension.
OneRegister(ops, opcode, ext) ==
    IF Kinds(ops) # <<"REG">> THEN make_error
    ELSE LET w == Width(ops[1]) IN
         EncodeIf(valid_integer_width(w),
                  Start(w, REG_INVALID, ops[1].reg, <<ByWidth(opcode, w)>>)
                      \o RegRm(ext, ops[1].reg))

enc_unary(ops, ext) == OneRegister(ops, IF ext \in {0, 1} THEN 255 ELSE 247, ext)
enc_divide(ops, ext) == OneRegister(ops, 247, ext)

enc_imul(ops) ==
    LET w  == Width(ops[1])
        ok == w # 8 /\ valid_integer_width(w)
        r  == ops[1].reg
        b(opcode) == Start(w, r, ops[2].reg, opcode)
    IN  CASE Kinds(ops) = <<"REG", "REG">> ->
                EncodeIf(ok /\ same_register_width(r, ops[2].reg),
                         b(<<15, 175>>) \o RegRm(reg_field(r), ops[2].reg))
          [] Kinds(ops) = <<"REG", "MEM">> ->
                EncodeIf(ok /\ IsBase(ops[2]),
                         b(<<15, 175>>)
                            \o emit_mem_address(reg_field(r), ops[2].reg, ops[2].imm))
          [] Kinds(ops) = <<"REG", "REG", "IMM">> ->
                LET v == ops[3].imm
                    short == immediate_fits_i8(v)
                IN  EncodeIf(/\ ok /\ same_register_width(r, ops[2].reg)
                             /\ FitsOperand(v, w),
                             b(<<IF short THEN 107 ELSE 105>>)
                                \o RegRm(reg_field(r), ops[2].reg)
                                \o Low(v, IF short THEN 1 ELSE ImmBytes(w)))
          [] OTHER -> make_error

enc_shift(ops, ext) ==
    LET r == ops[1].reg
        w == reg_width_bits(r)
        b(opcode) == Start(w, REG_INVALID, r, <<ByWidth(opcode, w)>>) \o RegRm(ext, r)
    IN  CASE Kinds(ops) = <<"REG", "IMM">> ->
                EncodeIf(valid_integer_width(w) /\ immediate_fits_u8(ops[2].imm),
                         IF ops[2].imm = Int64(1) THEN b(209)
                         ELSE b(193) \o Low(ops[2].imm, 1))
          [] Kinds(ops) = <<"REG", "REG">> ->
                EncodeIf(valid_integer_width(w) /\ ops[2].reg \in {REG_CL, REG_RCX},
                         b(211))
          [] OTHER -> make_error

enc_test(ops) ==
    LET r == ops[1].reg
        w == reg_width_bits(r)
    IN  CASE Kinds(ops) = <<"REG", "REG">> ->
                EncodeIf(same_register_width(r, ops[2].reg),
                         emit_rr(ByWidth(133, w), r, ops[2].reg, w))
          [] Kinds(ops) = <<"REG", "IMM">> ->
                EncodeIf(valid_integer_width(w) /\ FitsOperand(ops[2].imm, w),
                         Start(w, REG_INVALID, r, <<ByWidth(247, w)>>) \o RegRm(0, r)
                            \o Low(ops[2].imm, ImmBytes(w)))
          [] OTHER -> make_error

enc_setcc(ops, opcode2) ==
    LET b == Start(8, REG_INVALID, ops[1].reg, <<15, opcode2>>)
    IN  CASE Kinds(ops) = <<"REG">> ->
                EncodeIf(Width(ops[1]) = 8, b \o RegRm(0, ops[1].reg))
          [] Kinds(ops) = <<"MEM">> ->
                EncodeIf(IsBase(ops[1]), b \o emit_mem_address(0, ops[1].reg, ops[1].imm))
          [] OTHER -> make_error

-----------------------------------------------------------------------------
(* Control flow and system *)

\* enc_jmp and enc_call: FF /ext for a register, opcode rel32 for a label.
JmpCall(ops, ext, opcode, target) ==
    CASE Kinds(ops) = <<"REG">> ->
            EncodeIf(Width(ops[1]) = 64,
                     Rex(FALSE, REG_INVALID, ops[1].reg, FALSE) \o <<255>>
                        \o RegRm(ext, ops[1].reg))
      [] Kinds(ops) = <<"LABEL">> ->
            EncodeIf(immediate_fits_i32(target), <<opcode>> \o Low(target, 4))
      [] OTHER -> make_error

enc_jcc(ops, target, opcode2) ==
    EncodeIf(Kinds(ops) = <<"LABEL">> /\ immediate_fits_i32(target),
             <<15, opcode2>> \o Low(target, 4))

enc_int(ops) ==
    IF Kinds(ops) # <<"IMM">> THEN make_error
    ELSE EncodeIf(immediate_fits_u8(ops[1].imm), <<205>> \o Low(ops[1].imm, 1))

enc_cqo(ops) == EncodeIf(ops = <<>>, <<72, 153>>)

-----------------------------------------------------------------------------
(* Scalar SSE2 (sse2.c) *)

Xmm(op) == op.kind = "REG" /\ reg_is_xmm(op.reg)
Gpr64(op) == op.kind = "REG" /\ reg_is_gpr(op.reg) /\ Width(op) = 64
valid_memory_base(op) == op.kind = "MEM" /\ reg_is_gpr(op.reg) /\ IsBase(op)

sse2_operands_use_xmm(ops) == \E k \in DOMAIN ops : Xmm(ops[k])

\* prefix, emit_rex_if_needed, 0F opcode; then a register or an address.
SseHead(prefix, w64, reg, rm, opcode) ==
    <<prefix>> \o Rex(w64, reg, rm, FALSE) \o <<15, opcode>>
SseReg(prefix, w64, reg, rm, opcode) ==
    from_buf(SseHead(prefix, w64, reg, rm, opcode) \o RegRm(reg_field(reg), rm))
SseMem(prefix, reg, mem, opcode) ==
    from_buf(SseHead(prefix, FALSE, reg, mem.reg, opcode)
                \o emit_mem_address(reg_field(reg), mem.reg, mem.imm))

sse2_encode_move(ops) ==
    IF Len(ops) # 2 THEN make_error
    ELSE LET dst == ops[1]
             src == ops[2]
    IN  CASE Xmm(dst) /\ Xmm(src)   -> SseReg(243, FALSE, dst.reg, src.reg, 126)
          [] Xmm(dst) /\ Gpr64(src) -> SseReg(102, TRUE, dst.reg, src.reg, 110)
          [] Xmm(dst) /\ valid_memory_base(src) -> SseMem(243, dst.reg, src, 126)
          [] Gpr64(dst) /\ Xmm(src) -> SseReg(102, TRUE, src.reg, dst.reg, 126)
          [] valid_memory_base(dst) /\ Xmm(src) -> SseMem(102, src.reg, dst, 214)
          [] OTHER -> make_error

encode_xmm_binary(ops, prefix, opcode) ==
    IF Len(ops) = 2 /\ Xmm(ops[1]) /\ Xmm(ops[2])
    THEN SseReg(prefix, FALSE, ops[1].reg, ops[2].reg, opcode)
    ELSE make_error

\* encode_cvtsi2sd and encode_cvttsd2si; `gpr` is the integer operand.
Convert(ops, gpr, opcode) ==
    IF /\ Kinds(ops) = <<"REG", "REG">> /\ reg_is_xmm(ops[3 - gpr].reg)
       /\ reg_is_gpr(ops[gpr].reg) /\ Width(ops[gpr]) \in {32, 64}
    THEN SseReg(242, Width(ops[gpr]) = 64, ops[1].reg, ops[2].reg, opcode)
    ELSE make_error

-----------------------------------------------------------------------------
(* The dispatch *)

AluOp == [ADD |-> <<1, 0>>, SUB |-> <<41, 5>>, AND |-> <<33, 4>>,
          OR |-> <<9, 1>>, XOR |-> <<49, 6>>, CMP |-> <<57, 7>>]
UnaryExt == [INC |-> 0, DEC |-> 1, NOT |-> 2, NEG |-> 3]
DivideExt == [DIV |-> 6, IDIV |-> 7]
ShiftExt == [SHL |-> 4, SHR |-> 5, SAR |-> 7]
SetccOp == [SETE |-> 148, SETNE |-> 149, SETG |-> 159, SETL |-> 156, SETGE |-> 157,
            SETLE |-> 158, SETA |-> 151, SETB |-> 146, SETAE |-> 147, SETBE |-> 150,
            SETP |-> 154, SETNP |-> 155]
JccOp == [JE |-> 132, JNE |-> 133, JG |-> 143, JGE |-> 141, JL |-> 140, JLE |-> 142,
          JZ |-> 132, JNZ |-> 133, JS |-> 136, JNS |-> 137]
SseOp == [ADDSD |-> <<242, 88>>, SUBSD |-> <<242, 92>>, MULSD |-> <<242, 89>>,
          DIVSD |-> <<242, 94>>, UCOMISD |-> <<102, 46>>, XORPD |-> <<102, 87>>]
\* enc_ret ... enc_syscall: fixed bytes, the operands are not looked at.
FixedBytes == [RET |-> <<195>>, NOP |-> <<144>>, RDTSC |-> <<15, 49>>,
               HLT |-> <<244>>, SYSCALL |-> <<15, 5>>]

encoder_encode(opcode, ops, target) ==
    CASE opcode = "MOV" -> IF sse2_operands_use_xmm(ops) THEN sse2_encode_move(ops)
                           ELSE enc_mov(ops)
      [] opcode = "PUSH" -> PushPop(ops, 80)
      [] opcode = "POP" -> PushPop(ops, 88)
      [] opcode = "LEA" -> enc_lea(ops)
      [] opcode \in {"MOVZX", "MOVSX"} -> enc_movx(ops, opcode = "MOVSX")
      [] opcode \in DOMAIN AluOp -> enc_alu(ops, AluOp[opcode][1], AluOp[opcode][2])
      [] opcode = "IMUL" -> enc_imul(ops)
      [] opcode \in DOMAIN DivideExt -> enc_divide(ops, DivideExt[opcode])
      [] opcode = "CQO" -> enc_cqo(ops)
      [] opcode \in DOMAIN UnaryExt -> enc_unary(ops, UnaryExt[opcode])
      [] opcode \in DOMAIN SseOp -> encode_xmm_binary(ops, SseOp[opcode][1], SseOp[opcode][2])
      [] opcode = "CVTSI2SD" -> Convert(ops, 2, 42)
      [] opcode = "CVTTSD2SI" -> Convert(ops, 1, 44)
      [] opcode = "TEST" -> enc_test(ops)
      [] opcode \in DOMAIN SetccOp -> enc_setcc(ops, SetccOp[opcode])
      [] opcode \in DOMAIN ShiftExt -> enc_shift(ops, ShiftExt[opcode])
      [] opcode = "JMP" -> JmpCall(ops, 4, 233, target)
      [] opcode = "CALL" -> JmpCall(ops, 2, 232, target)
      [] opcode \in DOMAIN JccOp -> enc_jcc(ops, target, JccOp[opcode])
      [] opcode \in DOMAIN FixedBytes -> from_buf(FixedBytes[opcode])
      [] opcode = "INT" -> enc_int(ops)
      [] OTHER -> make_error

\* The opcodes encoder_instruction_size does not size by encoding.
SizedByHand == {"PUSH", "POP", "JMP", "CALL", "INT"}
    \union DOMAIN JccOp \union DOMAIN FixedBytes

\* Wrong form: the REX prefix of an indirect jump or call is not counted.
size_by_hand_without_rex(opcode, ops) ==
    LET one == IF Kinds(ops) = <<"REG">> THEN Width(ops[1]) ELSE 0 IN
    CASE opcode \in {"PUSH", "POP"} ->
            IF one = 64 THEN 1 + Bit(reg_needs_rex(ops[1].reg), 1) ELSE MAX_BYTES
      [] opcode \in {"JMP", "CALL"} ->
            IF one = 0 THEN 5 ELSE IF one = 64 THEN 2 ELSE MAX_BYTES
      [] opcode = "INT" ->
            IF Kinds(ops) = <<"IMM">> /\ immediate_fits_u8(ops[1].imm) THEN 2
            ELSE MAX_BYTES
      [] opcode \in DOMAIN JccOp -> 6
      [] OTHER -> Len(FixedBytes[opcode])

size_by_hand(opcode, ops) ==
    LET one == IF Kinds(ops) = <<"REG">> THEN Width(ops[1]) ELSE 0 IN
    CASE opcode \in {"PUSH", "POP"} ->
            IF one = 64 THEN 1 + Bit(reg_needs_rex(ops[1].reg), 1) ELSE MAX_BYTES
      [] opcode \in {"JMP", "CALL"} ->
            IF one = 0 THEN 5
            ELSE IF one = 64 THEN 2 + Bit(reg_needs_rex(ops[1].reg), 1) ELSE MAX_BYTES
      [] opcode = "INT" ->
            IF Kinds(ops) = <<"IMM">> /\ immediate_fits_u8(ops[1].imm) THEN 2
            ELSE MAX_BYTES
      [] opcode \in DOMAIN JccOp -> 6
      [] OTHER -> Len(FixedBytes[opcode])

\* SHR and SAR are sized as SHL.
encoder_instruction_size(opcode, ops) ==
    IF opcode \in SizedByHand THEN size_by_hand(opcode, ops)
    ELSE LET enc == encoder_encode(IF opcode \in DOMAIN ShiftExt THEN "SHL" ELSE opcode,
                                   ops, Zero)
         IN  IF enc.error THEN MAX_BYTES ELSE enc.len
=============================================================================
