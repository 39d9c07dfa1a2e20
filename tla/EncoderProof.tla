---------------------------- MODULE EncoderProof ----------------------------
(***************************************************************************)
(* The encoder keeps the contract the passes assume of it, for every       *)
(* instruction the parser can build and every displacement: proofs about   *)
(* encoder_encode and encoder_instruction_size.                            *)
(*                                                                         *)
(* The argument follows the code.  Every form is a sequence of parts whose *)
(* lengths are known, or known up to a prefix and a REX byte; the same     *)
(* parts are built whatever the target, so the call pass 1 makes without   *)
(* one and the call pass 2 makes with it have the same length.  What is    *)
(* sized by hand is compared with what is encoded, opcode by opcode.       *)
(***************************************************************************)
EXTENDS Encoding, SequenceTheorems, TLAPS

Bytes == Seq(Int)
Count(b) == Len(b)

\* What every call returns: an error, or between one and fifteen bytes.
Sound(e) ==
    /\ e.error \in BOOLEAN
    /\ ~e.error => e.bytes \in Bytes /\ e.len = Count(e.bytes) /\ e.len \in 1 .. MAX_BYTES

-----------------------------------------------------------------------------
(* Sequences of bytes *)

LEMMA CountFact == ASSUME NEW b \in Bytes PROVE Count(b) \in Nat
    BY LenProperties DEF Bytes, Count

LEMMA JoinFact ==
    ASSUME NEW a \in Bytes, NEW b \in Bytes
    PROVE  a \o b \in Bytes /\ Count(a \o b) = Count(a) + Count(b)
    BY ConcatProperties DEF Bytes, Count

LEMMA OneByte == ASSUME NEW x \in Int PROVE <<x>> \in Bytes /\ Count(<<x>>) = 1
    BY DEF Bytes, Count

LEMMA TwoBytes ==
    ASSUME NEW x \in Int, NEW y \in Int PROVE <<x, y>> \in Bytes /\ Count(<<x, y>>) = 2
    BY DEF Bytes, Count

LEMMA NoBytes == <<>> \in Bytes /\ Count(<<>>) = 0
    BY EmptySeq DEF Bytes, Count

-----------------------------------------------------------------------------
(* Registers, numbers and the emit helpers *)

LEMMA FieldFact == ASSUME NEW r PROVE reg_field(r) \in 0 .. 7
<1>1. CASE r \in 0 .. 79
    <2>1. r % 16 \in 0 .. 15 /\ (r % 16) % 8 \in 0 .. 7
        BY <1>1, SMT
    <2>2. QED
        BY <1>1, <2>1, SMT DEF reg_field, reg_index
<1>2. CASE r \notin 0 .. 79
    BY <1>2, SMT DEF reg_field, reg_index
<1>3. QED
    BY <1>1, <1>2

LEMMA ModrmFact ==
    ASSUME NEW mod \in Int, NEW reg \in Int, NEW rm \in Int
    PROVE  modrm_byte(mod, reg, rm) \in Int
<1>1. reg % 8 \in Int /\ rm % 8 \in Int
    BY SMT
<1>2. QED
    BY <1>1, SMT DEF modrm_byte

LEMMA BitFact == ASSUME NEW b, NEW n \in Int PROVE Bit(b, n) \in Int
    BY DEF Bit

LEMMA LowFact ==
    ASSUME NEW v \in Number, NEW n \in 1 .. 8
    PROVE  Low(v, n) \in Bytes /\ Count(Low(v, n)) = n
<1>1. \A k \in 1 .. n : v[k] \in Int
    BY SMT DEF Number
<1>2. Low(v, n) \in Seq(Int) /\ Len(Low(v, n)) = IF 1 <= n THEN n - 1 + 1 ELSE 0
    BY <1>1, SubSeqProperties, 1 \in Int, n \in Int DEF Low
<1>3. QED
    BY <1>2, SMT DEF Bytes, Count

LEMMA ZeroFact == Zero \in Number
    BY SMT DEF Zero, Number

LEMMA NumberFact == ASSUME NEW v \in Number PROVE v \in Bytes /\ Count(v) = 8
<1>1. v \in [1 .. 8 -> Int] /\ DOMAIN v = 1 .. 8
    BY DEF Number
<1>2. v \in Seq(Int)
    BY <1>1, SeqDef, 8 \in Nat
<1>3. Count(v) \in Nat /\ 1 .. Count(v) = 1 .. 8
    BY <1>1, <1>2, LenProperties DEF Count
<1>4. Count(v) = 8
    <2>1. 8 \in 1 .. Count(v) /\ (Count(v) = 0 \/ Count(v) \in 1 .. 8)
        BY <1>3
    <2>2. QED
        BY <1>3, <2>1
<1>5. QED
    BY <1>2, <1>4 DEF Bytes

LEMMA RexFact ==
    ASSUME NEW w, NEW reg, NEW rm, NEW force
    PROVE  Rex(w, reg, rm, force) \in Bytes /\ Count(Rex(w, reg, rm, force)) \in 0 .. 1
<1> DEFINE byte == 64 + Bit(w, 8) + Bit(reg_needs_rex(reg), 4) + Bit(reg_needs_rex(rm), 1)
<1>1. byte \in Int
    <2>1. Bit(w, 8) \in Int /\ Bit(reg_needs_rex(reg), 4) \in Int
              /\ Bit(reg_needs_rex(rm), 1) \in Int
        BY BitFact
    <2>2. QED
        BY <2>1, SMT
<1>2. Rex(w, reg, rm, force) \in {<<byte>>, <<>>}
    BY DEF Rex
<1> HIDE DEF byte
<1>3. CASE Rex(w, reg, rm, force) = <<byte>>
    BY <1>1, <1>3, OneByte
<1>4. CASE Rex(w, reg, rm, force) = <<>>
    BY <1>4, NoBytes
<1>5. QED
    BY <1>2, <1>3, <1>4

LEMMA StartFact ==
    ASSUME NEW width, NEW reg, NEW rm, NEW opcode \in Bytes
    PROVE  /\ Start(width, reg, rm, opcode) \in Bytes
           /\ Count(Start(width, reg, rm, opcode)) \in Count(opcode) .. Count(opcode) + 2
<1> DEFINE prefix == emit_width_prefix(width)
           rex == emit_rex_for_width(width, reg, rm)
<1>1. prefix \in Bytes /\ Count(prefix) \in 0 .. 1
    BY OneByte, NoBytes DEF emit_width_prefix
<1>2. rex \in Bytes /\ Count(rex) \in 0 .. 1
    BY RexFact DEF emit_rex_for_width
<1>3. Start(width, reg, rm, opcode) = prefix \o rex \o opcode
    BY DEF Start
<1> HIDE DEF prefix, rex
<1>4. /\ prefix \o rex \in Bytes /\ Count(prefix \o rex) = Count(prefix) + Count(rex)
    BY <1>1, <1>2, JoinFact
<1>5. /\ (prefix \o rex) \o opcode \in Bytes
      /\ Count((prefix \o rex) \o opcode) = Count(prefix \o rex) + Count(opcode)
      /\ Count(opcode) \in Nat
    BY <1>4, JoinFact, CountFact
<1>6. QED
    BY <1>1, <1>2, <1>3, <1>4, <1>5

LEMMA RegRmFact ==
    ASSUME NEW reg \in Int, NEW rm
    PROVE  RegRm(reg, rm) \in Bytes /\ Count(RegRm(reg, rm)) = 1
<1>1. modrm_byte(3, reg, reg_field(rm)) \in Int
    <2>1. reg_field(rm) \in Int /\ 3 \in Int
        BY FieldFact
    <2>2. QED
        BY <2>1, ModrmFact
<1>2. QED
    BY <1>1, OneByte DEF RegRm

LEMMA AddressFact ==
    ASSUME NEW reg \in Int, NEW base, NEW disp \in Number
    PROVE  /\ emit_mem_address(reg, base, disp) \in Bytes
           /\ Count(emit_mem_address(reg, base, disp)) \in 1 .. 6
<1> DEFINE rm == reg_field(base)
           sib == IF rm = 4 THEN <<sib_byte(0, 4, rm)>> ELSE <<>>
           m(mod) == modrm_byte(mod, reg, rm)
<1>1. rm \in Int
    BY FieldFact
<1>2. m(0) \in Int /\ m(1) \in Int /\ m(2) \in Int
    BY <1>1, ModrmFact, 0 \in Int, 1 \in Int, 2 \in Int
<1>3. sib \in Bytes /\ Count(sib) \in 0 .. 1
    <2>1. sib_byte(0, 4, rm) \in Int
        <3>1. rm % 8 \in Int /\ 4 % 8 \in Int
            BY <1>1, SMT
        <3>2. QED
            BY <3>1, SMT DEF sib_byte
    <2>2. QED
        BY <2>1, OneByte, NoBytes
<1>4. /\ Low(disp, 1) \in Bytes /\ Count(Low(disp, 1)) = 1
      /\ Low(disp, 4) \in Bytes /\ Count(Low(disp, 4)) = 4
    BY LowFact
<1>5. emit_mem_address(reg, base, disp) \in
          {<<m(0)>> \o sib, <<m(1)>> \o sib \o Low(disp, 1), <<m(2)>> \o sib \o Low(disp, 4)}
    BY DEF emit_mem_address
<1> HIDE DEF rm, sib, m
<1> DEFINE head(x) == <<x>> \o sib
<1>6. \A x \in Int : head(x) \in Bytes /\ Count(head(x)) = 1 + Count(sib)
    <2>1. TAKE x \in Int
    <2> DEFINE one == <<x>>
    <2>2. one \in Bytes /\ Count(one) = 1
        BY OneByte
    <2>3. head(x) = one \o sib
        OBVIOUS
    <2> HIDE DEF one, head
    <2>4. QED
        BY <1>3, <2>2, <2>3, JoinFact
<1> HIDE DEF head
<1> DEFINE whole(x, z) == head(x) \o z
<1>7. \A x \in Int, z \in {Low(disp, 1), Low(disp, 4)} :
        whole(x, z) \in Bytes /\ Count(whole(x, z)) = Count(head(x)) + Count(z)
    BY <1>4, <1>6, JoinFact
<1>8. emit_mem_address(reg, base, disp) \in
          {head(m(0)), whole(m(1), Low(disp, 1)), whole(m(2), Low(disp, 4))}
    BY <1>5 DEF head
<1> HIDE DEF whole
<1>9. QED
    BY <1>2, <1>3, <1>4, <1>6, <1>7, <1>8

LEMMA FromBufFact ==
    ASSUME NEW b \in Bytes, Count(b) >= 1
    PROVE  /\ Sound(from_buf(b)) /\ ~from_buf(b).error
           /\ Count(b) <= MAX_BYTES => from_buf(b).len = Count(b) /\ from_buf(b).bytes = b
<1> DEFINE kept == IF Count(b) > MAX_BYTES THEN Low(b, MAX_BYTES) ELSE b
<1>0. Count(b) \in Nat
    BY CountFact
<1>1. /\ kept \in Bytes /\ Count(kept) \in 1 .. MAX_BYTES
      /\ Count(b) <= MAX_BYTES => kept = b
    <2>1. CASE Count(b) > MAX_BYTES
        <3>1. \A k \in 1 .. 15 : b[k] \in Int
            <4>1. \A k \in 1 .. 15 : k \in 1 .. Count(b)
                BY <1>0, <2>1 DEF MAX_BYTES
            <4>2. QED
                BY <4>1, ElementOfSeq DEF Bytes, Count
        <3>2. Low(b, 15) \in Seq(Int) /\ Len(Low(b, 15)) = IF 1 <= 15 THEN 15 - 1 + 1 ELSE 0
            BY <3>1, SubSeqProperties, 1 \in Int, 15 \in Int DEF Low
        <3>3. Low(b, 15) \in Bytes /\ Count(Low(b, 15)) = 15
            BY <3>2, SMT DEF Bytes, Count
        <3>4. QED
            BY <1>0, <2>1, <3>3 DEF MAX_BYTES
    <2>2. CASE ~(Count(b) > MAX_BYTES)
        BY <1>0, <2>2 DEF MAX_BYTES
    <2>3. QED
        BY <2>1, <2>2
<1>2. /\ from_buf(b).error = FALSE /\ from_buf(b).len = Count(kept)
      /\ from_buf(b).bytes = kept
    BY DEF from_buf, Count
<1> HIDE DEF kept
<1>3. QED
    BY <1>1, <1>2 DEF Sound

LEMMA ErrorFact == Sound(make_error) /\ make_error.error
    BY DEF Sound, make_error

LEMMA EncodeIfFact ==
    ASSUME NEW ok, NEW b \in Bytes, Count(b) >= 1
    PROVE  /\ Sound(EncodeIf(ok, b))
           /\ ~EncodeIf(ok, b).error => EncodeIf(ok, b) = from_buf(b) /\ ok
<1>1. CASE ok
    BY <1>1, FromBufFact DEF EncodeIf
<1>2. CASE ~ok
    BY <1>2, ErrorFact DEF EncodeIf
<1>3. QED
    BY <1>1, <1>2

-----------------------------------------------------------------------------
(* The operation on operands that name no symbol *)

Plain(ops) == \A k \in DOMAIN ops : ops[k].kind \notin {"RIP", "LABEL"}

\* A result that is sound, and is an error unless the operands are plain.
Fine(e, ops) == Sound(e) /\ (~e.error => Plain(ops))

LEMMA OneKind ==
    ASSUME NEW ops \in Seq(Operand), NEW a, Kinds(ops) = <<a>>
    PROVE  /\ DOMAIN ops = {1} /\ ops[1] \in Operand /\ ops[1].kind = a
           /\ a \notin {"RIP", "LABEL"} => Plain(ops)
<1>1. DOMAIN Kinds(ops) = DOMAIN ops /\ \A k \in DOMAIN ops : Kinds(ops)[k] = ops[k].kind
    BY DEF Kinds
<1>2. DOMAIN <<a>> = {1} /\ <<a>>[1] = a
    OBVIOUS
<1>3. DOMAIN ops = {1} /\ ops[1].kind = a
    BY <1>1, <1>2
<1>4. ops[1] \in Operand
    BY <1>3, LenProperties
<1>5. QED
    BY <1>3, <1>4 DEF Plain

LEMMA TwoKinds ==
    ASSUME NEW ops \in Seq(Operand), NEW a, NEW b, Kinds(ops) = <<a, b>>
    PROVE  /\ DOMAIN ops = {1, 2} /\ ops[1] \in Operand /\ ops[2] \in Operand
           /\ ops[1].kind = a /\ ops[2].kind = b
           /\ a \notin {"RIP", "LABEL"} /\ b \notin {"RIP", "LABEL"} => Plain(ops)
<1>1. DOMAIN Kinds(ops) = DOMAIN ops /\ \A k \in DOMAIN ops : Kinds(ops)[k] = ops[k].kind
    BY DEF Kinds
<1>2. DOMAIN <<a, b>> = {1, 2} /\ <<a, b>>[1] = a /\ <<a, b>>[2] = b
    OBVIOUS
<1>3. DOMAIN ops = {1, 2} /\ ops[1].kind = a /\ ops[2].kind = b
    BY <1>1, <1>2
<1>4. ops[1] \in Operand /\ ops[2] \in Operand
    BY <1>3, LenProperties
<1>5. QED
    BY <1>3, <1>4 DEF Plain

LEMMA ThreeKinds ==
    ASSUME NEW ops \in Seq(Operand), NEW a, NEW b, NEW c, Kinds(ops) = <<a, b, c>>
    PROVE  /\ DOMAIN ops = {1, 2, 3} /\ ops[1] \in Operand /\ ops[2] \in Operand
           /\ ops[3] \in Operand
           /\ {a, b, c} \intersect {"RIP", "LABEL"} = {} => Plain(ops)
<1>1. DOMAIN Kinds(ops) = DOMAIN ops /\ \A k \in DOMAIN ops : Kinds(ops)[k] = ops[k].kind
    BY DEF Kinds
<1>2. /\ DOMAIN <<a, b, c>> = {1, 2, 3}
      /\ <<a, b, c>>[1] = a /\ <<a, b, c>>[2] = b /\ <<a, b, c>>[3] = c
    OBVIOUS
<1>3. DOMAIN ops = {1, 2, 3} /\ ops[1].kind = a /\ ops[2].kind = b /\ ops[3].kind = c
    BY <1>1, <1>2
<1>4. ops[1] \in Operand /\ ops[2] \in Operand /\ ops[3] \in Operand
    BY <1>3, LenProperties
<1>5. QED
    BY <1>3, <1>4 DEF Plain

LEMMA OperandFact ==
    ASSUME NEW op \in Operand
    PROVE  op.imm \in Number /\ op.reg \in 0 .. 255
    BY DEF Operand

LEMMA FineError == ASSUME NEW ops PROVE Fine(make_error, ops)
    BY ErrorFact DEF Fine

LEMMA FineIf ==
    ASSUME NEW ops, NEW ok, NEW b \in Bytes, Count(b) >= 1, Plain(ops)
    PROVE  Fine(EncodeIf(ok, b), ops)
    BY EncodeIfFact DEF Fine

LEMMA FineBuf ==
    ASSUME NEW ops, NEW b \in Bytes, Count(b) >= 1, Plain(ops)
    PROVE  Fine(from_buf(b), ops)
    BY FromBufFact DEF Fine

\* Start followed by one and by two more parts.
LEMMA FormFact ==
    ASSUME NEW width, NEW reg, NEW rm, NEW opcode \in Bytes, Count(opcode) >= 1,
           NEW p \in Bytes
    PROVE  /\ Start(width, reg, rm, opcode) \o p \in Bytes
           /\ Count(Start(width, reg, rm, opcode) \o p) =
                  Count(Start(width, reg, rm, opcode)) + Count(p)
           /\ Count(Start(width, reg, rm, opcode) \o p) >= 1
<1> DEFINE start == Start(width, reg, rm, opcode)
<1>1. start \in Bytes /\ Count(start) \in Count(opcode) .. Count(opcode) + 2
    BY StartFact
<1>2. Count(opcode) \in Nat /\ Count(p) \in Nat
    BY CountFact
<1> HIDE DEF start
<1>3. start \o p \in Bytes /\ Count(start \o p) = Count(start) + Count(p)
    BY <1>1, JoinFact
<1>4. Count(start \o p) >= 1
    BY <1>1, <1>2, <1>3
<1>5. QED
    BY <1>3, <1>4 DEF start

LEMMA LongFormFact ==
    ASSUME NEW width, NEW reg, NEW rm, NEW opcode \in Bytes, Count(opcode) >= 1,
           NEW p \in Bytes, NEW q \in Bytes
    PROVE  /\ Start(width, reg, rm, opcode) \o p \o q \in Bytes
           /\ Count(Start(width, reg, rm, opcode) \o p \o q) =
                  Count(Start(width, reg, rm, opcode)) + Count(p) + Count(q)
           /\ Count(Start(width, reg, rm, opcode) \o p \o q) >= 1
<1> DEFINE form == Start(width, reg, rm, opcode) \o p
<1>1. /\ form \in Bytes /\ Count(form) >= 1
      /\ Count(form) = Count(Start(width, reg, rm, opcode)) + Count(p)
    BY FormFact
<1>2. Count(q) \in Nat /\ Count(form) \in Nat
    BY <1>1, CountFact
<1> HIDE DEF form
<1>3. form \o q \in Bytes /\ Count(form \o q) = Count(form) + Count(q)
    BY <1>1, JoinFact
<1>4. Count(form \o q) >= 1
    BY <1>1, <1>2, <1>3
<1>5. QED
    BY <1>1, <1>3, <1>4 DEF form

-----------------------------------------------------------------------------
(* The encodings, one lemma per function of table.c and sse2.c *)

\* Code with at least one byte.
Code(b) == b \in Bytes /\ Count(b) >= 1

LEMMA ByWidthFact == ASSUME NEW n \in Int, NEW w PROVE ByWidth(n, w) \in Int
    BY DEF ByWidth

LEMMA EmitRrFact ==
    ASSUME NEW opcode \in Int, NEW dst, NEW src, NEW width
    PROVE  Code(emit_rr(opcode, dst, src, width))
<1>1. reg_field(src) \in Int
    BY FieldFact
<1>2. RegRm(reg_field(src), dst) \in Bytes /\ <<opcode>> \in Bytes /\ Count(<<opcode>>) >= 1
    BY <1>1, RegRmFact, OneByte
<1>3. QED
    BY <1>2, FormFact DEF emit_rr, Code

LEMMA EmitMemFact ==
    ASSUME NEW opcode \in Int, NEW reg, NEW base, NEW disp \in Number, NEW width
    PROVE  Code(emit_mem(opcode, reg, base, disp, width))
<1>1. reg_field(reg) \in Int
    BY FieldFact
<1>2. /\ emit_mem_address(reg_field(reg), base, disp) \in Bytes
      /\ <<opcode>> \in Bytes /\ Count(<<opcode>>) >= 1
    BY <1>1, AddressFact, OneByte
<1>3. QED
    BY <1>2, FormFact DEF emit_mem, Code

\* Opcode and ModRM, and the same followed by an immediate.
LEMMA OpModrmFact ==
    ASSUME NEW width, NEW reg, NEW rm, NEW opcode \in Bytes, Count(opcode) >= 1,
           NEW ext \in Int, NEW r
    PROVE  /\ Code(Start(width, reg, rm, opcode) \o RegRm(ext, r))
           /\ \A v \in Bytes : Code(Start(width, reg, rm, opcode) \o RegRm(ext, r) \o v)
<1>1. RegRm(ext, r) \in Bytes
    BY RegRmFact
<1>2. QED
    BY <1>1, FormFact, LongFormFact DEF Code

LEMMA FineCode ==
    ASSUME NEW ops, NEW ok, NEW b, Code(b), Plain(ops)
    PROVE  Fine(EncodeIf(ok, b), ops) /\ Fine(from_buf(b), ops)
    BY FineIf, FineBuf DEF Code

LEMMA AluImmediateFact ==
    ASSUME NEW ops, Plain(ops), NEW r, NEW v \in Number, NEW ext \in Int
    PROVE  Fine(AluImmediate(r, v, ext), ops)
<1> DEFINE w == reg_width_bits(r)
           b(opcode, imm) == Start(w, REG_INVALID, r, <<opcode>>) \o RegRm(ext, r) \o imm
           ok == valid_integer_width(w) /\ FitsOperand(v, w)
<1>1. \A opcode \in Int, imm \in Bytes : Code(b(opcode, imm))
    BY OneByte, OpModrmFact
<1>2. Low(v, 1) \in Bytes
    BY LowFact
<1>3. AluImmediate(r, v, ext) = EncodeIf(ok,
          IF w = 8 THEN b(128, Low(v, 1))
          ELSE IF immediate_fits_i8(v) THEN b(131, Low(v, 1))
          ELSE b(129, Low(v, ImmBytes(w))))
    BY DEF AluImmediate
<1> HIDE DEF b
<1>4. CASE ~ok
    BY <1>3, <1>4, FineError DEF EncodeIf
<1>5. CASE ok
    <2>1. w \in {8, 16, 32, 64}
        BY <1>5 DEF valid_integer_width
    <2> HIDE DEF w, ok
    <2>2. ImmBytes(w) \in 1 .. 8
        <3>1. 16 \div 8 = 2 /\ 8 \div 8 = 1 /\ 32 \div 8 = 4
            BY SMT
        <3>2. QED
            BY <2>1, <3>1 DEF ImmBytes
    <2>3. Low(v, ImmBytes(w)) \in Bytes
        BY <2>2, LowFact
    <2>4. Code(IF w = 8 THEN b(128, Low(v, 1))
               ELSE IF immediate_fits_i8(v) THEN b(131, Low(v, 1))
               ELSE b(129, Low(v, ImmBytes(w))))
        BY <1>1, <1>2, <2>3
    <2>5. QED
        BY <1>3, <2>4, FineCode
<1>6. QED
    BY <1>4, <1>5

LEMMA AluFact ==
    ASSUME NEW ops \in Seq(Operand), NEW op_rr \in Int, NEW ri_ext \in Int
    PROVE  Fine(enc_alu(ops, op_rr, ri_ext), ops)
<1> DEFINE w == Width(ops[1])
           rr == emit_rr(ByWidth(op_rr, w), ops[1].reg, ops[2].reg, w)
           rm == emit_mem(ByWidth(op_rr, w) + 2, ops[1].reg, ops[2].reg, ops[2].imm, w)
           ok1 == same_register_width(ops[1].reg, ops[2].reg)
           ok2 == valid_integer_width(w) /\ IsBase(ops[2])
<1>1. \/ Kinds(ops) = <<"REG", "REG">> /\ enc_alu(ops, op_rr, ri_ext) = EncodeIf(ok1, rr)
      \/ /\ Kinds(ops) = <<"REG", "IMM">>
         /\ enc_alu(ops, op_rr, ri_ext) = AluImmediate(ops[1].reg, ops[2].imm, ri_ext)
      \/ Kinds(ops) = <<"REG", "MEM">> /\ enc_alu(ops, op_rr, ri_ext) = EncodeIf(ok2, rm)
      \/ enc_alu(ops, op_rr, ri_ext) = make_error
    BY DEF enc_alu
<1>2. ByWidth(op_rr, w) \in Int /\ ByWidth(op_rr, w) + 2 \in Int
    BY ByWidthFact
<1>3. CASE Kinds(ops) = <<"REG", "REG">> /\ enc_alu(ops, op_rr, ri_ext) = EncodeIf(ok1, rr)
    <2>1. Plain(ops)
        BY <1>3, TwoKinds
    <2>2. Code(rr)
        BY <1>2, EmitRrFact
    <2> HIDE DEF rr, ok1
    <2>3. QED
        BY <1>3, <2>1, <2>2, FineCode
<1>4. CASE /\ Kinds(ops) = <<"REG", "IMM">>
           /\ enc_alu(ops, op_rr, ri_ext) = AluImmediate(ops[1].reg, ops[2].imm, ri_ext)
    <2>1. Plain(ops) /\ ops[2].imm \in Number
        BY <1>4, TwoKinds, OperandFact
    <2>2. QED
        BY <1>4, <2>1, AluImmediateFact
<1>5. CASE Kinds(ops) = <<"REG", "MEM">> /\ enc_alu(ops, op_rr, ri_ext) = EncodeIf(ok2, rm)
    <2>1. Plain(ops) /\ ops[2].imm \in Number
        BY <1>5, TwoKinds, OperandFact
    <2>2. Code(rm)
        BY <1>2, <2>1, EmitMemFact
    <2> HIDE DEF rm, ok2
    <2>3. QED
        BY <1>5, <2>1, <2>2, FineCode
<1>6. CASE enc_alu(ops, op_rr, ri_ext) = make_error
    BY <1>6, FineError
<1>7. QED
    BY <1>1, <1>3, <1>4, <1>5, <1>6

LEMMA OneRegisterFact ==
    ASSUME NEW ops \in Seq(Operand), NEW opcode \in Int, NEW ext \in Int
    PROVE  Fine(OneRegister(ops, opcode, ext), ops)
<1> DEFINE w == Width(ops[1])
           b == Start(w, REG_INVALID, ops[1].reg, <<ByWidth(opcode, w)>>)
                    \o RegRm(ext, ops[1].reg)
           ok == valid_integer_width(w)
<1>1. \/ Kinds(ops) = <<"REG">> /\ OneRegister(ops, opcode, ext) = EncodeIf(ok, b)
      \/ OneRegister(ops, opcode, ext) = make_error
    BY DEF OneRegister
<1>2. CASE Kinds(ops) = <<"REG">> /\ OneRegister(ops, opcode, ext) = EncodeIf(ok, b)
    <2>1. Plain(ops)
        BY <1>2, OneKind
    <2>2. ByWidth(opcode, w) \in Int
        BY ByWidthFact
    <2>3. <<ByWidth(opcode, w)>> \in Bytes /\ Count(<<ByWidth(opcode, w)>>) >= 1
        BY <2>2, OneByte
    <2>4. Code(b)
        BY <2>3, OpModrmFact
    <2> HIDE DEF b, ok
    <2>5. QED
        BY <1>2, <2>1, <2>4, FineCode
<1>3. CASE OneRegister(ops, opcode, ext) = make_error
    BY <1>3, FineError
<1>4. QED
    BY <1>1, <1>2, <1>3

\* The immediate after an operand of width 8, 16, 32 or 64.
LEMMA ImmBytesFact ==
    ASSUME NEW w \in {8, 16, 32, 64} PROVE ImmBytes(w) \in 1 .. 8 /\ w \div 8 \in 1 .. 8
<1>1. 16 \div 8 = 2 /\ 8 \div 8 = 1 /\ 32 \div 8 = 4 /\ 64 \div 8 = 8
    BY SMT
<1>2. QED
    BY <1>1 DEF ImmBytes

LEMMA ImulFact ==
    ASSUME NEW ops \in Seq(Operand)
    PROVE  Fine(enc_imul(ops), ops)
<1> DEFINE w == Width(ops[1])
           ok == w # 8 /\ valid_integer_width(w)
           r == ops[1].reg
           b(opcode) == Start(w, r, ops[2].reg, opcode)
           rr == b(<<15, 175>>) \o RegRm(reg_field(r), ops[2].reg)
           rm == b(<<15, 175>>) \o emit_mem_address(reg_field(r), ops[2].reg, ops[2].imm)
           v == ops[3].imm
           short == immediate_fits_i8(v)
           rri == b(<<IF short THEN 107 ELSE 105>>) \o RegRm(reg_field(r), ops[2].reg)
                    \o Low(v, IF short THEN 1 ELSE ImmBytes(w))
           ok1 == ok /\ same_register_width(r, ops[2].reg)
           ok2 == ok /\ IsBase(ops[2])
           ok3 == /\ ok /\ same_register_width(r, ops[2].reg)
                  /\ FitsOperand(v, w)
<1>1. \/ Kinds(ops) = <<"REG", "REG">> /\ enc_imul(ops) = EncodeIf(ok1, rr)
      \/ Kinds(ops) = <<"REG", "MEM">> /\ enc_imul(ops) = EncodeIf(ok2, rm)
      \/ Kinds(ops) = <<"REG", "REG", "IMM">> /\ enc_imul(ops) = EncodeIf(ok3, rri)
      \/ enc_imul(ops) = make_error
    <2>1. CASE Kinds(ops) = <<"REG", "REG">>
        <3>1. enc_imul(ops) = EncodeIf(ok1, rr)
            BY <2>1 DEF enc_imul
        <3>2. QED
            BY <2>1, <3>1
    <2>2. CASE Kinds(ops) = <<"REG", "MEM">>
        <3>1. enc_imul(ops) = EncodeIf(ok2, rm)
            BY <2>2 DEF enc_imul
        <3>2. QED
            BY <2>2, <3>1
    <2>3. CASE Kinds(ops) = <<"REG", "REG", "IMM">>
        <3>1. enc_imul(ops) = EncodeIf(ok3, rri)
            BY <2>3 DEF enc_imul
        <3>2. QED
            BY <2>3, <3>1
    <2>4. CASE Kinds(ops) \notin {<<"REG", "REG">>, <<"REG", "MEM">>, <<"REG", "REG", "IMM">>}
        <3>1. enc_imul(ops) = make_error
            BY <2>4 DEF enc_imul
        <3>2. QED
            BY <3>1
    <2>5. QED
        BY <2>1, <2>2, <2>3, <2>4
<1>2. reg_field(r) \in Int /\ <<15, 175>> \in Bytes /\ Count(<<15, 175>>) >= 1
    BY FieldFact, TwoBytes
<1>3. CASE Kinds(ops) = <<"REG", "REG">> /\ enc_imul(ops) = EncodeIf(ok1, rr)
    <2>1. Plain(ops)
        BY <1>3, TwoKinds
    <2>2. Code(rr)
        BY <1>2, OpModrmFact
    <2> HIDE DEF rr, ok1
    <2>3. QED
        BY <1>3, <2>1, <2>2, FineCode
<1>4. CASE Kinds(ops) = <<"REG", "MEM">> /\ enc_imul(ops) = EncodeIf(ok2, rm)
    <2>1. Plain(ops) /\ ops[2].imm \in Number
        BY <1>4, TwoKinds, OperandFact
    <2>2. emit_mem_address(reg_field(r), ops[2].reg, ops[2].imm) \in Bytes
        BY <1>2, <2>1, AddressFact
    <2>3. Code(rm)
        BY <1>2, <2>2, FormFact DEF Code
    <2> HIDE DEF rm, ok2
    <2>4. QED
        BY <1>4, <2>1, <2>3, FineCode
<1>5. CASE Kinds(ops) = <<"REG", "REG", "IMM">> /\ enc_imul(ops) = EncodeIf(ok3, rri)
    <2>1. Plain(ops) /\ v \in Number
        BY <1>5, ThreeKinds, OperandFact
    <2>2. CASE ~ok3
        BY <1>5, <2>2, FineError DEF EncodeIf
    <2>3. CASE ok3
        <3>1. w \in {8, 16, 32, 64}
            BY <2>3 DEF valid_integer_width
        <3> DEFINE n == IF short THEN 1 ELSE ImmBytes(w)
                   opcode == IF short THEN 107 ELSE 105
        <3>2. n \in 1 .. 8
            BY <3>1, ImmBytesFact
        <3>3. opcode \in Int
            OBVIOUS
        <3> HIDE DEF n, opcode
        <3>4. Low(v, n) \in Bytes /\ <<opcode>> \in Bytes /\ Count(<<opcode>>) >= 1
            BY <2>1, <3>2, <3>3, LowFact, OneByte
        <3>5. Code(rri)
            BY <1>2, <3>4, OpModrmFact DEF n, opcode
        <3> HIDE DEF rri, ok3
        <3>6. QED
            BY <1>5, <2>1, <3>5, FineCode
    <2>4. QED
        BY <2>2, <2>3
<1>6. CASE enc_imul(ops) = make_error
    BY <1>6, FineError
<1>7. QED
    BY <1>1, <1>3, <1>4, <1>5, <1>6

LEMMA TestFact ==
    ASSUME NEW ops \in Seq(Operand)
    PROVE  Fine(enc_test(ops), ops)
<1> DEFINE r == ops[1].reg
           w == reg_width_bits(r)
           rr == emit_rr(ByWidth(133, w), r, ops[2].reg, w)
           ri == Start(w, REG_INVALID, r, <<ByWidth(247, w)>>) \o RegRm(0, r)
                    \o Low(ops[2].imm, ImmBytes(w))
           ok1 == same_register_width(r, ops[2].reg)
           ok2 == valid_integer_width(w) /\ FitsOperand(ops[2].imm, w)
<1>1. \/ Kinds(ops) = <<"REG", "REG">> /\ enc_test(ops) = EncodeIf(ok1, rr)
      \/ Kinds(ops) = <<"REG", "IMM">> /\ enc_test(ops) = EncodeIf(ok2, ri)
      \/ enc_test(ops) = make_error
    BY DEF enc_test
<1>2. ByWidth(133, w) \in Int /\ ByWidth(247, w) \in Int /\ 0 \in Int
    BY ByWidthFact
<1>3. CASE Kinds(ops) = <<"REG", "REG">> /\ enc_test(ops) = EncodeIf(ok1, rr)
    <2>1. Plain(ops)
        BY <1>3, TwoKinds
    <2>2. Code(rr)
        BY <1>2, EmitRrFact
    <2> HIDE DEF rr, ok1
    <2>3. QED
        BY <1>3, <2>1, <2>2, FineCode
<1>4. CASE Kinds(ops) = <<"REG", "IMM">> /\ enc_test(ops) = EncodeIf(ok2, ri)
    <2>1. Plain(ops) /\ ops[2].imm \in Number
        BY <1>4, TwoKinds, OperandFact
    <2>2. CASE ~ok2
        BY <1>4, <2>2, FineError DEF EncodeIf
    <2>3. CASE ok2
        <3>1. ImmBytes(w) \in 1 .. 8
            BY <2>3, ImmBytesFact DEF valid_integer_width
        <3>2. /\ Low(ops[2].imm, ImmBytes(w)) \in Bytes
              /\ <<ByWidth(247, w)>> \in Bytes /\ Count(<<ByWidth(247, w)>>) >= 1
            BY <1>2, <2>1, <3>1, LowFact, OneByte
        <3>3. Code(ri)
            BY <1>2, <3>2, OpModrmFact
        <3> HIDE DEF ri, ok2
        <3>4. QED
            BY <1>4, <2>1, <3>3, FineCode
    <2>4. QED
        BY <2>2, <2>3
<1>5. CASE enc_test(ops) = make_error
    BY <1>5, FineError
<1>6. QED
    BY <1>1, <1>3, <1>4, <1>5

LEMMA SetccFact ==
    ASSUME NEW ops \in Seq(Operand), NEW opcode2 \in Int
    PROVE  Fine(enc_setcc(ops, opcode2), ops)
<1> DEFINE b == Start(8, REG_INVALID, ops[1].reg, <<15, opcode2>>)
           r == b \o RegRm(0, ops[1].reg)
           m == b \o emit_mem_address(0, ops[1].reg, ops[1].imm)
           ok1 == Width(ops[1]) = 8
           ok2 == IsBase(ops[1])
<1>1. \/ Kinds(ops) = <<"REG">> /\ enc_setcc(ops, opcode2) = EncodeIf(ok1, r)
      \/ Kinds(ops) = <<"MEM">> /\ enc_setcc(ops, opcode2) = EncodeIf(ok2, m)
      \/ enc_setcc(ops, opcode2) = make_error
    BY DEF enc_setcc
<1>2. <<15, opcode2>> \in Bytes /\ Count(<<15, opcode2>>) >= 1 /\ 0 \in Int
    BY TwoBytes
<1>3. CASE Kinds(ops) = <<"REG">> /\ enc_setcc(ops, opcode2) = EncodeIf(ok1, r)
    <2>1. Plain(ops)
        BY <1>3, OneKind
    <2>2. Code(r)
        BY <1>2, OpModrmFact
    <2> HIDE DEF r, ok1
    <2>3. QED
        BY <1>3, <2>1, <2>2, FineCode
<1>4. CASE Kinds(ops) = <<"MEM">> /\ enc_setcc(ops, opcode2) = EncodeIf(ok2, m)
    <2>1. Plain(ops) /\ ops[1].imm \in Number
        BY <1>4, OneKind, OperandFact
    <2>2. emit_mem_address(0, ops[1].reg, ops[1].imm) \in Bytes
        BY <1>2, <2>1, AddressFact
    <2>3. Code(m)
        BY <1>2, <2>2, FormFact DEF Code
    <2> HIDE DEF m, ok2
    <2>4. QED
        BY <1>4, <2>1, <2>3, FineCode
<1>5. CASE enc_setcc(ops, opcode2) = make_error
    BY <1>5, FineError
<1>6. QED
    BY <1>1, <1>3, <1>4, <1>5

\* enc_shift is sized for SHL whatever the shift: the extension changes no length.
LEMMA ShiftFact ==
    ASSUME NEW ops \in Seq(Operand), NEW ext \in Int
    PROVE  /\ Fine(enc_shift(ops, ext), ops)
           /\ enc_shift(ops, ext).error <=> enc_shift(ops, 4).error
           /\ ~enc_shift(ops, ext).error => enc_shift(ops, ext).len = enc_shift(ops, 4).len
<1> DEFINE r == ops[1].reg
           w == reg_width_bits(r)
           b(opcode, x) == Start(w, REG_INVALID, r, <<ByWidth(opcode, w)>>) \o RegRm(x, r)
           ri(x) == IF ops[2].imm = Int64(1) THEN b(209, x) ELSE b(193, x) \o Low(ops[2].imm, 1)
           rc(x) == b(211, x)
           ok1 == valid_integer_width(w) /\ immediate_fits_u8(ops[2].imm)
           ok2 == valid_integer_width(w) /\ ops[2].reg \in {REG_CL, REG_RCX}
<1>1. \A x : \/ Kinds(ops) = <<"REG", "IMM">> /\ enc_shift(ops, x) = EncodeIf(ok1, ri(x))
             \/ Kinds(ops) = <<"REG", "REG">> /\ enc_shift(ops, x) = EncodeIf(ok2, rc(x))
             \/ /\ Kinds(ops) \notin {<<"REG", "IMM">>, <<"REG", "REG">>}
                /\ enc_shift(ops, x) = make_error
    BY DEF enc_shift
<1>2. \A opcode \in Int, x \in Int, v \in Bytes :
        /\ Code(b(opcode, x)) /\ Code(b(opcode, x) \o v)
        /\ Count(b(opcode, x)) \in 2 .. 4
        /\ Count(b(opcode, x)) = Count(b(opcode, 4))
        /\ Count(b(opcode, x) \o v) = Count(b(opcode, x)) + Count(v)
    <2>1. TAKE opcode \in Int, x \in Int, v \in Bytes
    <2> DEFINE start == Start(w, REG_INVALID, r, <<ByWidth(opcode, w)>>)
    <2>2. <<ByWidth(opcode, w)>> \in Bytes /\ Count(<<ByWidth(opcode, w)>>) = 1
        BY ByWidthFact, OneByte
    <2>3. start \in Bytes /\ Count(start) \in 1 .. 3
        <3>1. /\ start \in Bytes
              /\ Count(start) \in Count(<<ByWidth(opcode, w)>>) .. Count(<<ByWidth(opcode, w)>>) + 2
            BY <2>2, StartFact
        <3> HIDE DEF start
        <3>2. QED
            BY <2>2, <3>1
    <2>4. /\ RegRm(x, r) \in Bytes /\ Count(RegRm(x, r)) = 1
          /\ RegRm(4, r) \in Bytes /\ Count(RegRm(4, r)) = 1
        BY RegRmFact, 4 \in Int
    <2>5. b(opcode, x) = start \o RegRm(x, r) /\ b(opcode, 4) = start \o RegRm(4, r)
        OBVIOUS
    <2> HIDE DEF start, b
    <2>6. /\ b(opcode, x) \in Bytes /\ Count(b(opcode, x)) = Count(start) + 1
          /\ b(opcode, 4) \in Bytes /\ Count(b(opcode, 4)) = Count(start) + 1
        BY <2>3, <2>4, <2>5, JoinFact
    <2>7. /\ b(opcode, x) \o v \in Bytes
          /\ Count(b(opcode, x) \o v) = Count(b(opcode, x)) + Count(v)
          /\ Count(v) \in Nat
        BY <2>6, JoinFact, CountFact
    <2>8. QED
        BY <2>3, <2>6, <2>7 DEF Code
<1>3. CASE Kinds(ops) = <<"REG", "IMM">>
    <2>1. Plain(ops) /\ ops[2].imm \in Number
        BY <1>3, TwoKinds, OperandFact
    <2>2. \A x \in Int : enc_shift(ops, x) = EncodeIf(ok1, ri(x))
        BY <1>1, <1>3
    <2>3. Low(ops[2].imm, 1) \in Bytes /\ Count(Low(ops[2].imm, 1)) = 1
        BY <2>1, LowFact
    <2> HIDE DEF b, ok1
    <2>4. \A x \in Int : /\ Code(ri(x)) /\ Count(ri(x)) <= 15
                         /\ Count(ri(x)) = Count(ri(4))
        BY <1>2, <2>3
    <2> HIDE DEF ri
    <2>5. \A x \in Int : /\ Fine(enc_shift(ops, x), ops)
                         /\ enc_shift(ops, x).error = ~ok1
                         /\ ok1 => enc_shift(ops, x).len = Count(ri(x))
        <3>1. TAKE x \in Int
        <3>2. Fine(enc_shift(ops, x), ops)
            BY <2>1, <2>2, <2>4, FineCode
        <3>3. CASE ok1
            <4>1. enc_shift(ops, x) = from_buf(ri(x))
                BY <2>2, <3>3 DEF EncodeIf
            <4>2. ~from_buf(ri(x)).error /\ from_buf(ri(x)).len = Count(ri(x))
                BY <2>4, FromBufFact DEF Code, MAX_BYTES
            <4>3. enc_shift(ops, x).error \in BOOLEAN
                BY <3>2 DEF Fine, Sound
            <4>4. QED
                BY <3>2, <3>3, <4>1, <4>2, <4>3
        <3>4. CASE ~ok1
            <4>1. enc_shift(ops, x) = make_error
                BY <2>2, <3>4 DEF EncodeIf
            <4>2. enc_shift(ops, x).error = TRUE
                BY <4>1 DEF make_error
            <4>3. QED
                BY <3>2, <3>4, <4>2
        <3>5. QED
            BY <3>3, <3>4
    <2>6. QED
        BY <2>4, <2>5, 4 \in Int
<1>4. CASE Kinds(ops) = <<"REG", "REG">>
    <2>1. Plain(ops)
        BY <1>4, TwoKinds
    <2>2. \A x \in Int : enc_shift(ops, x) = EncodeIf(ok2, rc(x))
        BY <1>1, <1>4
    <2> HIDE DEF b, ok2
    <2>4. \A x \in Int : /\ Code(rc(x)) /\ Count(rc(x)) <= 15
                         /\ Count(rc(x)) = Count(rc(4))
        BY <1>2, NoBytes
    <2> HIDE DEF rc
    <2>5. \A x \in Int : /\ Fine(enc_shift(ops, x), ops)
                         /\ enc_shift(ops, x).error = ~ok2
                         /\ ok2 => enc_shift(ops, x).len = Count(rc(x))
        <3>1. TAKE x \in Int
        <3>2. Fine(enc_shift(ops, x), ops)
            BY <2>1, <2>2, <2>4, FineCode
        <3>3. CASE ok2
            <4>1. enc_shift(ops, x) = from_buf(rc(x))
                BY <2>2, <3>3 DEF EncodeIf
            <4>2. ~from_buf(rc(x)).error /\ from_buf(rc(x)).len = Count(rc(x))
                BY <2>4, FromBufFact DEF Code, MAX_BYTES
            <4>3. enc_shift(ops, x).error \in BOOLEAN
                BY <3>2 DEF Fine, Sound
            <4>4. QED
                BY <3>2, <3>3, <4>1, <4>2, <4>3
        <3>4. CASE ~ok2
            <4>1. enc_shift(ops, x) = make_error
                BY <2>2, <3>4 DEF EncodeIf
            <4>2. enc_shift(ops, x).error = TRUE
                BY <4>1 DEF make_error
            <4>3. QED
                BY <3>2, <3>4, <4>2
        <3>5. QED
            BY <3>3, <3>4
    <2>6. QED
        BY <2>4, <2>5, 4 \in Int
<1>5. CASE Kinds(ops) \notin {<<"REG", "IMM">>, <<"REG", "REG">>}
    <2>1. enc_shift(ops, ext) = make_error /\ enc_shift(ops, 4) = make_error
        BY <1>1, <1>5
    <2>2. QED
        BY <2>1, FineError, ErrorFact
<1>6. QED
    BY <1>3, <1>4, <1>5

-----------------------------------------------------------------------------
(* The operands that name a symbol *)

\* The four bytes the linker or the passes fill in close the instruction.
EndsInField(e) == e.len >= 4 /\ Cut(e.bytes, e.len - 3, 4) = Low(Zero, 4)

\* Moves and loads: plain, or [rip+label] beside a register, or a label.
MoveForms(e, ops) ==
    /\ Sound(e)
    /\ ~e.error =>
          \/ Plain(ops)
          \/ Kinds(ops) \in {<<"REG", "RIP">>, <<"RIP", "REG">>} /\ EndsInField(e)
          \/ Kinds(ops) = <<"REG", "LABEL">> /\ e.len = 10

LEMMA TailFact ==
    ASSUME NEW a \in Bytes, NEW z \in Bytes, Count(z) = 4
    PROVE  Cut(a \o z, Count(a \o z) - 3, 4) = z
<1> DEFINE n == Count(a)
           s == a \o z
<1>1. n \in Nat
    BY CountFact
<1>2. s \in Bytes /\ Count(s) = n + 4
    BY JoinFact
<1>3. \A k \in 1 .. n + 4 : s[k] = IF k <= n THEN a[k] ELSE z[k - n]
    <2>1. \A k \in 1 .. Len(a) + Len(z) : s[k] = IF k <= Len(a) THEN a[k] ELSE z[k - Len(a)]
        BY ConcatProperties DEF Bytes
    <2>2. QED
        BY <2>1 DEF Count
<1>4. \A k \in 1 .. n + 4 : s[k] \in Int
    BY <1>2, ElementOfSeq DEF Bytes, Count
<1> HIDE DEF n, s
<1> DEFINE c == SubSeq(s, n + 1, n + 4)
<1>5. /\ c \in Seq(Int) /\ Count(c) = IF n + 1 <= n + 4 THEN (n + 4) - (n + 1) + 1 ELSE 0
      /\ \A i \in 1 .. (n + 4) - (n + 1) + 1 : c[i] = s[n + 1 + i - 1]
    <2>1. \A k \in n + 1 .. n + 4 : s[k] \in Int
        BY <1>1, <1>4
    <2>2. n + 1 \in Int /\ n + 4 \in Int
        BY <1>1
    <2>3. QED
        BY <2>1, <2>2, SubSeqProperties DEF Count
<1>6. Cut(s, Count(s) - 3, 4) = c
    <2>1. Count(s) - 3 = n + 1 /\ (Count(s) - 3) + 4 - 1 = n + 4
        BY <1>1, <1>2
    <2>2. Cut(s, Count(s) - 3, 4) = SubSeq(s, Count(s) - 3, (Count(s) - 3) + 4 - 1)
        BY DEF Cut
    <2>3. QED
        BY <2>1, <2>2
<1> HIDE DEF c
<1>7. Count(c) = 4 /\ \A i \in 1 .. 4 : c[i] = z[i]
    <2>1. Count(c) = 4
        BY <1>1, <1>5
    <2>2. ASSUME NEW i \in 1 .. 4 PROVE c[i] = z[i]
        <3>1. i \in 1 .. (n + 4) - (n + 1) + 1 /\ n + 1 + i - 1 = n + i
                /\ n + i \in 1 .. n + 4 /\ ~(n + i <= n) /\ (n + i) - n = i
            BY <1>1
        <3>2. c[i] = s[n + i]
            BY <1>5, <3>1
        <3>3. s[n + i] = z[(n + i) - n]
            BY <1>3, <3>1
        <3>4. QED
            BY <3>1, <3>2, <3>3
    <2>3. QED
        BY <2>1, <2>2
<1>8. c = z
    BY <1>5, <1>7, SeqEqual DEF Bytes, Count
<1>9. QED
    BY <1>6, <1>8 DEF s

LEMMA RipFact ==
    ASSUME NEW opcode \in Int, NEW reg, NEW width
    PROVE  LET e == from_buf(emit_rip_relative_mem(opcode, reg, width))
           IN  Sound(e) /\ EndsInField(e)
<1> DEFINE start == Start(width, reg, REG_INVALID, <<opcode>>)
           modrm == <<modrm_byte(0, reg_field(reg), 5)>>
           a == start \o modrm
           z == Low(Zero, 4)
           e == from_buf(a \o z)
<1>1. start \in Bytes /\ Count(start) \in 1 .. 3
    <2>1. <<opcode>> \in Bytes /\ Count(<<opcode>>) = 1
        BY OneByte
    <2>2. /\ start \in Bytes
          /\ Count(start) \in Count(<<opcode>>) .. Count(<<opcode>>) + 2
        BY <2>1, StartFact
    <2> HIDE DEF start
    <2>3. QED
        BY <2>1, <2>2
<1>2. modrm \in Bytes /\ Count(modrm) = 1
    <2>1. reg_field(reg) \in Int /\ 0 \in Int /\ 5 \in Int
        BY FieldFact
    <2>2. QED
        BY <2>1, ModrmFact, OneByte
<1>3. z \in Bytes /\ Count(z) = 4
    BY ZeroFact, LowFact
<1>4. emit_rip_relative_mem(opcode, reg, width) = a \o z
    BY DEF emit_rip_relative_mem
<1> HIDE DEF start, modrm, z
<1>5. a \in Bytes /\ Count(a) \in 2 .. 4
    BY <1>1, <1>2, JoinFact
<1> HIDE DEF a
<1>6. a \o z \in Bytes /\ Count(a \o z) \in 6 .. 8
    BY <1>3, <1>5, JoinFact
<1>7. Count(a \o z) >= 1 /\ Count(a \o z) <= MAX_BYTES
    BY <1>6 DEF MAX_BYTES
<1>8. Sound(e) /\ e.len = Count(a \o z) /\ e.bytes = a \o z
    BY <1>6, <1>7, FromBufFact
<1>9. Cut(a \o z, Count(a \o z) - 3, 4) = z
    BY <1>3, <1>5, TailFact
<1> HIDE DEF e
<1>10. e.len >= 4
    BY <1>6, <1>8
<1>11. EndsInField(e)
    BY <1>8, <1>9, <1>10 DEF EndsInField, z
<1>12. QED
    BY <1>4, <1>8, <1>11 DEF e

LEMMA FineMoves == ASSUME NEW ops, NEW e, Fine(e, ops) PROVE MoveForms(e, ops)
    BY DEF Fine, MoveForms

LEMMA RipMoves ==
    ASSUME NEW ops, Kinds(ops) \in {<<"REG", "RIP">>, <<"RIP", "REG">>}, NEW ok,
           NEW opcode \in Int, NEW reg, NEW width
    PROVE  MoveForms(EncodeIf(ok, emit_rip_relative_mem(opcode, reg, width)), ops)
<1>1. CASE ok
    BY <1>1, RipFact DEF EncodeIf, MoveForms
<1>2. CASE ~ok
    BY <1>2, ErrorFact DEF EncodeIf, MoveForms
<1>3. QED
    BY <1>1, <1>2

LEMMA MovImmediateFact ==
    ASSUME NEW ops, Plain(ops), NEW r, NEW v \in Number
    PROVE  Fine(MovImmediate(r, v), ops)
<1> DEFINE w == reg_width_bits(r)
           b(opcode) == Start(w, REG_INVALID, r, opcode)
           low == b(<<199>>) \o RegRm(0, r) \o Low(v, 4)
           full == b(<<184 + reg_field(r)>>) \o v
           part == b(<<(IF w = 8 THEN 176 ELSE 184) + reg_field(r)>>) \o Low(v, w \div 8)
           ok == valid_integer_width(w) /\ FitsOperand(v, w)
<1>1. MovImmediate(r, v) =
          IF w = 64 THEN from_buf(IF immediate_fits_i32(v) THEN low ELSE full)
          ELSE EncodeIf(ok, part)
    BY DEF MovImmediate
<1>2. Code(low)
    <2>1. /\ Low(v, 4) \in Bytes /\ 0 \in Int
          /\ <<199>> \in Bytes /\ Count(<<199>>) >= 1
        BY LowFact, OneByte
    <2>2. QED
        BY <2>1, OpModrmFact
<1>3. reg_field(r) \in Int
    BY FieldFact
<1>4. Code(full)
    <2>1. 184 + reg_field(r) \in Int
        BY <1>3
    <2>2. /\ <<184 + reg_field(r)>> \in Bytes /\ Count(<<184 + reg_field(r)>>) >= 1
          /\ v \in Bytes
        BY <2>1, OneByte, NumberFact
    <2>3. QED
        BY <2>2, FormFact DEF Code
<1>5. ok => Code(part)
    <2>1. SUFFICES ASSUME ok PROVE Code(part)
        OBVIOUS
    <2>2. w \div 8 \in 1 .. 8
        BY <2>1, ImmBytesFact DEF valid_integer_width
    <2> DEFINE opcode == (IF w = 8 THEN 176 ELSE 184) + reg_field(r)
    <2>3. opcode \in Int
        BY <1>3
    <2> HIDE DEF opcode
    <2>4. /\ <<opcode>> \in Bytes /\ Count(<<opcode>>) >= 1
          /\ Low(v, w \div 8) \in Bytes
        BY <2>2, <2>3, OneByte, LowFact
    <2>5. QED
        BY <2>4, FormFact DEF Code, opcode
<1> HIDE DEF w, low, full, part, ok
<1>6. CASE w = 64
    <2>1. MovImmediate(r, v) = from_buf(IF immediate_fits_i32(v) THEN low ELSE full)
        BY <1>1, <1>6
    <2>2. Code(IF immediate_fits_i32(v) THEN low ELSE full)
        BY <1>2, <1>4
    <2>3. QED
        BY <2>1, <2>2, FineCode
<1>7. CASE w # 64 /\ ok
    BY <1>1, <1>5, <1>7, FineCode
<1>8. CASE w # 64 /\ ~ok
    BY <1>1, <1>8, FineError DEF EncodeIf
<1>9. QED
    BY <1>6, <1>7, <1>8

\* mov register, label: REX.W, opcode and eight bytes for the address.
LEMMA MovLabelFact ==
    ASSUME NEW ops, Kinds(ops) = <<"REG", "LABEL">>, NEW r, NEW ok
    PROVE  MoveForms(EncodeIf(ok, Start(64, REG_INVALID, r, <<184 + reg_field(r)>>) \o Zero), ops)
<1> DEFINE opcode == <<184 + reg_field(r)>>
           rex == emit_rex_for_width(64, REG_INVALID, r)
           prefix == emit_width_prefix(64)
           start == prefix \o rex \o opcode
           b == start \o Zero
<1>1. opcode \in Bytes /\ Count(opcode) = 1
    <2>1. 184 + reg_field(r) \in Int
        BY FieldFact
    <2>2. QED
        BY <2>1, OneByte
<1>2. prefix \in Bytes /\ Count(prefix) = 0
    BY NoBytes DEF emit_width_prefix
<1>3. rex \in Bytes /\ Count(rex) = 1
    <2> DEFINE wide == Bit(64 = 64, 8)
               byte == 64 + wide + Bit(reg_needs_rex(REG_INVALID), 4)
                          + Bit(reg_needs_rex(r), 1)
    <2>1. byte \in Int
        <3>1. wide \in Int
            BY DEF Bit
        <3>2. Bit(reg_needs_rex(REG_INVALID), 4) \in Int /\ Bit(reg_needs_rex(r), 1) \in Int
            BY BitFact
        <3> HIDE DEF wide
        <3>3. QED
            BY <3>1, <3>2
    <2>2. rex = <<byte>>
        BY DEF emit_rex_for_width, Rex
    <2> HIDE DEF byte
    <2>3. QED
        BY <2>1, <2>2, OneByte
<1>4. Start(64, REG_INVALID, r, <<184 + reg_field(r)>>) \o Zero = b
    BY DEF Start
<1> HIDE DEF opcode, rex, prefix
<1>5. prefix \o rex \in Bytes /\ Count(prefix \o rex) = 1
    BY <1>2, <1>3, JoinFact
<1>6. start \in Bytes /\ Count(start) = 2
    BY <1>1, <1>5, JoinFact
<1> HIDE DEF start
<1>7. Zero \in Bytes /\ Count(Zero) = 8
    BY ZeroFact, NumberFact
<1>8. b \in Bytes /\ Count(b) = 10
    BY <1>6, <1>7, JoinFact
<1> HIDE DEF b
<1>9. CASE ok
    <2>1. Sound(from_buf(b)) /\ from_buf(b).len = 10
        BY <1>8, FromBufFact DEF MAX_BYTES
    <2>2. QED
        BY <1>4, <1>9, <2>1 DEF EncodeIf, MoveForms
<1>10. CASE ~ok
    BY <1>10, ErrorFact DEF EncodeIf, MoveForms
<1>11. QED
    BY <1>9, <1>10

LEMMA MovFact ==
    ASSUME NEW ops \in Seq(Operand)
    PROVE  MoveForms(enc_mov(ops), ops)
<1> DEFINE dst == ops[1]
           src == ops[2]
           w == IF dst.kind = "REG" THEN Width(dst) ELSE Width(src)
           ok == valid_integer_width(w)
<1>1. ByWidth(137, w) \in Int /\ ByWidth(139, w) \in Int
    BY ByWidthFact
<1>2. CASE Kinds(ops) = <<"REG", "IMM">>
    <2>1. enc_mov(ops) = MovImmediate(dst.reg, src.imm)
        BY <1>2 DEF enc_mov
    <2>2. Plain(ops) /\ src.imm \in Number
        BY <1>2, TwoKinds, OperandFact
    <2>3. QED
        BY <2>1, <2>2, MovImmediateFact, FineMoves
<1>3. CASE Kinds(ops) = <<"REG", "LABEL">>
    <2>1. enc_mov(ops) = EncodeIf(w = 64, Start(64, REG_INVALID, dst.reg,
                                               <<184 + reg_field(dst.reg)>>) \o Zero)
        BY <1>3 DEF enc_mov
    <2>2. QED
        BY <1>3, <2>1, MovLabelFact
<1>4. CASE Kinds(ops) = <<"REG", "REG">>
    <2>1. enc_mov(ops) = EncodeIf(same_register_width(dst.reg, src.reg),
                                  emit_rr(ByWidth(137, w), dst.reg, src.reg, w))
        BY <1>4 DEF enc_mov
    <2>2. Plain(ops)
        BY <1>4, TwoKinds
    <2>3. Code(emit_rr(ByWidth(137, w), dst.reg, src.reg, w))
        BY <1>1, EmitRrFact
    <2>4. QED
        BY <2>1, <2>2, <2>3, FineCode, FineMoves
<1>5. CASE Kinds(ops) = <<"REG", "MEM">>
    <2>1. enc_mov(ops) = EncodeIf(ok /\ IsBase(src),
                                  emit_mem(ByWidth(139, w), dst.reg, src.reg, src.imm, w))
        BY <1>5 DEF enc_mov
    <2>2. Plain(ops) /\ src.imm \in Number
        BY <1>5, TwoKinds, OperandFact
    <2>3. Code(emit_mem(ByWidth(139, w), dst.reg, src.reg, src.imm, w))
        BY <1>1, <2>2, EmitMemFact
    <2>4. QED
        BY <2>1, <2>2, <2>3, FineCode, FineMoves
<1>6. CASE Kinds(ops) = <<"REG", "RIP">>
    <2>1. enc_mov(ops) = EncodeIf(ok, emit_rip_relative_mem(ByWidth(139, w), dst.reg, w))
        BY <1>6 DEF enc_mov
    <2>2. QED
        BY <1>1, <1>6, <2>1, RipMoves
<1>7. CASE Kinds(ops) = <<"MEM", "REG">>
    <2>1. enc_mov(ops) = EncodeIf(ok /\ IsBase(dst),
                                  emit_mem(ByWidth(137, w), src.reg, dst.reg, dst.imm, w))
        BY <1>7 DEF enc_mov
    <2>2. Plain(ops) /\ dst.imm \in Number
        BY <1>7, TwoKinds, OperandFact
    <2>3. Code(emit_mem(ByWidth(137, w), src.reg, dst.reg, dst.imm, w))
        BY <1>1, <2>2, EmitMemFact
    <2>4. QED
        BY <2>1, <2>2, <2>3, FineCode, FineMoves
<1>8. CASE Kinds(ops) = <<"RIP", "REG">>
    <2>1. enc_mov(ops) = EncodeIf(ok, emit_rip_relative_mem(ByWidth(137, w), src.reg, w))
        BY <1>8 DEF enc_mov
    <2>2. QED
        BY <1>1, <1>8, <2>1, RipMoves
<1>9. CASE Kinds(ops) \notin {<<"REG", "IMM">>, <<"REG", "LABEL">>, <<"REG", "REG">>,
                             <<"REG", "MEM">>, <<"REG", "RIP">>, <<"MEM", "REG">>,
                             <<"RIP", "REG">>}
    <2>1. enc_mov(ops) = make_error
        BY <1>9 DEF enc_mov
    <2>2. QED
        BY <2>1, FineError, FineMoves
<1>10. QED
    BY <1>2, <1>3, <1>4, <1>5, <1>6, <1>7, <1>8, <1>9

LEMMA LeaFact ==
    ASSUME NEW ops \in Seq(Operand)
    PROVE  /\ MoveForms(enc_lea(ops), ops)
           /\ ~enc_lea(ops).error => Kinds(ops) # <<"REG", "LABEL">>
<1>1. CASE Kinds(ops) = <<"REG", "RIP">>
    <2>1. enc_lea(ops) = EncodeIf(Width(ops[1]) = 64, emit_rip_relative_mem(141, ops[1].reg, 64))
        BY <1>1 DEF enc_lea
    <2>2. MoveForms(enc_lea(ops), ops)
        BY <1>1, <2>1, RipMoves, 141 \in Int
    <2>3. <<"REG", "RIP">> # <<"REG", "LABEL">>
        OBVIOUS
    <2>4. QED
        BY <1>1, <2>2, <2>3
<1>2. CASE Kinds(ops) = <<"REG", "MEM">>
    <2>1. enc_lea(ops) = EncodeIf(Width(ops[1]) = 64 /\ IsBase(ops[2]),
                                  emit_mem(141, ops[1].reg, ops[2].reg, ops[2].imm, 64))
        BY <1>2 DEF enc_lea
    <2>2. Plain(ops) /\ ops[2].imm \in Number
        BY <1>2, TwoKinds, OperandFact
    <2>3. Code(emit_mem(141, ops[1].reg, ops[2].reg, ops[2].imm, 64))
        BY <2>2, EmitMemFact, 141 \in Int
    <2>4. MoveForms(enc_lea(ops), ops)
        BY <2>1, <2>2, <2>3, FineCode, FineMoves
    <2>5. <<"REG", "MEM">> # <<"REG", "LABEL">>
        OBVIOUS
    <2>6. QED
        BY <1>2, <2>4, <2>5
<1>3. CASE Kinds(ops) \notin {<<"REG", "RIP">>, <<"REG", "MEM">>}
    <2>1. enc_lea(ops) = make_error
        BY <1>3 DEF enc_lea
    <2>2. QED
        BY <2>1, ErrorFact, FineError, FineMoves
<1>4. QED
    BY <1>1, <1>2, <1>3

-----------------------------------------------------------------------------
(* Extending moves, stack, control flow and system *)

\* Three parts, the last of them not empty.
LEMMA ThreePartsFact ==
    ASSUME NEW a \in Bytes, NEW b \in Bytes, NEW c \in Bytes
    PROVE  /\ a \o b \o c \in Bytes /\ Count(a \o b \o c) = Count(a) + Count(b) + Count(c)
           /\ Count(a) \in Nat /\ Count(b) \in Nat /\ Count(c) \in Nat
<1> DEFINE ab == a \o b
<1>1. ab \in Bytes /\ Count(ab) = Count(a) + Count(b)
    BY JoinFact
<1> HIDE DEF ab
<1>2. ab \o c \in Bytes /\ Count(ab \o c) = Count(ab) + Count(c)
    BY <1>1, JoinFact
<1>3. QED
    BY <1>1, <1>2, CountFact DEF ab

LEMMA MovxFact ==
    ASSUME NEW ops \in Seq(Operand), NEW sign_extend
    PROVE  Fine(enc_movx(ops, sign_extend), ops)
<1> DEFINE d == Width(ops[1])
           s == Width(ops[2])
           supported == \/ s = 8 /\ d \in {16, 32, 64}
                        \/ s = 16 /\ d \in {32, 64}
                        \/ sign_extend /\ s = 32 /\ d = 64
           opcode == IF s = 32 THEN <<99>>
                     ELSE <<15, (IF s = 8 THEN 182 ELSE 183) + Bit(sign_extend, 8)>>
           prefix == emit_width_prefix(d)
           rex == Rex(d = 64, ops[1].reg, ops[2].reg,
                      s = 8 /\ reg_requires_rex_byte(ops[2].reg))
           modrm == RegRm(reg_field(ops[1].reg), ops[2].reg)
           b == prefix \o rex \o opcode \o modrm
<1>1. CASE Kinds(ops) = <<"REG", "REG">>
    <2>1. enc_movx(ops, sign_extend) = EncodeIf(supported, b)
        BY <1>1 DEF enc_movx
    <2>2. Plain(ops)
        BY <1>1, TwoKinds
    <2>3. opcode \in Bytes /\ Count(opcode) >= 1
        <3> DEFINE byte == (IF s = 8 THEN 182 ELSE 183) + Bit(sign_extend, 8)
        <3>1. byte \in Int
            BY BitFact
        <3> HIDE DEF byte
        <3>2. /\ <<15, byte>> \in Bytes /\ Count(<<15, byte>>) = 2
              /\ <<99>> \in Bytes /\ Count(<<99>>) = 1
            BY <3>1, OneByte, TwoBytes, 15 \in Int, 99 \in Int
        <3>3. opcode = <<99>> \/ opcode = <<15, byte>>
            BY DEF byte
        <3> HIDE DEF opcode
        <3>4. CASE opcode = <<99>>
            BY <3>2, <3>4
        <3>5. CASE opcode = <<15, byte>>
            BY <3>2, <3>5
        <3>6. QED
            BY <3>3, <3>4, <3>5
    <2>4. prefix \in Bytes
        BY OneByte, NoBytes DEF emit_width_prefix
    <2>5. rex \in Bytes
        BY RexFact
    <2>6. modrm \in Bytes /\ Count(modrm) = 1
        <3>1. reg_field(ops[1].reg) \in Int
            BY FieldFact
        <3>2. QED
            BY <3>1, RegRmFact
    <2> HIDE DEF opcode, prefix, rex, modrm
    <2>7. Code(b)
        <3> DEFINE head == prefix \o rex \o opcode
        <3>1. head \in Bytes
            BY <2>3, <2>4, <2>5, ThreePartsFact
        <3> HIDE DEF head
        <3>2. head \o modrm \in Bytes /\ Count(head \o modrm) = Count(head) + 1
                /\ Count(head) \in Nat
            BY <2>6, <3>1, JoinFact, CountFact
        <3>3. QED
            BY <3>2 DEF Code, head
    <2> HIDE DEF b, supported
    <2>8. QED
        BY <2>1, <2>2, <2>7, FineCode
<1>2. CASE Kinds(ops) # <<"REG", "REG">>
    <2>1. enc_movx(ops, sign_extend) = make_error
        BY <1>2 DEF enc_movx
    <2>2. QED
        BY <2>1, FineError
<1>3. QED
    BY <1>1, <1>2

\* The REX prefix of a 64-bit operand without REX.W: there when the register
\* needs it.
LEMMA ShortRexFact ==
    ASSUME NEW r
    PROVE  /\ Rex(FALSE, REG_INVALID, r, FALSE) \in Bytes
           /\ Count(Rex(FALSE, REG_INVALID, r, FALSE)) = Bit(reg_needs_rex(r), 1)
<1>1. ~reg_needs_rex(REG_INVALID)
    BY DEF reg_needs_rex, reg_index, REG_INVALID
<1> DEFINE narrow == Bit(FALSE, 8)
           byte == 64 + narrow + Bit(reg_needs_rex(REG_INVALID), 4)
                      + Bit(reg_needs_rex(r), 1)
<1>2. CASE reg_needs_rex(r)
    <2>1. Rex(FALSE, REG_INVALID, r, FALSE) = <<byte>>
        BY <1>2 DEF Rex
    <2>2. byte \in Int
        <3>1. narrow = 0
            BY DEF Bit
        <3>2. Bit(reg_needs_rex(REG_INVALID), 4) \in Int /\ Bit(reg_needs_rex(r), 1) \in Int
            BY BitFact
        <3> HIDE DEF narrow
        <3>3. QED
            BY <3>1, <3>2
    <2> HIDE DEF byte
    <2>3. Bit(reg_needs_rex(r), 1) = 1
        BY <1>2 DEF Bit
    <2>4. QED
        BY <2>1, <2>2, <2>3, OneByte
<1>3. CASE ~reg_needs_rex(r)
    <2>1. Rex(FALSE, REG_INVALID, r, FALSE) = <<>>
        BY <1>1, <1>3 DEF Rex
    <2>2. Bit(reg_needs_rex(r), 1) = 0
        BY <1>3 DEF Bit
    <2>3. QED
        BY <2>1, <2>2, NoBytes
<1>4. QED
    BY <1>2, <1>3

\* A call sized by hand: fine, and of this length when there is no error.
Sized(e, ops, size) == Fine(e, ops) /\ (~e.error => e.len = size)

LEMMA SizedFact ==
    ASSUME NEW ops, Plain(ops), NEW ok, NEW b \in Bytes, NEW n \in 1 .. 15, Count(b) = n
    PROVE  Sized(EncodeIf(ok, b), ops, n)
<1>1. Fine(EncodeIf(ok, b), ops)
    BY FineIf
<1>2. from_buf(b).len = n
    BY FromBufFact DEF MAX_BYTES
<1>3. QED
    BY <1>1, <1>2, EncodeIfFact DEF Sized

LEMMA PushPopFact ==
    ASSUME NEW ops \in Seq(Operand), NEW opcode \in Int
    PROVE  Sized(PushPop(ops, opcode), ops, 1 + Bit(reg_needs_rex(ops[1].reg), 1))
           /\ (~PushPop(ops, opcode).error => Kinds(ops) = <<"REG">> /\ Width(ops[1]) = 64)
<1> DEFINE rex == Rex(FALSE, REG_INVALID, ops[1].reg, FALSE)
           op == <<opcode + reg_field(ops[1].reg)>>
           n == Bit(reg_needs_rex(ops[1].reg), 1)
<1>1. CASE Kinds(ops) = <<"REG">>
    <2>1. PushPop(ops, opcode) = EncodeIf(Width(ops[1]) = 64, rex \o op)
        BY <1>1 DEF PushPop
    <2>2. Plain(ops)
        BY <1>1, OneKind
    <2>3. op \in Bytes /\ Count(op) = 1
        <3>1. opcode + reg_field(ops[1].reg) \in Int
            BY FieldFact
        <3>2. QED
            BY <3>1, OneByte
    <2>4. rex \in Bytes /\ Count(rex) = n /\ n \in 0 .. 1
        <3>1. rex \in Bytes /\ Count(rex) = n
            BY ShortRexFact
        <3>2. n \in 0 .. 1
            BY DEF Bit
        <3>3. QED
            BY <3>1, <3>2
    <2> HIDE DEF rex, op, n
    <2>5. rex \o op \in Bytes /\ Count(rex \o op) = 1 + n /\ 1 + n \in 1 .. 15
        BY <2>3, <2>4, JoinFact
    <2>6. Sized(EncodeIf(Width(ops[1]) = 64, rex \o op), ops, 1 + n)
        BY <2>2, <2>5, SizedFact
    <2>7. ~EncodeIf(Width(ops[1]) = 64, rex \o op).error => Width(ops[1]) = 64
        BY ErrorFact DEF EncodeIf
    <2>8. QED
        BY <1>1, <2>1, <2>6, <2>7 DEF n
<1>2. CASE Kinds(ops) # <<"REG">>
    <2>1. PushPop(ops, opcode) = make_error
        BY <1>2 DEF PushPop
    <2>2. QED
        BY <2>1, FineError, ErrorFact DEF Sized
<1>3. QED
    BY <1>1, <1>2

\* A branch: plain and sized as a register form, or one label and `short` bytes.
Branch(e, ops, short) ==
    /\ Sound(e)
    /\ ~e.error =>
          \/ /\ Kinds(ops) = <<"REG">> /\ Plain(ops) /\ Width(ops[1]) = 64
             /\ e.len = 2 + Bit(reg_needs_rex(ops[1].reg), 1)
          \/ Kinds(ops) = <<"LABEL">> /\ e.len = short

LEMMA BranchFact ==
    ASSUME NEW ops, Kinds(ops) = <<"LABEL">>, NEW ok, NEW head \in Bytes, NEW n \in 1 .. 2,
           Count(head) = n, NEW t \in Number
    PROVE  Branch(EncodeIf(ok, head \o Low(t, 4)), ops, n + 4)
<1> DEFINE low == Low(t, 4)
<1>1. low \in Bytes /\ Count(low) = 4
    BY LowFact
<1> HIDE DEF low
<1> DEFINE b == head \o low
<1>2. b \in Bytes /\ Count(b) = n + 4
    BY <1>1, JoinFact
<1> HIDE DEF b
<1>3. Sound(from_buf(b)) /\ from_buf(b).len = n + 4
    BY <1>2, FromBufFact DEF MAX_BYTES
<1>4. CASE ok
    <2>1. EncodeIf(ok, b) = from_buf(b)
        BY <1>4 DEF EncodeIf
    <2>2. QED
        BY <1>3, <2>1 DEF Branch, b, low
<1>5. CASE ~ok
    <2>1. EncodeIf(ok, b) = make_error
        BY <1>5 DEF EncodeIf
    <2>2. QED
        BY <2>1, ErrorFact DEF Branch, b, low
<1>6. QED
    BY <1>4, <1>5

LEMMA JmpCallFact ==
    ASSUME NEW ops \in Seq(Operand), NEW ext \in Int, NEW opcode \in Int, NEW t \in Number
    PROVE  Branch(JmpCall(ops, ext, opcode, t), ops, 5)
<1> DEFINE rex == Rex(FALSE, REG_INVALID, ops[1].reg, FALSE)
           op == <<255>>
           modrm == RegRm(ext, ops[1].reg)
           n == Bit(reg_needs_rex(ops[1].reg), 1)
<1>1. CASE Kinds(ops) = <<"REG">>
    <2>1. JmpCall(ops, ext, opcode, t) = EncodeIf(Width(ops[1]) = 64, rex \o op \o modrm)
        BY <1>1 DEF JmpCall
    <2>2. Plain(ops)
        BY <1>1, OneKind
    <2>3. op \in Bytes /\ Count(op) = 1 /\ modrm \in Bytes /\ Count(modrm) = 1
        BY OneByte, RegRmFact, 255 \in Int
    <2>4. rex \in Bytes /\ Count(rex) = n /\ n \in 0 .. 1
        <3>1. rex \in Bytes /\ Count(rex) = n
            BY ShortRexFact
        <3>2. n \in 0 .. 1
            BY DEF Bit
        <3>3. QED
            BY <3>1, <3>2
    <2> HIDE DEF rex, op, modrm, n
    <2> DEFINE b == rex \o op \o modrm
    <2>5. b \in Bytes /\ Count(b) = Count(rex) + Count(op) + Count(modrm)
        BY <2>3, <2>4, ThreePartsFact
    <2> HIDE DEF b
    <2>6. Count(b) = 2 + n /\ 2 + n \in 1 .. 15
        BY <2>3, <2>4, <2>5
    <2>7. Sized(EncodeIf(Width(ops[1]) = 64, b), ops, 2 + n)
        BY <2>2, <2>5, <2>6, SizedFact
    <2>8. ~EncodeIf(Width(ops[1]) = 64, b).error => Width(ops[1]) = 64
        BY ErrorFact DEF EncodeIf
    <2>9. JmpCall(ops, ext, opcode, t) = EncodeIf(Width(ops[1]) = 64, b)
        BY <2>1 DEF b
    <2>10. QED
        BY <1>1, <2>2, <2>7, <2>8, <2>9 DEF n, Branch, Sized, Fine
<1>2. CASE Kinds(ops) = <<"LABEL">>
    <2>1. JmpCall(ops, ext, opcode, t) =
              EncodeIf(immediate_fits_i32(t), <<opcode>> \o Low(t, 4))
        BY <1>2 DEF JmpCall
    <2>2. <<opcode>> \in Bytes /\ Count(<<opcode>>) = 1
        BY OneByte
    <2>3. Branch(EncodeIf(immediate_fits_i32(t), <<opcode>> \o Low(t, 4)), ops, 1 + 4)
        BY <1>2, <2>2, BranchFact, 1 \in 1 .. 2
    <2>4. 1 + 4 = 5
        OBVIOUS
    <2>5. QED
        BY <2>1, <2>3, <2>4
<1>3. CASE Kinds(ops) \notin {<<"REG">>, <<"LABEL">>}
    <2>1. JmpCall(ops, ext, opcode, t) = make_error
        BY <1>3 DEF JmpCall
    <2>2. QED
        BY <2>1, ErrorFact DEF Branch
<1>4. QED
    BY <1>1, <1>2, <1>3

LEMMA JccFact ==
    ASSUME NEW ops \in Seq(Operand), NEW opcode2 \in Int, NEW t \in Number
    PROVE  /\ Branch(enc_jcc(ops, t, opcode2), ops, 6)
           /\ ~enc_jcc(ops, t, opcode2).error => Kinds(ops) = <<"LABEL">>
<1>1. CASE Kinds(ops) = <<"LABEL">>
    <2> DEFINE ok == Kinds(ops) = <<"LABEL">> /\ immediate_fits_i32(t)
    <2>1. enc_jcc(ops, t, opcode2) = EncodeIf(ok, <<15, opcode2>> \o Low(t, 4))
        BY DEF enc_jcc
    <2>2. <<15, opcode2>> \in Bytes /\ Count(<<15, opcode2>>) = 2
        BY TwoBytes, 15 \in Int
    <2> HIDE DEF ok
    <2>3. Branch(EncodeIf(ok, <<15, opcode2>> \o Low(t, 4)), ops, 2 + 4)
        BY <1>1, <2>2, BranchFact, 2 \in 1 .. 2
    <2>4. 2 + 4 = 6
        OBVIOUS
    <2>5. QED
        BY <1>1, <2>1, <2>3, <2>4
<1>2. CASE Kinds(ops) # <<"LABEL">>
    <2>1. enc_jcc(ops, t, opcode2) = make_error
        BY <1>2 DEF enc_jcc, EncodeIf
    <2>2. QED
        BY <2>1, ErrorFact DEF Branch
<1>3. QED
    BY <1>1, <1>2

LEMMA IntFact ==
    ASSUME NEW ops \in Seq(Operand)
    PROVE  /\ Sized(enc_int(ops), ops, 2)
           /\ ~enc_int(ops).error => Kinds(ops) = <<"IMM">> /\ immediate_fits_u8(ops[1].imm)
<1> DEFINE ok == immediate_fits_u8(ops[1].imm)
           b == <<205>> \o Low(ops[1].imm, 1)
<1>1. CASE Kinds(ops) = <<"IMM">>
    <2>1. enc_int(ops) = EncodeIf(ok, b)
        BY <1>1 DEF enc_int
    <2>2. Plain(ops) /\ ops[1].imm \in Number
        BY <1>1, OneKind, OperandFact
    <2>3. <<205>> \in Bytes /\ Count(<<205>>) = 1
        BY OneByte, 205 \in Int
    <2>4. Low(ops[1].imm, 1) \in Bytes /\ Count(Low(ops[1].imm, 1)) = 1
        BY <2>2, LowFact
    <2>5. b \in Bytes /\ Count(b) = Count(<<205>>) + Count(Low(ops[1].imm, 1))
        BY <2>3, <2>4, JoinFact
    <2> HIDE DEF ok, b
    <2>6. Count(b) = 2 /\ 2 \in 1 .. 15
        BY <2>3, <2>4, <2>5
    <2>7. Sized(EncodeIf(ok, b), ops, 2)
        BY <2>2, <2>5, <2>6, SizedFact
    <2>8. ~EncodeIf(ok, b).error => ok
        BY ErrorFact DEF EncodeIf
    <2>9. QED
        BY <1>1, <2>1, <2>7, <2>8 DEF ok
<1>2. CASE Kinds(ops) # <<"IMM">>
    <2>1. enc_int(ops) = make_error
        BY <1>2 DEF enc_int
    <2>2. QED
        BY <2>1, FineError, ErrorFact DEF Sized
<1>3. QED
    BY <1>1, <1>2

LEMMA CqoFact == ASSUME NEW ops PROVE Fine(enc_cqo(ops), ops)
<1>1. CASE ops = <<>>
    <2>1. Plain(ops)
        BY <1>1 DEF Plain
    <2>2. <<72, 153>> \in Bytes /\ Count(<<72, 153>>) = 2
        BY TwoBytes, 72 \in Int, 153 \in Int
    <2>3. Code(<<72, 153>>)
        BY <2>2 DEF Code
    <2>4. QED
        BY <2>1, <2>3, FineCode DEF enc_cqo
<1>2. CASE ops # <<>>
    BY <1>2, FineError DEF enc_cqo, EncodeIf
<1>3. QED
    BY <1>1, <1>2

-----------------------------------------------------------------------------
(* Scalar SSE2 *)

LEMMA SseHeadFact ==
    ASSUME NEW prefix \in Int, NEW w64, NEW reg, NEW rm, NEW opcode \in Int
    PROVE  Code(SseHead(prefix, w64, reg, rm, opcode))
<1> DEFINE a == <<prefix>>
           rex == Rex(w64, reg, rm, FALSE)
           op == <<15, opcode>>
<1>1. a \in Bytes /\ Count(a) = 1 /\ op \in Bytes /\ Count(op) = 2
    BY OneByte, TwoBytes, 15 \in Int
<1>2. rex \in Bytes
    BY RexFact
<1>3. SseHead(prefix, w64, reg, rm, opcode) = a \o rex \o op
    BY DEF SseHead
<1> HIDE DEF a, rex, op
<1>4. a \o rex \o op \in Bytes /\ Count(a \o rex \o op) = Count(a) + Count(rex) + Count(op)
        /\ Count(rex) \in Nat
    BY <1>1, <1>2, ThreePartsFact
<1>5. Count(a \o rex \o op) >= 1
    BY <1>1, <1>4
<1>6. QED
    BY <1>3, <1>4, <1>5 DEF Code

LEMMA CodeThen ==
    ASSUME NEW a, Code(a), NEW b \in Bytes
    PROVE  Code(a \o b)
<1>1. a \o b \in Bytes /\ Count(a \o b) = Count(a) + Count(b)
    BY JoinFact DEF Code
<1>2. Count(a) \in Nat /\ Count(a) >= 1 /\ Count(b) \in Nat
    BY CountFact DEF Code
<1>3. Count(a \o b) >= 1
    BY <1>1, <1>2
<1>4. QED
    BY <1>1, <1>3 DEF Code

LEMMA SseRegFact ==
    ASSUME NEW ops, Plain(ops), NEW prefix \in Int, NEW w64, NEW reg, NEW rm, NEW opcode \in Int
    PROVE  Fine(SseReg(prefix, w64, reg, rm, opcode), ops)
<1>1. reg_field(reg) \in Int
    BY FieldFact
<1>2. RegRm(reg_field(reg), rm) \in Bytes /\ Code(SseHead(prefix, w64, reg, rm, opcode))
    BY <1>1, RegRmFact, SseHeadFact
<1>3. QED
    BY <1>2, CodeThen, FineCode DEF SseReg

LEMMA SseMemFact ==
    ASSUME NEW ops, Plain(ops), NEW prefix \in Int, NEW reg, NEW mem \in Operand,
           NEW opcode \in Int
    PROVE  Fine(SseMem(prefix, reg, mem, opcode), ops)
<1>1. reg_field(reg) \in Int /\ mem.imm \in Number
    BY FieldFact, OperandFact
<1>2. /\ emit_mem_address(reg_field(reg), mem.reg, mem.imm) \in Bytes
      /\ Code(SseHead(prefix, FALSE, reg, mem.reg, opcode))
    <2>1. emit_mem_address(reg_field(reg), mem.reg, mem.imm) \in Bytes
        BY <1>1, AddressFact
    <2>2. \A w64 : Code(SseHead(prefix, w64, reg, mem.reg, opcode))
        BY SseHeadFact
    <2>3. QED
        BY <2>1, <2>2, Zenon
<1>3. QED
    BY <1>2, CodeThen, FineCode DEF SseMem

LEMMA PairFact ==
    ASSUME NEW ops \in Seq(Operand), Len(ops) = 2,
           ops[1].kind \notin {"RIP", "LABEL"}, ops[2].kind \notin {"RIP", "LABEL"}
    PROVE  Plain(ops) /\ ops[1] \in Operand /\ ops[2] \in Operand
<1>1. DOMAIN ops = 1 .. 2
    BY LenProperties
<1>2. ops[1] \in Operand /\ ops[2] \in Operand
    BY <1>1, LenProperties
<1>3. \A k \in DOMAIN ops : k = 1 \/ k = 2
    BY <1>1
<1>4. QED
    BY <1>2, <1>3 DEF Plain

LEMMA SseMoveFact ==
    ASSUME NEW ops \in Seq(Operand)
    PROVE  Fine(sse2_encode_move(ops), ops)
<1> DEFINE dst == ops[1]
           src == ops[2]
           e == sse2_encode_move(ops)
<1>1. CASE Len(ops) = 2
    <2>1. e = CASE Xmm(dst) /\ Xmm(src)   -> SseReg(243, FALSE, dst.reg, src.reg, 126)
                [] Xmm(dst) /\ Gpr64(src) -> SseReg(102, TRUE, dst.reg, src.reg, 110)
                [] Xmm(dst) /\ valid_memory_base(src) -> SseMem(243, dst.reg, src, 126)
                [] Gpr64(dst) /\ Xmm(src) -> SseReg(102, TRUE, src.reg, dst.reg, 126)
                [] valid_memory_base(dst) /\ Xmm(src) -> SseMem(102, src.reg, dst, 214)
                [] OTHER -> make_error
        BY <1>1, Zenon DEF sse2_encode_move
    <2> DEFINE e1 == SseReg(243, FALSE, dst.reg, src.reg, 126)
               e2 == SseReg(102, TRUE, dst.reg, src.reg, 110)
               e3 == SseMem(243, dst.reg, src, 126)
               e4 == SseReg(102, TRUE, src.reg, dst.reg, 126)
               e5 == SseMem(102, src.reg, dst, 214)
    <2> SUFFICES Fine(e, ops)
        OBVIOUS
    <2>2. \A op : Xmm(op) \/ Gpr64(op) \/ valid_memory_base(op)
                    => op.kind \notin {"RIP", "LABEL"}
        BY DEF Xmm, Gpr64, valid_memory_base
    <2>3. Plain(ops) => Fine(e1, ops)
        <3>1. Plain(ops) => \A w64 : Fine(SseReg(243, w64, dst.reg, src.reg, 126), ops)
            BY SseRegFact, 243 \in Int, 126 \in Int
        <3>2. QED
            BY <3>1, Zenon
    <2>4. Plain(ops) => Fine(e2, ops)
        <3>1. Plain(ops) => \A w64 : Fine(SseReg(102, w64, dst.reg, src.reg, 110), ops)
            BY SseRegFact, 102 \in Int, 110 \in Int
        <3>2. QED
            BY <3>1, Zenon
    <2>5. Plain(ops) /\ src \in Operand => Fine(e3, ops)
        BY SseMemFact, 243 \in Int, 126 \in Int
    <2>6. Plain(ops) => Fine(e4, ops)
        <3>1. Plain(ops) => \A w64 : Fine(SseReg(102, w64, src.reg, dst.reg, 126), ops)
            BY SseRegFact, 102 \in Int, 126 \in Int
        <3>2. QED
            BY <3>1, Zenon
    <2>7. Plain(ops) /\ dst \in Operand => Fine(e5, ops)
        BY SseMemFact, 102 \in Int, 214 \in Int
    <2> HIDE DEF e, e1, e2, e3, e4, e5
    <2>8. e = CASE Xmm(dst) /\ Xmm(src)   -> e1
                [] Xmm(dst) /\ Gpr64(src) -> e2
                [] Xmm(dst) /\ valid_memory_base(src) -> e3
                [] Gpr64(dst) /\ Xmm(src) -> e4
                [] valid_memory_base(dst) /\ Xmm(src) -> e5
                [] OTHER -> make_error
        BY <2>1, Zenon DEF e1, e2, e3, e4, e5
    <2>9. \/ e = make_error
          \/ /\ Xmm(dst) \/ Gpr64(dst) \/ valid_memory_base(dst)
             /\ Xmm(src) \/ Gpr64(src) \/ valid_memory_base(src)
             /\ e \in {e1, e2, e3, e4, e5}
        BY <2>8
    <2>10. CASE e = make_error
        BY <2>10, FineError
    <2>11. CASE /\ Xmm(dst) \/ Gpr64(dst) \/ valid_memory_base(dst)
                /\ Xmm(src) \/ Gpr64(src) \/ valid_memory_base(src)
                /\ e \in {e1, e2, e3, e4, e5}
        <3>1. Plain(ops) /\ dst \in Operand /\ src \in Operand
            BY <1>1, <2>2, <2>11, PairFact
        <3>2. QED
            BY <2>3, <2>4, <2>5, <2>6, <2>7, <2>11, <3>1
    <2>12. QED
        BY <2>9, <2>10, <2>11
<1>2. CASE Len(ops) # 2
    BY <1>2, FineError DEF sse2_encode_move
<1>3. QED
    BY <1>1, <1>2

LEMMA XmmBinaryFact ==
    ASSUME NEW ops \in Seq(Operand), NEW prefix \in Int, NEW opcode \in Int
    PROVE  Fine(encode_xmm_binary(ops, prefix, opcode), ops)
<1>1. CASE Len(ops) = 2 /\ Xmm(ops[1]) /\ Xmm(ops[2])
    <2>1. Plain(ops)
        BY <1>1, PairFact DEF Xmm
    <2>2. \A w64 : Fine(SseReg(prefix, w64, ops[1].reg, ops[2].reg, opcode), ops)
        BY <2>1, SseRegFact
    <2>3. encode_xmm_binary(ops, prefix, opcode) =
              SseReg(prefix, FALSE, ops[1].reg, ops[2].reg, opcode)
        BY <1>1 DEF encode_xmm_binary
    <2>4. QED
        BY <2>2, <2>3, Zenon
<1>2. CASE ~(Len(ops) = 2 /\ Xmm(ops[1]) /\ Xmm(ops[2]))
    BY <1>2, FineError DEF encode_xmm_binary
<1>3. QED
    BY <1>1, <1>2

LEMMA ConvertFact ==
    ASSUME NEW ops \in Seq(Operand), NEW gpr, NEW opcode \in Int
    PROVE  Fine(Convert(ops, gpr, opcode), ops)
<1> DEFINE w64 == Width(ops[gpr]) = 64
<1>1. CASE /\ Kinds(ops) = <<"REG", "REG">>
           /\ Convert(ops, gpr, opcode) = SseReg(242, w64, ops[1].reg, ops[2].reg, opcode)
    <2>1. Plain(ops)
        BY <1>1, TwoKinds
    <2> HIDE DEF w64
    <2>2. QED
        BY <1>1, <2>1, SseRegFact, 242 \in Int
<1>2. CASE Convert(ops, gpr, opcode) = make_error
    BY <1>2, FineError
<1>3. QED
    BY <1>1, <1>2 DEF Convert

-----------------------------------------------------------------------------
(* The dispatch *)

Alu == {"ADD", "SUB", "AND", "OR", "XOR", "CMP"}
Divide == {"DIV", "IDIV"}
Unary == {"INC", "DEC", "NOT", "NEG"}
Sse == {"ADDSD", "SUBSD", "MULSD", "DIVSD", "UCOMISD", "XORPD"}
Setcc == {"SETE", "SETNE", "SETG", "SETL", "SETGE", "SETLE", "SETA", "SETB", "SETAE",
          "SETBE", "SETP", "SETNP"}
Shift == {"SHL", "SHR", "SAR"}
Jcc == {"JE", "JNE", "JG", "JGE", "JL", "JLE", "JZ", "JNZ", "JS", "JNS"}
Fixed == {"RET", "NOP", "RDTSC", "HLT", "SYSCALL"}

LEMMA DomainFacts ==
    /\ DOMAIN AluOp = Alu /\ DOMAIN DivideExt = Divide /\ DOMAIN UnaryExt = Unary
    /\ DOMAIN SseOp = Sse /\ DOMAIN SetccOp = Setcc /\ DOMAIN ShiftExt = Shift
    /\ DOMAIN JccOp = Jcc /\ DOMAIN FixedBytes = Fixed
<1>1. DOMAIN AluOp = Alu BY DEF AluOp, Alu
<1>2. DOMAIN DivideExt = Divide BY DEF DivideExt, Divide
<1>3. DOMAIN UnaryExt = Unary BY DEF UnaryExt, Unary
<1>4. DOMAIN SseOp = Sse BY DEF SseOp, Sse
<1>5. DOMAIN SetccOp = Setcc BY DEF SetccOp, Setcc
<1>6. DOMAIN ShiftExt = Shift BY DEF ShiftExt, Shift
<1>7. DOMAIN JccOp = Jcc BY DEF JccOp, Jcc
<1>8. DOMAIN FixedBytes = Fixed BY DEF FixedBytes, Fixed
<1>9. QED
    BY <1>1, <1>2, <1>3, <1>4, <1>5, <1>6, <1>7, <1>8

LEMMA TableFacts ==
    /\ \A o \in Alu : AluOp[o][1] \in Int /\ AluOp[o][2] \in Int
    /\ \A o \in Divide : DivideExt[o] \in Int
    /\ \A o \in Unary : UnaryExt[o] \in Int
    /\ \A o \in Sse : SseOp[o][1] \in Int /\ SseOp[o][2] \in Int
    /\ \A o \in Setcc : SetccOp[o] \in Int
    /\ \A o \in Shift : ShiftExt[o] \in Int
    /\ ShiftExt["SHL"] = 4
    /\ \A o \in Jcc : JccOp[o] \in Int
    /\ \A o \in Fixed : FixedBytes[o] \in Bytes /\ Count(FixedBytes[o]) \in 1 .. 2
<1>1. \A o \in Alu : AluOp[o][1] \in Int /\ AluOp[o][2] \in Int
    BY DEF AluOp, Alu
<1>2. \A o \in Divide : DivideExt[o] \in Int
    BY DEF DivideExt, Divide
<1>3. \A o \in Unary : UnaryExt[o] \in Int
    BY DEF UnaryExt, Unary
<1>4. \A o \in Sse : SseOp[o][1] \in Int /\ SseOp[o][2] \in Int
    BY DEF SseOp, Sse
<1>5. \A o \in Setcc : SetccOp[o] \in Int
    BY DEF SetccOp, Setcc
<1>6. (\A o \in Shift : ShiftExt[o] \in Int) /\ ShiftExt["SHL"] = 4
    BY DEF ShiftExt, Shift
<1>7. \A o \in Jcc : JccOp[o] \in Int
    BY DEF JccOp, Jcc
<1>8. \A o \in Fixed : FixedBytes[o] \in Bytes /\ Count(FixedBytes[o]) \in 1 .. 2
    <2>1. /\ FixedBytes["RET"] = <<195>> /\ FixedBytes["NOP"] = <<144>>
          /\ FixedBytes["RDTSC"] = <<15, 49>> /\ FixedBytes["HLT"] = <<244>>
          /\ FixedBytes["SYSCALL"] = <<15, 5>>
        BY DEF FixedBytes
    <2>2. /\ <<195>> \in Bytes /\ Count(<<195>>) = 1
          /\ <<144>> \in Bytes /\ Count(<<144>>) = 1
          /\ <<244>> \in Bytes /\ Count(<<244>>) = 1
          /\ <<15, 49>> \in Bytes /\ Count(<<15, 49>>) = 2
          /\ <<15, 5>> \in Bytes /\ Count(<<15, 5>>) = 2
        BY OneByte, TwoBytes, 195 \in Int, 144 \in Int, 244 \in Int, 15 \in Int,
           49 \in Int, 5 \in Int
    <2>3. TAKE o \in Fixed
    <2>4. CASE o = "RET"
        BY <2>1, <2>2, <2>4
    <2>5. CASE o = "NOP"
        BY <2>1, <2>2, <2>5
    <2>6. CASE o = "RDTSC"
        BY <2>1, <2>2, <2>6
    <2>7. CASE o = "HLT"
        BY <2>1, <2>2, <2>7
    <2>8. CASE o = "SYSCALL"
        BY <2>1, <2>2, <2>8
    <2>9. QED
        BY <2>4, <2>5, <2>6, <2>7, <2>8 DEF Fixed
<1>9. QED
    BY <1>1, <1>2, <1>3, <1>4, <1>5, <1>6, <1>7, <1>8

LEMMA DispatchFact ==
    ASSUME NEW o, NEW ops, NEW t
    PROVE  LET e == encoder_encode(o, ops, t) IN
           /\ o = "MOV" => e = IF sse2_operands_use_xmm(ops) THEN sse2_encode_move(ops)
                               ELSE enc_mov(ops)
           /\ o = "PUSH" => e = PushPop(ops, 80)
           /\ o = "POP" => e = PushPop(ops, 88)
           /\ o = "LEA" => e = enc_lea(ops)
           /\ o \in {"MOVZX", "MOVSX"} => e = enc_movx(ops, o = "MOVSX")
           /\ o \in Alu => e = enc_alu(ops, AluOp[o][1], AluOp[o][2])
           /\ o = "IMUL" => e = enc_imul(ops)
           /\ o \in Divide => e = enc_divide(ops, DivideExt[o])
           /\ o = "CQO" => e = enc_cqo(ops)
           /\ o \in Unary => e = enc_unary(ops, UnaryExt[o])
           /\ o \in Sse => e = encode_xmm_binary(ops, SseOp[o][1], SseOp[o][2])
           /\ o = "CVTSI2SD" => e = Convert(ops, 2, 42)
           /\ o = "CVTTSD2SI" => e = Convert(ops, 1, 44)
           /\ o = "TEST" => e = enc_test(ops)
           /\ o \in Setcc => e = enc_setcc(ops, SetccOp[o])
           /\ o \in Shift => e = enc_shift(ops, ShiftExt[o])
           /\ o = "JMP" => e = JmpCall(ops, 4, 233, t)
           /\ o = "CALL" => e = JmpCall(ops, 2, 232, t)
           /\ o \in Jcc => e = enc_jcc(ops, t, JccOp[o])
           /\ o \in Fixed => e = from_buf(FixedBytes[o])
           /\ o = "INT" => e = enc_int(ops)
           /\ o \notin {"MOV", "PUSH", "POP", "LEA", "MOVZX", "MOVSX", "IMUL", "CQO", "CVTSI2SD",
                        "CVTTSD2SI", "TEST", "JMP", "CALL", "INT"}
                 \union Alu \union Divide \union Unary \union Sse \union Setcc \union Shift
                 \union Jcc \union Fixed => e = make_error
<1> DEFINE e1 == IF sse2_operands_use_xmm(ops) THEN sse2_encode_move(ops) ELSE enc_mov(ops)
           e2 == PushPop(ops, 80)
           e3 == PushPop(ops, 88)
           e4 == enc_lea(ops)
           e5 == enc_movx(ops, o = "MOVSX")
           e6 == enc_alu(ops, AluOp[o][1], AluOp[o][2])
           e7 == enc_imul(ops)
           e8 == enc_divide(ops, DivideExt[o])
           e9 == enc_cqo(ops)
           e10 == enc_unary(ops, UnaryExt[o])
           e11 == encode_xmm_binary(ops, SseOp[o][1], SseOp[o][2])
           e12 == Convert(ops, 2, 42)
           e13 == Convert(ops, 1, 44)
           e14 == enc_test(ops)
           e15 == enc_setcc(ops, SetccOp[o])
           e16 == enc_shift(ops, ShiftExt[o])
           e17 == JmpCall(ops, 4, 233, t)
           e18 == JmpCall(ops, 2, 232, t)
           e19 == enc_jcc(ops, t, JccOp[o])
           e20 == from_buf(FixedBytes[o])
           e21 == enc_int(ops)
           e == encoder_encode(o, ops, t)
<1>1. e = CASE o = "MOV" -> e1
            [] o = "PUSH" -> e2
            [] o = "POP" -> e3
            [] o = "LEA" -> e4
            [] o \in {"MOVZX", "MOVSX"} -> e5
            [] o \in DOMAIN AluOp -> e6
            [] o = "IMUL" -> e7
            [] o \in DOMAIN DivideExt -> e8
            [] o = "CQO" -> e9
            [] o \in DOMAIN UnaryExt -> e10
            [] o \in DOMAIN SseOp -> e11
            [] o = "CVTSI2SD" -> e12
            [] o = "CVTTSD2SI" -> e13
            [] o = "TEST" -> e14
            [] o \in DOMAIN SetccOp -> e15
            [] o \in DOMAIN ShiftExt -> e16
            [] o = "JMP" -> e17
            [] o = "CALL" -> e18
            [] o \in DOMAIN JccOp -> e19
            [] o \in DOMAIN FixedBytes -> e20
            [] o = "INT" -> e21
            [] OTHER -> make_error
    BY Zenon DEF encoder_encode
<1> HIDE DEF e1, e2, e3, e4, e5, e6, e7, e8, e9, e10, e11, e12, e13, e14, e15, e16, e17, e18,
             e19, e20, e21, e
<1>2. e = CASE o = "MOV" -> e1
            [] o = "PUSH" -> e2
            [] o = "POP" -> e3
            [] o = "LEA" -> e4
            [] o \in {"MOVZX", "MOVSX"} -> e5
            [] o \in Alu -> e6
            [] o = "IMUL" -> e7
            [] o \in Divide -> e8
            [] o = "CQO" -> e9
            [] o \in Unary -> e10
            [] o \in Sse -> e11
            [] o = "CVTSI2SD" -> e12
            [] o = "CVTTSD2SI" -> e13
            [] o = "TEST" -> e14
            [] o \in Setcc -> e15
            [] o \in Shift -> e16
            [] o = "JMP" -> e17
            [] o = "CALL" -> e18
            [] o \in Jcc -> e19
            [] o \in Fixed -> e20
            [] o = "INT" -> e21
            [] OTHER -> make_error
    BY <1>1, DomainFacts
<1>3. /\ o = "MOV" => e = e1
      /\ o = "PUSH" => e = e2
      /\ o = "POP" => e = e3
      /\ o = "LEA" => e = e4
      /\ o \in {"MOVZX", "MOVSX"} => e = e5
      /\ o \in Alu => e = e6
      /\ o = "IMUL" => e = e7
      /\ o \in Divide => e = e8
      /\ o = "CQO" => e = e9
      /\ o \in Unary => e = e10
      /\ o \in Sse => e = e11
      /\ o = "CVTSI2SD" => e = e12
      /\ o = "CVTTSD2SI" => e = e13
      /\ o = "TEST" => e = e14
      /\ o \in Setcc => e = e15
      /\ o \in Shift => e = e16
      /\ o = "JMP" => e = e17
      /\ o = "CALL" => e = e18
      /\ o \in Jcc => e = e19
      /\ o \in Fixed => e = e20
      /\ o = "INT" => e = e21
      /\ o \notin {"MOV", "PUSH", "POP", "LEA", "MOVZX", "MOVSX", "IMUL", "CQO", "CVTSI2SD",
                   "CVTTSD2SI", "TEST", "JMP", "CALL", "INT"}
            \union Alu \union Divide \union Unary \union Sse \union Setcc \union Shift
            \union Jcc \union Fixed => e = make_error
    BY <1>2 DEF Alu, Divide, Unary, Sse, Setcc, Shift, Jcc, Fixed
<1>4. QED
    BY <1>3, Zenon DEF e1, e2, e3, e4, e5, e6, e7, e8, e9, e10, e11, e12, e13, e14, e15, e16,
                       e17, e18, e19, e20, e21, e

-----------------------------------------------------------------------------
(* The contract *)

HasKind(ops, kind) == \E k \in DOMAIN ops : ops[k].kind = kind

\* What the passes rely on when a statement names a symbol.
Contract(o, ops, e) ==
    /\ Sound(e)
    /\ ~e.error =>
        /\ HasKind(ops, "RIP") =>
              Kinds(ops) \in {<<"REG", "RIP">>, <<"RIP", "REG">>} /\ EndsInField(e)
        /\ HasKind(ops, "LABEL") =>
              \/ o \in {"JMP", "CALL"} /\ Kinds(ops) = <<"LABEL">> /\ e.len = 5
              \/ o \in DOMAIN JccOp /\ Kinds(ops) = <<"LABEL">> /\ e.len = 6
              \/ o = "MOV" /\ Kinds(ops) = <<"REG", "LABEL">> /\ e.len = 10

LEMMA FineContract == ASSUME NEW o, NEW ops, NEW e, Fine(e, ops) PROVE Contract(o, ops, e)
    BY DEF Fine, Plain, HasKind, Contract

LEMMA MovesContract ==
    ASSUME NEW o, NEW ops \in Seq(Operand), NEW e, MoveForms(e, ops),
           o = "MOV" \/ (~e.error => Kinds(ops) # <<"REG", "LABEL">>)
    PROVE  Contract(o, ops, e)
<1>1. CASE ~e.error => Plain(ops)
    BY <1>1, FineContract DEF MoveForms, Fine
<1>2. CASE ~e.error /\ Kinds(ops) = <<"REG", "RIP">> /\ EndsInField(e)
    <2>1. DOMAIN ops = {1, 2} /\ ops[1].kind = "REG" /\ ops[2].kind = "RIP"
        BY <1>2, TwoKinds
    <2>2. ~HasKind(ops, "LABEL")
        BY <2>1 DEF HasKind
    <2>3. QED
        BY <1>2, <2>2 DEF Contract, MoveForms
<1>3. CASE ~e.error /\ Kinds(ops) = <<"RIP", "REG">> /\ EndsInField(e)
    <2>1. DOMAIN ops = {1, 2} /\ ops[1].kind = "RIP" /\ ops[2].kind = "REG"
        BY <1>3, TwoKinds
    <2>2. ~HasKind(ops, "LABEL")
        BY <2>1 DEF HasKind
    <2>3. QED
        BY <1>3, <2>2 DEF Contract, MoveForms
<1>4. CASE ~e.error /\ Kinds(ops) = <<"REG", "LABEL">> /\ e.len = 10
    <2>1. DOMAIN ops = {1, 2} /\ ops[1].kind = "REG" /\ ops[2].kind = "LABEL"
        BY <1>4, TwoKinds
    <2>2. ~HasKind(ops, "RIP")
        BY <2>1 DEF HasKind
    <2>3. QED
        BY <1>4, <2>2 DEF Contract, MoveForms
<1>5. QED
    BY <1>1, <1>2, <1>3, <1>4 DEF MoveForms

LEMMA BranchContract ==
    ASSUME NEW o, NEW ops \in Seq(Operand), NEW e, NEW short, Branch(e, ops, short),
           \/ o \in {"JMP", "CALL"} /\ short = 5
           \/ o \in DOMAIN JccOp /\ short = 6
    PROVE  Contract(o, ops, e)
<1>1. CASE ~e.error => Plain(ops)
    BY <1>1, FineContract DEF Branch, Fine
<1>2. CASE ~e.error /\ Kinds(ops) = <<"LABEL">> /\ e.len = short
    <2>1. DOMAIN ops = {1} /\ ops[1].kind = "LABEL"
        BY <1>2, OneKind
    <2>2. ~HasKind(ops, "RIP")
        BY <2>1 DEF HasKind
    <2>3. QED
        BY <1>2, <2>2 DEF Contract, Branch
<1>3. QED
    BY <1>1, <1>2 DEF Branch

\* RET, NOP, RDTSC, HLT and SYSCALL do not look at their operands; the arity
\* table lets the parser give them none.
LEMMA ContractFact ==
    ASSUME NEW o, NEW ops \in Seq(Operand), NEW t \in Number, o \in Fixed => Plain(ops)
    PROVE  Contract(o, ops, encoder_encode(o, ops, t))
<1> DEFINE e == encoder_encode(o, ops, t)
<1> SUFFICES Contract(o, ops, e)
    OBVIOUS
<1>1. CASE o = "MOV"
    <2>1. e = IF sse2_operands_use_xmm(ops) THEN sse2_encode_move(ops) ELSE enc_mov(ops)
        BY <1>1, DispatchFact
    <2>2. MoveForms(sse2_encode_move(ops), ops) /\ MoveForms(enc_mov(ops), ops)
        BY SseMoveFact, FineMoves, MovFact
    <2> HIDE DEF e
    <2>3. MoveForms(e, ops)
        BY <2>1, <2>2
    <2>4. QED
        BY <1>1, <2>3, MovesContract
<1>2. CASE o \in {"PUSH", "POP"}
    <2>1. e = PushPop(ops, 80) \/ e = PushPop(ops, 88)
        BY <1>2, DispatchFact
    <2>2. Fine(PushPop(ops, 80), ops) /\ Fine(PushPop(ops, 88), ops)
        BY PushPopFact, 80 \in Int, 88 \in Int DEF Sized
    <2> HIDE DEF e
    <2>3. QED
        BY <2>1, <2>2, FineContract
<1>3. CASE o = "LEA"
    <2>1. e = enc_lea(ops)
        BY <1>3, DispatchFact
    <2> HIDE DEF e
    <2>2. QED
        BY <2>1, LeaFact, MovesContract
<1>4. CASE o \in {"MOVZX", "MOVSX"}
    <2>1. e = enc_movx(ops, o = "MOVSX")
        BY <1>4, DispatchFact
    <2>2. QED
        BY <2>1, MovxFact, FineContract
<1>5. CASE o \in Alu
    <2>1. e = enc_alu(ops, AluOp[o][1], AluOp[o][2])
        BY <1>5, DispatchFact
    <2>2. AluOp[o][1] \in Int /\ AluOp[o][2] \in Int
        BY <1>5, TableFacts
    <2>3. QED
        BY <2>1, <2>2, AluFact, FineContract
<1>6. CASE o \in Divide
    <2>1. e = OneRegister(ops, 247, DivideExt[o]) /\ DivideExt[o] \in Int
        BY <1>6, DispatchFact, TableFacts DEF enc_divide
    <2>2. QED
        BY <2>1, OneRegisterFact, FineContract, 247 \in Int
<1>7. CASE o \in Unary
    <2> DEFINE opcode == IF UnaryExt[o] \in {0, 1} THEN 255 ELSE 247
    <2>1. e = OneRegister(ops, opcode, UnaryExt[o])
        BY <1>7, DispatchFact DEF enc_unary
    <2>2. UnaryExt[o] \in Int
        BY <1>7, TableFacts
    <2>3. opcode \in Int
        OBVIOUS
    <2> HIDE DEF opcode
    <2>4. QED
        BY <2>1, <2>2, <2>3, OneRegisterFact, FineContract
<1>8. CASE o \in Sse
    <2>1. e = encode_xmm_binary(ops, SseOp[o][1], SseOp[o][2])
        BY <1>8, DispatchFact
    <2>2. SseOp[o][1] \in Int /\ SseOp[o][2] \in Int
        BY <1>8, TableFacts
    <2>3. QED
        BY <2>1, <2>2, XmmBinaryFact, FineContract
<1>9. CASE o \in Setcc
    <2>1. e = enc_setcc(ops, SetccOp[o]) /\ SetccOp[o] \in Int
        BY <1>9, DispatchFact, TableFacts
    <2>2. QED
        BY <2>1, SetccFact, FineContract
<1>10. CASE o \in Shift
    <2>1. e = enc_shift(ops, ShiftExt[o]) /\ ShiftExt[o] \in Int
        BY <1>10, DispatchFact, TableFacts
    <2>2. QED
        BY <2>1, ShiftFact, FineContract
<1>11. CASE o \in Jcc
    <2>1. e = enc_jcc(ops, t, JccOp[o]) /\ JccOp[o] \in Int
        BY <1>11, DispatchFact, TableFacts
    <2>2. Branch(e, ops, 6)
        BY <2>1, JccFact
    <2>3. o \in DOMAIN JccOp
        BY <1>11, DomainFacts
    <2> HIDE DEF e
    <2>4. QED
        BY <2>2, <2>3, BranchContract
<1>12. CASE o \in {"JMP", "CALL"}
    <2>1. e = JmpCall(ops, 4, 233, t) \/ e = JmpCall(ops, 2, 232, t)
        BY <1>12, DispatchFact
    <2>2. /\ Branch(JmpCall(ops, 4, 233, t), ops, 5)
          /\ Branch(JmpCall(ops, 2, 232, t), ops, 5)
        BY JmpCallFact, 4 \in Int, 233 \in Int, 2 \in Int, 232 \in Int
    <2> HIDE DEF e
    <2>3. Branch(e, ops, 5)
        BY <2>1, <2>2
    <2>4. QED
        BY <1>12, <2>3, BranchContract
<1>13. CASE o \in Fixed
    <2>1. e = from_buf(FixedBytes[o]) /\ Plain(ops)
        BY <1>13, DispatchFact
    <2>2. Code(FixedBytes[o])
        BY <1>13, TableFacts DEF Code
    <2>3. QED
        BY <2>1, <2>2, FineCode, FineContract
<1>14. CASE o \in {"IMUL", "CQO", "TEST", "INT"}
    <2>1. e \in {enc_imul(ops), enc_cqo(ops), enc_test(ops), enc_int(ops)}
        BY <1>14, DispatchFact
    <2>2. /\ Fine(enc_imul(ops), ops) /\ Fine(enc_cqo(ops), ops) /\ Fine(enc_test(ops), ops)
          /\ Fine(enc_int(ops), ops)
        BY ImulFact, CqoFact, TestFact, IntFact DEF Sized
    <2> HIDE DEF e
    <2>3. QED
        BY <2>1, <2>2, FineContract
<1>15. CASE o \in {"CVTSI2SD", "CVTTSD2SI"}
    <2>1. e = Convert(ops, 2, 42) \/ e = Convert(ops, 1, 44)
        BY <1>15, DispatchFact
    <2>2. Fine(Convert(ops, 2, 42), ops) /\ Fine(Convert(ops, 1, 44), ops)
        BY ConvertFact, 42 \in Int, 44 \in Int
    <2> HIDE DEF e
    <2>3. QED
        BY <2>1, <2>2, FineContract
<1>16. CASE o \notin {"MOV", "PUSH", "POP", "LEA", "MOVZX", "MOVSX", "IMUL", "CQO", "CVTSI2SD",
                     "CVTTSD2SI", "TEST", "JMP", "CALL", "INT"}
              \union Alu \union Divide \union Unary \union Sse \union Setcc \union Shift
              \union Jcc \union Fixed
    <2>1. e = make_error
        BY <1>16, DispatchFact
    <2>2. QED
        BY <2>1, FineError, FineContract
<1>17. QED
    BY <1>1, <1>2, <1>3, <1>4, <1>5, <1>6, <1>7, <1>8, <1>9, <1>10, <1>11, <1>12, <1>13,
       <1>14, <1>15, <1>16

-----------------------------------------------------------------------------
(* Sizing *)

LEMMA BitRange == ASSUME NEW b PROVE Bit(b, 1) \in 0 .. 1
    BY DEF Bit

\* The opcodes sized by hand.
LEMMA ByHandFact ==
    ASSUME NEW o \in SizedByHand, NEW ops \in Seq(Operand), NEW t \in Number
    PROVE  LET e == encoder_encode(o, ops, t)
               size == size_by_hand(o, ops)
           IN  size \in 1 .. 15 /\ (~e.error => e.len = size)
<1> DEFINE e == encoder_encode(o, ops, t)
           size == size_by_hand(o, ops)
           one == IF Kinds(ops) = <<"REG">> THEN Width(ops[1]) ELSE 0
           n == Bit(reg_needs_rex(ops[1].reg), 1)
           stack == IF one = 64 THEN 1 + n ELSE MAX_BYTES
           jump == IF one = 0 THEN 5 ELSE IF one = 64 THEN 2 + n ELSE MAX_BYTES
           int == IF Kinds(ops) = <<"IMM">> /\ immediate_fits_u8(ops[1].imm) THEN 2
                  ELSE MAX_BYTES
           fixed == Len(FixedBytes[o])
<1> SUFFICES size \in 1 .. 15 /\ (~e.error => e.len = size)
    OBVIOUS
<1>0. size = CASE o \in {"PUSH", "POP"} -> stack
               [] o \in {"JMP", "CALL"} -> jump
               [] o = "INT" -> int
               [] o \in DOMAIN JccOp -> 6
               [] OTHER -> fixed
    BY Zenon DEF size_by_hand
<1>1. n \in 0 .. 1
    BY BitRange
<1>2. o \in {"PUSH", "POP", "JMP", "CALL", "INT"} \union Jcc \union Fixed
    BY DomainFacts DEF SizedByHand
<1> HIDE DEF size, stack, jump, int, fixed
<1>3. CASE o \in {"PUSH", "POP"}
    <2>1. size = IF one = 64 THEN 1 + n ELSE MAX_BYTES
        <3>1. size = stack
            BY <1>3, <1>0, DomainFacts DEF Jcc
        <3>2. QED
            BY <3>1 DEF stack
    <2>2. e = PushPop(ops, 80) \/ e = PushPop(ops, 88)
        BY <1>3, DispatchFact
    <2>3. \A c \in {80, 88} :
            ~PushPop(ops, c).error =>
                PushPop(ops, c).len = 1 + n /\ Kinds(ops) = <<"REG">> /\ Width(ops[1]) = 64
        BY PushPopFact, 80 \in Int, 88 \in Int DEF Sized
    <2>4. ~e.error => e.len = 1 + n /\ one = 64
        BY <2>2, <2>3
    <2> HIDE DEF e, size, one, n
    <2>5. QED
        BY <1>1, <2>1, <2>4 DEF MAX_BYTES
<1>4. CASE o \in {"JMP", "CALL"}
    <2>1. size = IF one = 0 THEN 5 ELSE IF one = 64 THEN 2 + n ELSE MAX_BYTES
        <3>1. size = jump
            BY <1>4, <1>0, DomainFacts DEF Jcc
        <3>2. QED
            BY <3>1 DEF jump
    <2>2. e = JmpCall(ops, 4, 233, t) \/ e = JmpCall(ops, 2, 232, t)
        BY <1>4, DispatchFact
    <2>3. /\ Branch(JmpCall(ops, 4, 233, t), ops, 5)
          /\ Branch(JmpCall(ops, 2, 232, t), ops, 5)
        BY JmpCallFact, 4 \in Int, 233 \in Int, 2 \in Int, 232 \in Int
    <2>4. Branch(e, ops, 5)
        BY <2>2, <2>3
    <2>5. <<"LABEL">> # <<"REG">>
        OBVIOUS
    <2>6. ~e.error => (e.len = 2 + n /\ one = 64) \/ (e.len = 5 /\ one = 0)
        BY <2>4, <2>5 DEF Branch
    <2> HIDE DEF e, size, one, n
    <2>7. QED
        BY <1>1, <2>1, <2>6 DEF MAX_BYTES
<1>5. CASE o = "INT"
    <2> DEFINE ok == Kinds(ops) = <<"IMM">> /\ immediate_fits_u8(ops[1].imm)
    <2>1. size = IF ok THEN 2 ELSE MAX_BYTES
        <3>1. size = int
            BY <1>5, <1>0, DomainFacts DEF Jcc
        <3>2. QED
            BY <3>1 DEF int
    <2>2. e = enc_int(ops)
        BY <1>5, DispatchFact
    <2>3. ~e.error => e.len = 2 /\ ok
        BY <2>2, IntFact DEF Sized
    <2> HIDE DEF e, size, ok
    <2>4. QED
        BY <2>1, <2>3 DEF MAX_BYTES
<1>6. CASE o \in Jcc
    <2>1. size = 6
        <3>1. o \in DOMAIN JccOp
            BY <1>6, DomainFacts
        <3>2. o \notin {"PUSH", "POP", "JMP", "CALL", "INT"}
            BY <1>6 DEF Jcc
        <3>3. QED
            BY <1>0, <3>1, <3>2
    <2>2. e = enc_jcc(ops, t, JccOp[o]) /\ JccOp[o] \in Int
        BY <1>6, DispatchFact, TableFacts
    <2>3. Branch(e, ops, 6) /\ (~e.error => Kinds(ops) = <<"LABEL">>)
        BY <2>2, JccFact
    <2>4. <<"LABEL">> # <<"REG">>
        OBVIOUS
    <2> HIDE DEF e, size
    <2>5. ~e.error => e.len = 6
        BY <2>3, <2>4 DEF Branch
    <2>6. QED
        BY <2>1, <2>5
<1>7. CASE o \in Fixed
    <2>1. size = Count(FixedBytes[o])
        <3>1. o \notin DOMAIN JccOp
            BY <1>7, DomainFacts DEF Jcc, Fixed
        <3>2. o \notin {"PUSH", "POP", "JMP", "CALL", "INT"}
            BY <1>7 DEF Fixed
        <3>3. QED
            BY <1>0, <3>1, <3>2 DEF fixed, Count
    <2>2. e = from_buf(FixedBytes[o])
        BY <1>7, DispatchFact
    <2>3. FixedBytes[o] \in Bytes /\ Count(FixedBytes[o]) \in 1 .. 2
        BY <1>7, TableFacts
    <2>4. Count(FixedBytes[o]) >= 1 /\ Count(FixedBytes[o]) <= MAX_BYTES
        BY <2>3 DEF MAX_BYTES
    <2>5. e.len = Count(FixedBytes[o])
        BY <2>2, <2>3, <2>4, FromBufFact
    <2> HIDE DEF e, size
    <2>6. QED
        BY <2>1, <2>3, <2>5
<1>8. QED
    BY <1>2, <1>3, <1>4, <1>5, <1>6, <1>7

\* The others are sized by encoding them, with no target.
LEMMA ByEncodingFact ==
    ASSUME NEW o, o \notin SizedByHand, NEW ops \in Seq(Operand), NEW t \in Number
    PROVE  LET e == encoder_encode(o, ops, t)
               d == encoder_encode(IF o \in DOMAIN ShiftExt THEN "SHL" ELSE o, ops, Zero)
           IN  /\ Sound(e) /\ Sound(d) /\ (e.error <=> d.error)
               /\ ~e.error => e.len = d.len
<1> DEFINE e == encoder_encode(o, ops, t)
           name == IF o \in DOMAIN ShiftExt THEN "SHL" ELSE o
           d == encoder_encode(name, ops, Zero)
<1> SUFFICES /\ Sound(e) /\ Sound(d) /\ (e.error <=> d.error)
             /\ ~e.error => e.len = d.len
    OBVIOUS
<1>1. o \notin {"PUSH", "POP", "JMP", "CALL", "INT"} \union Jcc \union Fixed
    BY DomainFacts DEF SizedByHand
<1>2. name \notin Fixed /\ o \notin Fixed
    BY <1>1 DEF Fixed
<1>3. Sound(e) /\ Sound(d)
    BY <1>2, ZeroFact, ContractFact DEF Contract
<1>4. CASE o \in Shift
    <2>1. name = "SHL" /\ "SHL" \in Shift
        BY <1>4, DomainFacts DEF Shift
    <2>2. e = enc_shift(ops, ShiftExt[o]) /\ ShiftExt[o] \in Int
        BY <1>4, DispatchFact, TableFacts
    <2>3. d = enc_shift(ops, 4)
        BY <2>1, DispatchFact, TableFacts
    <2>4. /\ e.error <=> d.error
          /\ ~e.error => e.len = d.len
        BY <2>2, <2>3, ShiftFact
    <2> HIDE DEF e, d
    <2>5. QED
        BY <1>3, <2>4
<1>5. CASE o \notin Shift
    <2>1. name = o
        BY <1>5, DomainFacts
    <2>2. e = encoder_encode(o, ops, Zero)
        <3>1. CASE o \in {"MOV", "LEA", "MOVZX", "MOVSX", "IMUL", "CQO", "CVTSI2SD",
                         "CVTTSD2SI", "TEST"}
            BY <3>1, DispatchFact
        <3>2. CASE o \in Alu
            BY <3>2, DispatchFact
        <3>3. CASE o \in Divide
            BY <3>3, DispatchFact
        <3>4. CASE o \in Unary
            BY <3>4, DispatchFact
        <3>5. CASE o \in Sse
            BY <3>5, DispatchFact
        <3>6. CASE o \in Setcc
            BY <3>6, DispatchFact
        <3>7. CASE o \notin {"MOV", "PUSH", "POP", "LEA", "MOVZX", "MOVSX", "IMUL", "CQO",
                            "CVTSI2SD", "CVTTSD2SI", "TEST", "JMP", "CALL", "INT"}
                     \union Alu \union Divide \union Unary \union Sse \union Setcc
                     \union Shift \union Jcc \union Fixed
            BY <3>7, DispatchFact
        <3>8. QED
            BY <1>1, <1>5, <3>1, <3>2, <3>3, <3>4, <3>5, <3>6, <3>7
    <2>3. d = encoder_encode(o, ops, Zero)
        BY <2>1
    <2> HIDE DEF e, d
    <2>4. QED
        BY <1>3, <2>2, <2>3
<1>6. QED
    BY <1>4, <1>5

LEMMA SizeFact ==
    ASSUME NEW o, NEW ops \in Seq(Operand), NEW t \in Number
    PROVE  LET e == encoder_encode(o, ops, t)
               size == encoder_instruction_size(o, ops)
           IN  size \in 1 .. MAX_BYTES /\ (~e.error => e.len = size)
<1> DEFINE e == encoder_encode(o, ops, t)
           size == encoder_instruction_size(o, ops)
<1> SUFFICES size \in 1 .. MAX_BYTES /\ (~e.error => e.len = size)
    OBVIOUS
<1>1. CASE o \in SizedByHand
    <2>1. size = size_by_hand(o, ops)
        BY <1>1 DEF encoder_instruction_size
    <2>2. size_by_hand(o, ops) \in 1 .. 15 /\ (~e.error => e.len = size_by_hand(o, ops))
        BY <1>1, ByHandFact
    <2> HIDE DEF e, size
    <2>3. QED
        BY <2>1, <2>2 DEF MAX_BYTES
<1>2. CASE o \notin SizedByHand
    <2> DEFINE d == encoder_encode(IF o \in DOMAIN ShiftExt THEN "SHL" ELSE o, ops, Zero)
    <2>1. size = IF d.error THEN MAX_BYTES ELSE d.len
        BY <1>2 DEF encoder_instruction_size
    <2>2. /\ Sound(e) /\ Sound(d) /\ (e.error <=> d.error)
          /\ ~e.error => e.len = d.len
        BY <1>2, ByEncodingFact
    <2> HIDE DEF e, size, d
    <2>3. CASE d.error
        BY <2>1, <2>2, <2>3 DEF MAX_BYTES
    <2>4. CASE ~d.error
        <3>1. size = d.len /\ d.len \in 1 .. MAX_BYTES
            BY <2>1, <2>2, <2>4 DEF Sound
        <3>2. QED
            BY <2>2, <3>1
    <2>5. QED
        BY <2>3, <2>4
<1>3. QED
    BY <1>1, <1>2

-----------------------------------------------------------------------------
(* The theorems *)

\* A call that has returned has returned what encoder_encode computes.
CallInv ==
    /\ instr \in {s \in Instructions : Len(s.ops) \in arity(s.opcode)}
    /\ target \in Targets
    /\ enc \in {NotCalled, encoder_encode(instr.opcode, instr.ops, target)}

LEMMA CallInvHolds == Spec => []CallInv
<1>1. Init => CallInv
    BY DEF Init, CallInv
<1>2. CallInv /\ [Next]_vars => CallInv'
    <2>1. SUFFICES ASSUME CallInv, [Next]_vars PROVE CallInv'
        OBVIOUS
    <2>2. CASE Encode
        BY <2>1, <2>2 DEF CallInv, Encode
    <2>3. CASE UNCHANGED vars
        BY <2>1, <2>3 DEF CallInv, vars
    <2>4. QED
        BY <2>1, <2>2, <2>3 DEF Next, Returned
<1>3. QED
    BY <1>1, <1>2, PTL DEF Spec

LEMMA ShapeFact ==
    ASSUME CallInv
    PROVE  /\ instr.ops \in Seq(Operand) /\ target \in Number
           /\ instr.opcode \in Fixed => Plain(instr.ops)
<1>1. instr.ops \in Seq(Operand) /\ target \in Number
    BY InstructionsAssumption DEF CallInv
<1>2. ASSUME instr.opcode \in Fixed PROVE Plain(instr.ops)
    <2>1. arity(instr.opcode) = 0 .. 0
        <3>1. instr.opcode \notin {"MOV", "LEA", "ADD", "SUB", "AND", "OR", "XOR", "CMP", "TEST",
                "SHL", "SHR", "SAR", "CVTSI2SD", "CVTTSD2SI"} \union Sse
            BY <1>2 DEF Fixed, Sse
        <3>2. instr.opcode \notin {"IMUL", "PUSH", "POP", "IDIV", "INC", "DEC", "NEG", "NOT",
                "JMP", "CALL", "INT"} \union Jcc
            BY <1>2 DEF Fixed, Jcc
        <3>3. QED
            BY <1>2, <3>1, <3>2, DomainFacts DEF arity
    <2>2. Len(instr.ops) \in 0 .. 0
        BY <2>1 DEF CallInv
    <2>3. Len(instr.ops) = 0
        BY <2>2
    <2>4. DOMAIN instr.ops = 1 .. 0
        BY <1>1, <2>3, LenProperties
    <2>5. QED
        BY <2>4 DEF Plain
<1>3. QED
    BY <1>1, <1>2

(***************************************************************************)
(* For every instruction and every target, encoder_instruction_size (pass  *)
(* 1, before the labels are known) returns the number of bytes             *)
(* encoder_encode (pass 2) produces, between 1 and MAX_INSTRUCTION_BYTES,  *)
(* and a [rip+label] form ends in the 32-bit field the relocation patches. *)
(***************************************************************************)
THEOREM SizeIsAlwaysLength == Spec => []SizeIsLength
<1>1. CallInv => SizeIsLength
    <2>1. SUFFICES ASSUME CallInv PROVE SizeIsLength
        OBVIOUS
    <2> DEFINE o == instr.opcode
               ops == instr.ops
               e == encoder_encode(o, ops, target)
               size == encoder_instruction_size(o, ops)
    <2>2. ops \in Seq(Operand) /\ target \in Number /\ (o \in Fixed => Plain(ops))
        BY <2>1, ShapeFact
    <2>3. size \in 1 .. MAX_BYTES /\ (~e.error => e.len = size)
        BY <2>2, SizeFact
    <2>4. Contract(o, ops, e)
        BY <2>2, ContractFact
    <2>5. Encoded => enc = e /\ ~e.error
        BY <2>1 DEF CallInv, Encoded
    <2> HIDE DEF e, size
    <2>6. ~e.error => e.len = Len(e.bytes)
        BY <2>4 DEF Contract, Sound, Count
    <2>7. ~e.error => \A k \in DOMAIN ops : ops[k].kind = "RIP" =>
                          e.len >= 4 /\ Cut(e.bytes, e.len - 3, 4) = Low(Zero, 4)
        BY <2>4 DEF Contract, HasKind, EndsInField
    <2>8. Encoded => /\ enc.len = size /\ enc.len = Len(enc.bytes)
                     /\ \A k \in DOMAIN ops : ops[k].kind = "RIP" =>
                           enc.len >= 4 /\ Cut(enc.bytes, enc.len - 3, 4) = Low(Zero, 4)
        BY <2>3, <2>5, <2>6, <2>7
    <2>9. QED
        BY <2>3, <2>8 DEF SizeIsLength, size
<1>2. QED
    BY <1>1, CallInvHolds, PTL

(***************************************************************************)
(* The forms encoder_encode accepts when an operand names a symbol are the *)
(* ones EncoderAssumption of module Passes lists, with the lengths it      *)
(* lists: no statement with a symbol reaches the passes in another form.   *)
(***************************************************************************)
THEOREM SymbolicFormsAreKnown ==
    Spec => [](Encoded => Contract(instr.opcode, instr.ops, enc))
<1>1. CallInv => (Encoded => Contract(instr.opcode, instr.ops, enc))
    <2>1. SUFFICES ASSUME CallInv, Encoded PROVE Contract(instr.opcode, instr.ops, enc)
        OBVIOUS
    <2>2. Contract(instr.opcode, instr.ops, encoder_encode(instr.opcode, instr.ops, target))
        BY <2>1, ShapeFact, ContractFact
    <2>3. enc = encoder_encode(instr.opcode, instr.ops, target)
        BY <2>1 DEF CallInv, Encoded
    <2>4. QED
        BY <2>2, <2>3
<1>2. QED
    BY <1>1, CallInvHolds, PTL
=============================================================================
