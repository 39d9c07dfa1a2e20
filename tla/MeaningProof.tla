---------------------------- MODULE MeaningProof ----------------------------
(***************************************************************************)
(* The bytes of every accepted instruction mean that instruction: the      *)
(* decoder of module Encoding reads back the operation, the operands and   *)
(* the length, for every instruction the parser can build and every        *)
(* displacement.                                                           *)
(*                                                                         *)
(* Every form is an opening (prefix, REX, opcode) and a tail (ModRM with   *)
(* what belongs to it, and an immediate).  The fields the decoder finds in *)
(* an opening are those it was built from; at the place it then looks at   *)
(* stands the tail, part by part.  What remains is one lemma per function  *)
(* of table.c and sse2.c, which names the arm of the decoder its opcode    *)
(* leads to.                                                               *)
(***************************************************************************)
EXTENDS EncoderProof

-----------------------------------------------------------------------------
(* What stands where *)

\* From position p on, b holds t.
Stands(b, p, t) == \A i \in 1 .. Count(t) : b[p + (i - 1)] = t[i]

LEMMA StandsSplit ==
    ASSUME NEW b, NEW p \in Int, NEW s \in Bytes, NEW t \in Bytes, Stands(b, p, s \o t)
    PROVE  Stands(b, p, s) /\ Stands(b, p + Count(s), t)
<1>1. /\ Len(s) \in Nat /\ Len(t) \in Nat /\ Len(s \o t) = Len(s) + Len(t)
      /\ \A i \in 1 .. Len(s) + Len(t) :
            (s \o t)[i] = IF i <= Len(s) THEN s[i] ELSE t[i - Len(s)]
    BY ConcatProperties, LenProperties DEF Bytes
<1>2. \A i \in 1 .. Len(s) + Len(t) : b[p + (i - 1)] = (s \o t)[i]
    BY <1>1 DEF Stands, Count
<1>3. ASSUME NEW i \in 1 .. Len(s) PROVE b[p + (i - 1)] = s[i]
    <2>1. i \in 1 .. Len(s) + Len(t) /\ i <= Len(s)
        BY <1>1
    <2>2. QED
        BY <1>1, <1>2, <2>1
<1>4. ASSUME NEW i \in 1 .. Len(t) PROVE b[(p + Len(s)) + (i - 1)] = t[i]
    <2>1. /\ Len(s) + i \in 1 .. Len(s) + Len(t) /\ ~(Len(s) + i <= Len(s))
          /\ (Len(s) + i) - Len(s) = i
          /\ (p + Len(s)) + (i - 1) = p + ((Len(s) + i) - 1)
        BY <1>1
    <2>2. b[p + ((Len(s) + i) - 1)] = (s \o t)[Len(s) + i]
        BY <1>2, <2>1
    <2>3. (s \o t)[Len(s) + i] = t[i]
        BY <1>1, <2>1
    <2>4. QED
        BY <2>1, <2>2, <2>3
<1>5. QED
    BY <1>3, <1>4 DEF Stands, Count

LEMMA StandsByte ==
    ASSUME NEW b, NEW p \in Int, NEW x \in Int, Stands(b, p, <<x>>)
    PROVE  b[p] = x
<1>1. 1 \in 1 .. Count(<<x>>) /\ p + (1 - 1) = p /\ <<x>>[1] = x
    BY DEF Count
<1>2. QED
    BY <1>1 DEF Stands

LEMMA StandsCut ==
    ASSUME NEW b, NEW p \in Int, NEW t \in Bytes, Stands(b, p, t)
    PROVE  Cut(b, p, Count(t)) = t
<1> DEFINE n == Count(t)
           cut == SubSeq(b, p, (p + n) - 1)
<1>1. n \in Nat /\ n = Len(t) /\ \A i \in 1 .. n : t[i] \in Int
    BY LenProperties DEF Bytes, Count
<1>2. \A i \in 1 .. n : b[p + (i - 1)] = t[i]
    BY DEF Stands
<1> HIDE DEF n
<1>3. \A j \in p .. (p + n) - 1 : b[j] \in Int
    <2>1. TAKE j \in p .. (p + n) - 1
    <2>2. (j - p) + 1 \in 1 .. n /\ p + (((j - p) + 1) - 1) = j
        BY <1>1
    <2>3. QED
        BY <1>1, <1>2, <2>2
<1>4. /\ cut \in Seq(Int)
      /\ Len(cut) = IF p <= (p + n) - 1 THEN (((p + n) - 1) - p) + 1 ELSE 0
      /\ \A i \in 1 .. (((p + n) - 1) - p) + 1 : cut[i] = b[(p + i) - 1]
    BY <1>1, <1>3, SubSeqProperties
<1> HIDE DEF cut
<1>5. Len(cut) = n
    BY <1>1, <1>4
<1>6. \A i \in 1 .. n : cut[i] = t[i]
    <2>1. TAKE i \in 1 .. n
    <2>2. i \in 1 .. (((p + n) - 1) - p) + 1 /\ (p + i) - 1 = p + (i - 1)
        BY <1>1
    <2>3. QED
        BY <1>2, <1>4, <2>2
<1>7. cut = t
    BY <1>1, <1>4, <1>5, <1>6, SeqEqual DEF Bytes
<1>8. Cut(b, p, Count(t)) = cut
    BY <1>1 DEF Cut, cut, n
<1>9. QED
    BY <1>7, <1>8

-----------------------------------------------------------------------------
(* The opening: prefix, REX, opcode *)

Prefixes == {<<>>, <<102>>, <<242>>, <<243>>}
PrefixByte(pre) == IF pre = <<>> THEN 0 ELSE pre[1]

\* A one-byte opcode that is no prefix, no REX and no escape.
Ordinary(op) == op \notin {15, 102, 242, 243} /\ op \notin 64 .. 79

Opening(pre, w, reg, rm, force, opcode) == pre \o Rex(w, reg, rm, force) \o opcode

\* The fourth bit of a register number.
Hi(r) == Bit(reg_needs_rex(r), 1)

LEMMA IndexFact ==
    ASSUME NEW r \in 0 .. 79
    PROVE  /\ reg_index(r) \in 0 .. 15 /\ reg_field(r) \in 0 .. 7
           /\ reg_field(r) + 8 * Hi(r) = reg_index(r)
<1> DEFINE n == r % 16
<1>1. n \in 0 .. 15 /\ reg_index(r) = n
    BY SMT DEF reg_index
<1>2. reg_field(r) = n % 8
    BY <1>1 DEF reg_field
<1>3. reg_needs_rex(r) <=> n >= 8
    BY <1>1 DEF reg_needs_rex
<1> HIDE DEF n
<1>4. CASE n >= 8
    <2>1. Hi(r) = 1
        BY <1>3, <1>4 DEF Hi, Bit
    <2>2. n % 8 = n - 8 /\ n - 8 \in 0 .. 7
        BY <1>1, <1>4, SMT
    <2>3. QED
        BY <1>1, <1>2, <2>1, <2>2
<1>5. CASE ~(n >= 8)
    <2>1. Hi(r) = 0
        BY <1>3, <1>5 DEF Hi, Bit
    <2>2. n % 8 = n /\ n \in 0 .. 7
        BY <1>1, <1>5, SMT
    <2>3. QED
        BY <1>1, <1>2, <2>1, <2>2
<1>6. QED
    BY <1>4, <1>5

LEMMA NoRegister == reg_field(REG_INVALID) = 0 /\ ~reg_needs_rex(REG_INVALID)
<1>1. reg_index(REG_INVALID) = -1
    BY SMT DEF reg_index, REG_INVALID
<1>2. QED
    BY <1>1, SMT DEF reg_field, reg_needs_rex

RexByte(w, reg, rm) ==
    64 + Bit(w, 8) + Bit(reg_needs_rex(reg), 4) + Bit(reg_needs_rex(rm), 1)

LEMMA RexBits ==
    ASSUME NEW w \in BOOLEAN, NEW reg, NEW rm
    PROVE  LET x == RexByte(w, reg, rm) IN
           /\ x \in 64 .. 79
           /\ (x \div 8) % 2 = 1 <=> w
           /\ 8 * ((x \div 4) % 2) = 8 * Hi(reg)
           /\ 8 * (x % 2) = 8 * Hi(rm)
<1> DEFINE x == RexByte(w, reg, rm)
           h == Bit(w, 8)
           i == Hi(reg)
           j == Hi(rm)
<1>1. /\ h \in {0, 8} /\ (h = 8 <=> w) /\ i \in {0, 1} /\ j \in {0, 1}
      /\ Bit(reg_needs_rex(reg), 4) = 4 * i
    BY DEF Bit, Hi
<1>2. x = 64 + h + 4 * i + j
    BY <1>1 DEF RexByte, Hi
<1> HIDE DEF x, h, i, j
<1>3. x \in 64 .. 79 /\ x \div 8 = 8 + (h \div 8) /\ x \div 4 = 16 + (h \div 4) + i
    BY <1>1, <1>2, SMT
<1>4. (x \div 8) % 2 = 1 <=> h = 8
    BY <1>1, <1>3, SMT
<1>5. (x \div 4) % 2 = i /\ x % 2 = j
    BY <1>1, <1>2, SMT
<1>6. QED
    BY <1>1, <1>3, <1>4, <1>5 DEF x, i, j

\* b begins with np prefix bytes, nr REX bytes and an opcode of one or two
\* bytes; p and x are the prefix and REX, or 0.
Begins(b, np, nr, two, p, x, op) ==
    /\ IF np = 1 THEN b[1] = p /\ p \in {102, 242, 243} ELSE p = 0
    /\ IF nr = 1 THEN b[np + 1] = x /\ x \in 64 .. 79 ELSE x = 0
    /\ IF two THEN b[np + nr + 1] = 15 /\ b[np + nr + 2] = op
       ELSE b[np + nr + 1] = op /\ Ordinary(op)

FieldsOf(p, x, two, op, modrm) ==
    [prefix |-> p, rex |-> x, w |-> (x \div 8) % 2 = 1,
     r |-> 8 * ((x \div 4) % 2), b |-> 8 * (x % 2), two |-> two, opcode |-> op,
     modrm |-> modrm]

LEMMA FieldsFact ==
    ASSUME NEW b, NEW np \in 0 .. 1, NEW nr \in 0 .. 1, NEW two \in BOOLEAN,
           NEW p \in Int, NEW x \in Int, NEW op \in Int,
           Begins(b, np, nr, two, p, x, op)
    PROVE  Fields(b) =
             FieldsOf(p, x, two, op, IF two THEN np + nr + 3 ELSE np + nr + 2)
<1> USE DEF Begins
<1> DEFINE prefix == IF b[1] \in {102, 242, 243} THEN b[1] ELSE 0
           after == IF prefix = 0 THEN 1 ELSE 2
           rex == IF b[after] \in 64 .. 79 THEN b[after] ELSE 0
           opcode == IF rex = 0 THEN after ELSE after + 1
           second == b[opcode] = 15
<1>1. Fields(b) =
        [prefix |-> prefix, rex |-> rex, w |-> (rex \div 8) % 2 = 1,
         r |-> 8 * ((rex \div 4) % 2), b |-> 8 * (rex % 2), two |-> second,
         opcode |-> IF second THEN b[opcode + 1] ELSE b[opcode],
         modrm |-> IF second THEN opcode + 2 ELSE opcode + 1]
    BY Zenon DEF Fields
<1> DEFINE first == b[np + nr + 1]
<1>2. /\ first \notin {102, 242, 243} /\ first \notin 64 .. 79
      /\ first = 15 <=> two
    BY DEF Ordinary
<1>3. prefix = p /\ after = np + 1
    <2>1. CASE np = 1
        BY <2>1
    <2>2. CASE np = 0 /\ nr = 1
        <3>1. b[1] = x /\ x \in 64 .. 79
            BY <2>2
        <3>2. b[1] \notin {102, 242, 243}
            BY <3>1
        <3>3. QED
            BY <2>2, <3>2
    <2>3. CASE np = 0 /\ nr = 0
        <3>1. b[1] = first
            BY <2>3
        <3>2. QED
            BY <1>2, <2>3, <3>1
    <2>4. QED
        BY <2>1, <2>2, <2>3
<1> HIDE DEF prefix, after
<1>4. rex = x /\ opcode = np + nr + 1
    <2>1. CASE nr = 1
        <3>1. b[after] = x /\ x \in 64 .. 79
            BY <1>3, <2>1
        <3>2. QED
            BY <1>3, <2>1, <3>1
    <2>2. CASE nr = 0
        <3>1. b[after] = first
            BY <1>3, <2>2
        <3>2. QED
            BY <1>2, <1>3, <2>2, <3>1
    <2>3. QED
        BY <2>1, <2>2
<1> HIDE DEF rex, opcode, first
<1>5. second = two
    BY <1>2, <1>4 DEF first
<1>6. (IF second THEN b[opcode + 1] ELSE b[opcode]) = op
    <2>1. CASE two
        <3>1. opcode + 1 = np + nr + 2
            BY <1>4
        <3>2. QED
            BY <1>5, <2>1, <3>1
    <2>2. CASE ~two
        BY <1>4, <1>5, <2>2
    <2>3. QED
        BY <2>1, <2>2
<1>7. (IF second THEN opcode + 2 ELSE opcode + 1) = IF two THEN np + nr + 3 ELSE np + nr + 2
    BY <1>4, <1>5
<1> HIDE DEF second, Begins
<1>8. QED
    BY <1>1, <1>3, <1>4, <1>5, <1>6, <1>7, Zenon DEF FieldsOf

\* What the decoder finds in an opening.
Placed(f, reg, rm) == f.modrm \in Int /\ f.r = 8 * Hi(reg) /\ f.b = 8 * Hi(rm)
Opened(f, pre, w, reg, rm, force, two, op) ==
    /\ f.prefix = PrefixByte(pre) /\ f.w = w
    /\ Placed(f, reg, rm)
    /\ force => f.rex # 0
    /\ f.two = two /\ f.opcode = op

\* b is an opening the decoder reads as f, and from ModRM on a tail t.
Shaped(b, f, t) ==
    /\ f = Fields(b) /\ Stands(b, f.modrm, t)
    /\ b \in Bytes /\ t \in Bytes /\ Count(b) + 1 = f.modrm + Count(t)

LEMMA OpeningFact ==
    ASSUME NEW pre \in Prefixes, NEW w \in BOOLEAN, NEW reg, NEW rm, NEW force \in BOOLEAN,
           NEW op \in Int, NEW two \in BOOLEAN, NEW opcode,
           opcode = IF two THEN <<15, op>> ELSE <<op>>,
           ~two => Ordinary(op),
           NEW t \in Bytes
    PROVE  LET b == Opening(pre, w, reg, rm, force, opcode) \o t IN
           /\ Opened(Fields(b), pre, w, reg, rm, force, two, op)
           /\ Shaped(b, Fields(b), t)
           /\ b \in Bytes /\ Count(b) >= 1 /\ Count(b) <= Count(t) + 4
<1> DEFINE rex == Rex(w, reg, rm, force)
           x == IF rex = <<>> THEN 0 ELSE RexByte(w, reg, rm)
           a == pre \o rex
           o == a \o opcode
           b == o \o t
           np == Count(pre)
           nr == Count(rex)
           p == PrefixByte(pre)
           f == Fields(b)
<1>1. /\ pre \in Bytes /\ np \in 0 .. 1 /\ p \in Int
      /\ IF np = 1 THEN pre[1] = p /\ p \in {102, 242, 243} ELSE p = 0
    <2>1. CASE pre = <<>>
        BY <2>1, NoBytes DEF PrefixByte
    <2>2. CASE pre # <<>>
        <3>1. PICK y \in {102, 242, 243} : pre = <<y>>
            BY <2>2 DEF Prefixes
        <3>2. y \in Int /\ pre[1] = y
            BY <3>1
        <3>3. p = y
            BY <2>2, <3>2 DEF PrefixByte
        <3>4. QED
            BY <3>1, <3>2, <3>3, OneByte
    <2>3. QED
        BY <2>1, <2>2
<1>2. /\ rex \in Bytes /\ nr \in 0 .. 1 /\ x \in Int
      /\ IF nr = 1 THEN rex[1] = x /\ x \in 64 .. 79 ELSE x = 0
      /\ (x \div 8) % 2 = 1 <=> w
      /\ 8 * ((x \div 4) % 2) = 8 * Hi(reg)
      /\ 8 * (x % 2) = 8 * Hi(rm)
      /\ force => x # 0
    <2> DEFINE y == RexByte(w, reg, rm)
    <2>1. rex = IF force \/ w \/ reg_needs_rex(reg) \/ reg_needs_rex(rm) THEN <<y>> ELSE <<>>
        BY DEF Rex, RexByte
    <2>2. /\ y \in 64 .. 79 /\ ((y \div 8) % 2 = 1 <=> w)
          /\ 8 * ((y \div 4) % 2) = 8 * Hi(reg) /\ 8 * (y % 2) = 8 * Hi(rm)
        BY RexBits
    <2> HIDE DEF y
    <2>3. CASE force \/ w \/ reg_needs_rex(reg) \/ reg_needs_rex(rm)
        <3>1. rex = <<y>> /\ y \in Int
            BY <2>1, <2>2, <2>3
        <3>2. rex \in Bytes /\ nr = 1 /\ rex # <<>> /\ rex[1] = y
            BY <3>1, OneByte
        <3>3. x = y
            BY <3>2 DEF y
        <3> HIDE DEF rex, x
        <3>4. y # 0
            BY <2>2
        <3>5. QED
            BY <2>2, <3>1, <3>2, <3>3, <3>4
    <2>4. CASE ~(force \/ w \/ reg_needs_rex(reg) \/ reg_needs_rex(rm))
        <3>1. rex = <<>> /\ x = 0 /\ ~w /\ ~force /\ Hi(reg) = 0 /\ Hi(rm) = 0
            BY <2>1, <2>4 DEF Hi, Bit
        <3>2. rex \in Bytes /\ nr = 0
            BY <3>1, NoBytes
        <3> HIDE DEF rex, x
        <3>3. QED
            BY <3>1, <3>2, SMT
    <2>5. QED
        BY <2>3, <2>4
<1>3. /\ opcode \in Bytes /\ Count(opcode) = IF two THEN 2 ELSE 1
      /\ IF two THEN opcode[1] = 15 /\ opcode[2] = op ELSE opcode[1] = op
    <2>1. CASE two
        <3>1. opcode = <<15, op>>
            BY <2>1
        <3>2. QED
            BY <2>1, <3>1, TwoBytes, 15 \in Int
    <2>2. CASE ~two
        <3>1. opcode = <<op>>
            BY <2>2
        <3>2. QED
            BY <2>2, <3>1, OneByte
    <2>3. QED
        BY <2>1, <2>2
<1>4. Opening(pre, w, reg, rm, force, opcode) = o
    BY DEF Opening
<1> SUFFICES Opened(f, pre, w, reg, rm, force, two, op) /\ Shaped(b, f, t)
                /\ b \in Bytes /\ Count(b) >= 1 /\ Count(b) <= Count(t) + 4
    BY <1>4
<1> HIDE DEF x, p, rex
<1>5. /\ a \in Bytes /\ Count(a) = np + nr
      /\ \A i \in 1 .. np + nr : a[i] = IF i <= np THEN pre[i] ELSE rex[i - np]
    BY <1>1, <1>2, ConcatProperties DEF Bytes, Count
<1> HIDE DEF a
<1>6. /\ o \in Bytes /\ Count(o) = np + nr + Count(opcode)
      /\ \A i \in 1 .. np + nr + Count(opcode) :
            o[i] = IF i <= np + nr THEN a[i] ELSE opcode[i - (np + nr)]
    BY <1>3, <1>5, ConcatProperties DEF Bytes, Count
<1> HIDE DEF o
<1>7. /\ b \in Bytes /\ Count(b) = Count(o) + Count(t) /\ Count(t) \in Nat
      /\ \A i \in 1 .. Count(o) + Count(t) :
            b[i] = IF i <= Count(o) THEN o[i] ELSE t[i - Count(o)]
    <2>1. /\ b \in Bytes /\ Len(b) = Len(o) + Len(t) /\ Len(t) \in Nat
          /\ \A i \in 1 .. Len(o) + Len(t) : b[i] = IF i <= Len(o) THEN o[i] ELSE t[i - Len(o)]
        BY <1>6, ConcatProperties, LenProperties DEF Bytes
    <2> HIDE DEF b
    <2>2. QED
        BY <2>1 DEF Count
<1> HIDE DEF b, np, nr
<1> DEFINE no == Count(opcode)
<1>8. no \in 1 .. 2
    BY <1>3
<1>9. /\ np = 1 => b[1] = pre[1]
      /\ nr = 1 => b[np + 1] = rex[1]
      /\ b[np + nr + 1] = opcode[1]
      /\ no = 2 => b[np + nr + 2] = opcode[2]
    <2> HIDE DEF no
    <2>0. Count(o) = np + nr + no
        BY <1>6 DEF no
    <2>1. ASSUME np = 1 PROVE b[1] = pre[1]
        <3>1. /\ 1 \in 1 .. np + nr /\ 1 <= np /\ 1 \in 1 .. np + nr + no /\ 1 <= np + nr
              /\ 1 \in 1 .. Count(o) + Count(t) /\ 1 <= Count(o)
            BY <1>1, <1>2, <1>7, <1>8, <2>0, <2>1
        <3>2. QED
            BY <1>5, <1>6, <1>7, <3>1 DEF no
    <2>2. ASSUME nr = 1 PROVE b[np + 1] = rex[1]
        <3>1. /\ np + 1 \in 1 .. np + nr /\ ~(np + 1 <= np) /\ np + 1 \in 1 .. np + nr + no
              /\ np + 1 <= np + nr /\ np + 1 \in 1 .. Count(o) + Count(t) /\ np + 1 <= Count(o)
              /\ (np + 1) - np = 1
            BY <1>1, <1>2, <1>7, <1>8, <2>0, <2>2
        <3>2. QED
            BY <1>5, <1>6, <1>7, <3>1 DEF no
    <2>3. \A k \in 1 .. no : b[(np + nr) + k] = opcode[k]
        <3>1. TAKE k \in 1 .. no
        <3>2. /\ (np + nr) + k \in 1 .. np + nr + no /\ ~((np + nr) + k <= np + nr)
              /\ ((np + nr) + k) - (np + nr) = k
              /\ (np + nr) + k \in 1 .. Count(o) + Count(t) /\ (np + nr) + k <= Count(o)
            BY <1>1, <1>2, <1>7, <1>8, <2>0
        <3>3. QED
            BY <1>6, <1>7, <3>2 DEF no
    <2>4. 1 \in 1 .. no /\ (no = 2 => 2 \in 1 .. no)
        BY <1>8
    <2>5. QED
        BY <2>1, <2>2, <2>3, <2>4
<1>10. f = FieldsOf(p, x, two, op, IF two THEN np + nr + 3 ELSE np + nr + 2)
    <2>1. Begins(b, np, nr, two, p, x, op)
        BY <1>1, <1>2, <1>3, <1>9 DEF Begins
    <2>2. np \in 0 .. 1 /\ nr \in 0 .. 1 /\ p \in Int /\ x \in Int
        BY <1>1, <1>2
    <2>3. two \in BOOLEAN /\ op \in Int
        OBVIOUS
    <2> DEFINE m == IF two THEN np + nr + 3 ELSE np + nr + 2
    <2>4. Fields(b) = FieldsOf(p, x, two, op, m)
        BY <2>1, <2>2, <2>3, FieldsFact
    <2>5. QED
        BY <2>4
<1> HIDE DEF f
<1>11. f.modrm = Count(o) + 1
    <2>1. f.modrm = IF two THEN np + nr + 3 ELSE np + nr + 2
        BY <1>10, Zenon DEF FieldsOf
    <2>2. QED
        BY <1>1, <1>2, <1>3, <1>6, <2>1
<1>12. Opened(f, pre, w, reg, rm, force, two, op)
    <2>1. /\ f.prefix = p /\ f.rex = x /\ f.w = ((x \div 8) % 2 = 1)
          /\ f.r = 8 * ((x \div 4) % 2) /\ f.b = 8 * (x % 2) /\ f.two = two /\ f.opcode = op
        BY <1>10, Zenon DEF FieldsOf
    <2>2. f.w = w
        BY <1>2, <2>1, Zenon
    <2>3. f.modrm \in Int
        BY <1>6, <1>11, CountFact
    <2>4. f.r = 8 * Hi(reg) /\ f.b = 8 * Hi(rm) /\ (force => f.rex # 0) /\ f.prefix = PrefixByte(pre)
        BY <1>2, <2>1 DEF p
    <2>5. QED
        BY <2>1, <2>2, <2>3, <2>4, Zenon DEF Opened, Placed
<1>13. Stands(b, f.modrm, t)
    <2>1. SUFFICES ASSUME NEW i \in 1 .. Count(t) PROVE b[f.modrm + (i - 1)] = t[i]
        BY DEF Stands
    <2>2. /\ Count(o) + i \in 1 .. Count(o) + Count(t) /\ ~(Count(o) + i <= Count(o))
          /\ (Count(o) + i) - Count(o) = i /\ f.modrm + (i - 1) = Count(o) + i
        BY <1>6, <1>7, <1>11, CountFact
    <2>3. QED
        BY <1>7, <2>2
<1>14. Count(b) + 1 = f.modrm + Count(t) /\ Count(b) >= 1 /\ Count(b) <= Count(t) + 4
    BY <1>1, <1>2, <1>3, <1>6, <1>7, <1>11, CountFact
<1>15. QED
    BY <1>7, <1>12, <1>13, <1>14 DEF Shaped, f

-----------------------------------------------------------------------------
(* Numbers, registers and addresses read back *)

LEMMA LowValues ==
    ASSUME NEW v \in Number, NEW n \in 1 .. 8
    PROVE  /\ Low(v, n) \in [1 .. n -> Int] /\ Len(Low(v, n)) = n
           /\ \A k \in 1 .. n : Low(v, n)[k] = v[k]
<1>1. \A k \in 1 .. n : v[k] \in Int
    BY SMT DEF Number
<1>2. /\ SubSeq(v, 1, n) \in Seq(Int)
      /\ Len(SubSeq(v, 1, n)) = IF 1 <= n THEN (n - 1) + 1 ELSE 0
      /\ \A i \in 1 .. (n - 1) + 1 : SubSeq(v, 1, n)[i] = v[(1 + i) - 1]
    BY <1>1, SubSeqProperties, 1 \in Int, n \in Int
<1>3. Len(Low(v, n)) = n /\ Low(v, n) \in Seq(Int)
    BY <1>2 DEF Low
<1>4. \A k \in 1 .. n : Low(v, n)[k] = v[k]
    <2>1. TAKE k \in 1 .. n
    <2>2. k \in 1 .. (n - 1) + 1 /\ (1 + k) - 1 = k
        OBVIOUS
    <2>3. QED
        BY <1>2, <2>2 DEF Low
<1>5. QED
    BY <1>3, <1>4, LenProperties

\* The n lowest bytes, extended to more, are the number that fits in n.
LEMMA ExtendFact ==
    ASSUME NEW v \in Number, NEW to \in 1 .. 8, NEW n \in 1 .. to,
           n = to \/ FitsSigned(v, n)
    PROVE  SignExtend(Low(v, n), to) = Low(v, to)
<1> DEFINE u == Low(v, n)
           e == SignExtend(u, to)
<1>1. /\ Len(u) = n /\ \A k \in 1 .. n : u[k] = v[k]
      /\ Low(v, to) \in [1 .. to -> Int] /\ \A k \in 1 .. to : Low(v, to)[k] = v[k]
    <2>1. n \in 1 .. 8
        OBVIOUS
    <2>2. QED
        BY <2>1, LowValues
<1> HIDE DEF u
<1>2. /\ DOMAIN e = 1 .. to
      /\ \A k \in 1 .. to : e[k] = IF k <= n THEN u[k] ELSE IF u[n] >= 128 THEN 255 ELSE 0
      /\ e = [k \in 1 .. to |-> e[k]]
    BY <1>1 DEF SignExtend
<1>3. \A k \in 1 .. to : e[k] = v[k]
    <2>1. SUFFICES ASSUME NEW k \in 1 .. to PROVE e[k] = v[k]
        OBVIOUS
    <2>2. CASE k <= n
        BY <1>1, <1>2, <2>2
    <2>3. CASE ~(k <= n)
        <3>1. FitsSigned(v, n) /\ k \in n + 1 .. 8
            BY <2>3
        <3>2. v[k] = IF v[n] >= 128 THEN 255 ELSE 0
            BY <3>1 DEF FitsSigned
        <3>3. u[n] = v[n]
            BY <1>1
        <3>4. QED
            BY <1>2, <2>3, <3>2, <3>3
    <2>4. QED
        BY <2>2, <2>3
<1> HIDE DEF e
<1>4. e = Low(v, to)
    BY <1>1, <1>2, <1>3
<1>5. QED
    BY <1>4 DEF e, u

LEMMA LowAll == ASSUME NEW v \in Number PROVE Low(v, 8) = v
<1>1. Low(v, 8) \in [1 .. 8 -> Int] /\ \A k \in 1 .. 8 : Low(v, 8)[k] = v[k]
    BY LowValues, 8 \in 1 .. 8
<1>2. v = [k \in 1 .. 8 |-> v[k]]
    BY DEF Number
<1>3. QED
    BY <1>1, <1>2

\* n bytes of a number, read as a number of `to` bytes.
LEMMA ImmediateRead ==
    ASSUME NEW b, NEW p \in Int, NEW v \in Number, NEW to \in 1 .. 8, NEW n \in 1 .. to,
           n = to \/ FitsSigned(v, n), Stands(b, p, Low(v, n))
    PROVE  ImmOperand(b, p, n, to) = <<"imm", Low(v, to)>>
<1>1. Low(v, n) \in Bytes /\ Count(Low(v, n)) = n
    <2>1. n \in 1 .. 8
        OBVIOUS
    <2>2. QED
        BY <2>1, LowFact
<1>2. Cut(b, p, n) = Low(v, n)
    BY <1>1, StandsCut
<1>3. SignExtend(Low(v, n), to) = Low(v, to)
    BY ExtendFact
<1>4. QED
    BY <1>2, <1>3 DEF ImmOperand

LEMMA ModrmRead ==
    ASSUME NEW mod \in 0 .. 3, NEW reg \in 0 .. 7, NEW rm \in 0 .. 7
    PROVE  LET m == modrm_byte(mod, reg, rm) IN
           /\ m \in Int /\ m \div 64 = mod /\ (m \div 8) % 8 = reg /\ m % 8 = rm
<1> DEFINE m == modrm_byte(mod, reg, rm)
<1>1. reg % 8 = reg /\ rm % 8 = rm
    BY SMT
<1>2. m = 64 * mod + 8 * reg + rm
    BY <1>1 DEF modrm_byte
<1> HIDE DEF m
<1>3. m \div 8 = 8 * mod + reg /\ m \div 64 = mod /\ m % 8 = rm
    BY <1>2, SMT
<1>4. (8 * mod + reg) % 8 = reg
    BY SMT
<1>5. QED
    BY <1>2, <1>3, <1>4 DEF m

\* A register as the decoder names it.
RegisterValue(width, r) ==
    IF width = 128 THEN <<"xmm", reg_index(r)>> ELSE <<"reg", width, reg_index(r)>>

\* The byte registers that need a REX byte to be told from AH ... BH.
NewByte(width, r) == width = 8 /\ reg_index(r) >= 4
Known(f, width, r) == NewByte(width, r) => f.rex # 0

LEMMA RegisterRead ==
    ASSUME NEW f, NEW width, NEW r \in 0 .. 79, Known(f, width, r)
    PROVE  RegisterOperand(f, width, reg_index(r)) = RegisterValue(width, r)
<1>1. reg_index(r) \in 4 .. 7 => reg_index(r) >= 4
    BY IndexFact
<1>2. ~(width = 8 /\ f.rex = 0 /\ reg_index(r) \in 4 .. 7)
    BY <1>1 DEF Known, NewByte
<1>3. QED
    BY <1>2, Zenon DEF RegisterOperand, RegisterValue

LEMMA MiddleRead ==
    ASSUME NEW b, NEW f, NEW width, NEW r \in 0 .. 79, Known(f, width, r),
           f.r = 8 * Hi(r), Extension(b, f) = reg_field(r)
    PROVE  RegOperand(b, f, width) = RegisterValue(width, r)
<1>1. reg_field(r) + 8 * Hi(r) = reg_index(r)
    BY IndexFact
<1>2. Extension(b, f) + f.r = reg_index(r)
    BY <1>1
<1>3. QED
    BY <1>2, RegisterRead DEF RegOperand

\* The record RmOperand returns.
Found(operand, next) == [operand |-> operand, next |-> next]

\* The five outcomes of RmOperand.
LEMMA RmCases ==
    ASSUME NEW b, NEW f, NEW width, f.modrm \in Int, b[f.modrm] \in Int
    PROVE  LET m    == b[f.modrm]
               mod  == m \div 64
               rm   == m % 8
               next == f.modrm + 1
               base == (IF rm = 4 THEN b[next] % 8 ELSE rm) + f.b
               disp == IF rm = 4 THEN next + 1 ELSE next
               r    == RmOperand(b, f, width)
           IN  /\ mod = 3 => r = Found(RegisterOperand(f, width, rm + f.b), next)
               /\ mod = 0 /\ rm = 5 => r = Found(<<"rip", Cut(b, next, 4)>>, next + 4)
               /\ mod = 0 /\ rm # 5 /\ (rm = 4 => b[next] \div 8 = 4 /\ b[next] % 8 # 5)
                    => r = Found(<<"mem", base, Zero>>, disp)
               /\ mod = 1 => r = Found(<<"mem", base, SignExtend(Cut(b, disp, 1), 8)>>, disp + 1)
               /\ mod = 2 => r = Found(<<"mem", base, SignExtend(Cut(b, disp, 4), 8)>>, disp + 4)
<1> DEFINE m    == b[f.modrm]
           mod  == m \div 64
           rm   == m % 8
           next == f.modrm + 1
           base == (IF rm = 4 THEN b[next] % 8 ELSE rm) + f.b
           disp == IF rm = 4 THEN next + 1 ELSE next
           r    == RmOperand(b, f, width)
           indexed == rm = 4 /\ (b[next] \div 8 # 4 \/ b[next] % 8 = 5)
           r1 == Found(RegisterOperand(f, width, rm + f.b), next)
           r2 == Found(<<"rip", Cut(b, next, 4)>>, next + 4)
           r3 == Found(IF indexed THEN <<"indexed">> ELSE <<"mem", base, Zero>>, disp)
           r4 == Found(<<"mem", base, SignExtend(Cut(b, disp, 1), 8)>>, disp + 1)
           r5 == Found(<<"mem", base, SignExtend(Cut(b, disp, 4), 8)>>, disp + 4)
<1>1. r = CASE mod = 3 -> r1
            [] mod = 0 /\ rm = 5 -> r2
            [] mod = 0 /\ rm # 5 -> r3
            [] mod = 1 -> r4
            [] mod = 2 -> r5
    BY Zenon DEF RmOperand, Found
<1>2. ~indexed => r3 = Found(<<"mem", base, Zero>>, disp)
    BY Zenon
<1>3. (rm = 4 => b[next] \div 8 = 4 /\ b[next] % 8 # 5) => ~indexed
    OBVIOUS
<1> DEFINE q3 == Found(<<"mem", base, Zero>>, disp)
<1> HIDE DEF r, r1, r2, r3, r4, r5, q3, indexed
<1>4. /\ mod = 3 => r = r1
      /\ mod = 0 /\ rm = 5 => r = r2
      /\ mod = 0 /\ rm # 5 => r = r3
      /\ mod = 1 => r = r4
      /\ mod = 2 => r = r5
    <2> HIDE DEF mod, rm
    <2>1. QED
        BY <1>1
<1>5. mod = 0 /\ rm # 5 /\ (rm = 4 => b[next] \div 8 = 4 /\ b[next] % 8 # 5) => r = q3
    BY <1>2, <1>3, <1>4 DEF q3
<1>6. QED
    BY <1>4, <1>5, Zenon DEF r, r1, r2, q3, r4, r5

LEMMA RegisterFormRead ==
    ASSUME NEW b, NEW f, NEW width, NEW ext \in 0 .. 7, NEW rm \in 0 .. 79,
           f.modrm \in Int, f.b = 8 * Hi(rm), Known(f, width, rm),
           Stands(b, f.modrm, RegRm(ext, rm))
    PROVE  /\ RmOperand(b, f, width) = Found(RegisterValue(width, rm), f.modrm + 1)
           /\ Extension(b, f) = ext
<1> DEFINE m == modrm_byte(3, ext, reg_field(rm))
           p == f.modrm
<1>1. /\ m \in Int /\ m \div 64 = 3 /\ (m \div 8) % 8 = ext /\ m % 8 = reg_field(rm)
    BY ModrmRead, IndexFact, 3 \in 0 .. 3
<1>2. RegRm(ext, rm) = <<m>>
    BY DEF RegRm
<1> HIDE DEF m
<1>3. b[p] = m
    BY <1>1, <1>2, StandsByte
<1>4. reg_field(rm) + f.b = reg_index(rm)
    BY IndexFact
<1>5. RmOperand(b, f, width) = Found(RegisterOperand(f, width, reg_field(rm) + f.b), p + 1)
    BY <1>1, <1>3, RmCases
<1>6. RegisterOperand(f, width, reg_index(rm)) = RegisterValue(width, rm)
    BY RegisterRead
<1>7. Extension(b, f) = ext
    BY <1>1, <1>3 DEF Extension
<1>8. QED
    BY <1>4, <1>5, <1>6, <1>7

LEMMA RipFormRead ==
    ASSUME NEW b, NEW f, NEW width, NEW ext \in 0 .. 7, f.modrm \in Int,
           Stands(b, f.modrm, <<modrm_byte(0, ext, 5)>> \o Low(Zero, 4))
    PROVE  /\ RmOperand(b, f, width) = Found(<<"rip", Low(Zero, 4)>>, f.modrm + 5)
           /\ Extension(b, f) = ext
<1> DEFINE m == modrm_byte(0, ext, 5)
           p == f.modrm
           one == <<m>>
           z == Low(Zero, 4)
<1>1. /\ m \in Int /\ m \div 64 = 0 /\ (m \div 8) % 8 = ext /\ m % 8 = 5
    BY ModrmRead, 0 \in 0 .. 3, 5 \in 0 .. 7
<1>2. z \in Bytes /\ Count(z) = 4 /\ one \in Bytes /\ Count(one) = 1
    <2>1. z \in Bytes /\ Count(z) = 4
        BY ZeroFact, LowFact
    <2> HIDE DEF m
    <2>2. QED
        BY <1>1, <2>1, OneByte
<1> HIDE DEF m, z
<1>3. Stands(b, p, one) /\ Stands(b, p + 1, z)
    <2> HIDE DEF one
    <2>1. Stands(b, p, one) /\ Stands(b, p + Count(one), z)
        BY <1>2, StandsSplit DEF one, m, z
    <2>2. QED
        BY <1>2, <2>1
<1>4. b[p] = m
    BY <1>1, <1>3, StandsByte
<1>5. Cut(b, p + 1, 4) = z
    <2>1. p + 1 \in Int
        OBVIOUS
    <2>2. Cut(b, p + 1, Count(z)) = z
        BY <1>2, <1>3, <2>1, StandsCut
    <2>3. QED
        BY <1>2, <2>2
<1>6. RmOperand(b, f, width) = Found(<<"rip", Cut(b, p + 1, 4)>>, (p + 1) + 4)
    BY <1>1, <1>4, RmCases
<1>7. (p + 1) + 4 = p + 5
    OBVIOUS
<1>8. Extension(b, f) = ext
    BY <1>1, <1>4 DEF Extension
<1>9. QED
    BY <1>5, <1>6, <1>7, <1>8 DEF z

LEMMA SibFact == sib_byte(0, 4, 4) \in Int /\ sib_byte(0, 4, 4) \div 8 = 4
                     /\ sib_byte(0, 4, 4) % 8 = 4
    BY SMT DEF sib_byte

\* What follows ModRM in the address of a register: a SIB byte, if the base
\* has the number that announces one, and the displacement.
LEMMA AddressFormRead ==
    ASSUME NEW b, NEW f, NEW width, NEW ext \in 0 .. 7, NEW base \in 0 .. 79,
           NEW v \in Number, immediate_fits_i32(v),
           f.modrm \in Int, f.b = 8 * Hi(base),
           Stands(b, f.modrm, emit_mem_address(ext, base, v))
    PROVE  /\ RmOperand(b, f, width) =
                Found(<<"mem", reg_index(base), v>>,
                      f.modrm + Count(emit_mem_address(ext, base, v)))
           /\ Extension(b, f) = ext
<1> DEFINE rm == reg_field(base)
           p == f.modrm
           mod == IF v = Zero /\ rm # 5 THEN 0 ELSE IF immediate_fits_i8(v) THEN 1 ELSE 2
           m == modrm_byte(mod, ext, rm)
           one == <<m>>
           sib == IF rm = 4 THEN <<sib_byte(0, 4, rm)>> ELSE <<>>
           num == IF mod = 0 THEN <<>> ELSE IF mod = 1 THEN Low(v, 1) ELSE Low(v, 4)
           size == IF mod = 0 THEN 0 ELSE IF mod = 1 THEN 1 ELSE 4
           disp == IF rm = 4 THEN p + 2 ELSE p + 1
           whole == emit_mem_address(ext, base, v)
<1>1. rm \in 0 .. 7 /\ rm + f.b = reg_index(base)
    BY IndexFact
<1>2. mod \in {0, 1, 2} /\ mod \in 0 .. 3
    OBVIOUS
<1>3. m \in Int /\ m \div 64 = mod /\ (m \div 8) % 8 = ext /\ m % 8 = rm
    <2> HIDE DEF mod, rm
    <2>1. QED
        BY <1>1, <1>2, ModrmRead
<1>4. one \in Bytes /\ Count(one) = 1
    <2> HIDE DEF m
    <2>1. QED
        BY <1>3, OneByte
<1>5. /\ sib \in Bytes /\ Count(sib) = IF rm = 4 THEN 1 ELSE 0
      /\ rm = 4 => sib = <<sib_byte(0, 4, 4)>>
    BY SibFact, OneByte, NoBytes
<1>6. num \in Bytes /\ Count(num) = size
    <2> HIDE DEF mod
    <2>1. /\ Low(v, 1) \in Bytes /\ Count(Low(v, 1)) = 1
          /\ Low(v, 4) \in Bytes /\ Count(Low(v, 4)) = 4
        BY LowFact
    <2>2. QED
        BY <1>2, <2>1, NoBytes
<1>7. whole = (one \o sib) \o num
    <2>1. CASE v = Zero /\ rm # 5
        <3>1. whole = one \o sib /\ num = <<>>
            BY <2>1 DEF emit_mem_address
        <3> HIDE DEF whole, one, sib, num
        <3>2. one \o sib \in Bytes
            BY <1>4, <1>5, JoinFact
        <3>3. (one \o sib) \o <<>> = one \o sib
            BY <3>2, ConcatEmptySeq DEF Bytes
        <3>4. QED
            BY <3>1, <3>3
    <2>2. CASE ~(v = Zero /\ rm # 5) /\ immediate_fits_i8(v)
        <3>1. mod = 1 /\ num = Low(v, 1)
            BY <2>2
        <3>2. whole = <<modrm_byte(1, ext, rm)>> \o sib \o Low(v, 1)
            BY <2>2 DEF emit_mem_address
        <3> HIDE DEF mod, sib, num, whole
        <3>3. QED
            BY <3>1, <3>2
    <2>3. CASE ~(v = Zero /\ rm # 5) /\ ~immediate_fits_i8(v)
        <3>1. mod = 2 /\ num = Low(v, 4)
            BY <2>3
        <3>2. whole = <<modrm_byte(2, ext, rm)>> \o sib \o Low(v, 4)
            BY <2>3 DEF emit_mem_address
        <3> HIDE DEF mod, sib, num, whole
        <3>3. QED
            BY <3>1, <3>2
    <2>4. QED
        BY <2>1, <2>2, <2>3
<1>8. v = Zero \/ mod # 0
    OBVIOUS
<1>9. mod = 1 => FitsSigned(v, 1)
    BY DEF immediate_fits_i8
<1>10. mod = 0 => rm # 5
    OBVIOUS
<1> HIDE DEF mod, m, one, sib, num, whole, rm
<1>11. Stands(b, p, one) /\ Stands(b, p + 1, sib) /\ Stands(b, disp, num)
    <2>1. one \o sib \in Bytes /\ Count(one \o sib) = 1 + Count(sib)
        BY <1>4, <1>5, JoinFact
    <2>2. Stands(b, p, (one \o sib) \o num)
        BY <1>7 DEF whole
    <2>3. Stands(b, p, one \o sib) /\ Stands(b, p + Count(one \o sib), num)
        BY <1>6, <2>1, <2>2, StandsSplit
    <2>4. Stands(b, p, one) /\ Stands(b, p + Count(one), sib)
        BY <1>4, <1>5, <2>3, StandsSplit
    <2>5. p + Count(one \o sib) = disp
        BY <1>5, <2>1
    <2>6. QED
        BY <1>4, <2>3, <2>4, <2>5
<1>12. b[p] = m
    BY <1>3, <1>11, StandsByte DEF one
<1>13. rm = 4 => b[p + 1] = sib_byte(0, 4, 4)
    BY <1>5, <1>11, SibFact, StandsByte
<1>14. (IF rm = 4 THEN b[p + 1] % 8 ELSE rm) + f.b = reg_index(base)
    BY <1>1, <1>13, SibFact
<1>15. Count(whole) = 1 + Count(sib) + size
    <2>1. one \o sib \in Bytes /\ Count(one \o sib) = 1 + Count(sib)
        BY <1>4, <1>5, JoinFact
    <2>2. QED
        BY <1>6, <1>7, <2>1, JoinFact
<1>16. p + Count(whole) = disp + size
    BY <1>2, <1>5, <1>15
<1>17. Extension(b, f) = ext
    BY <1>3, <1>12 DEF Extension
<1>18. RmOperand(b, f, width) = Found(<<"mem", reg_index(base), v>>, disp + size)
    <2> DEFINE base_ == (IF rm = 4 THEN b[p + 1] % 8 ELSE rm) + f.b
               disp_ == IF rm = 4 THEN (p + 1) + 1 ELSE p + 1
    <2>1. /\ mod = 0 /\ rm # 5 /\ (rm = 4 => b[p + 1] \div 8 = 4 /\ b[p + 1] % 8 # 5)
                => RmOperand(b, f, width) = Found(<<"mem", base_, Zero>>, disp_)
          /\ mod = 1 => RmOperand(b, f, width) =
                Found(<<"mem", base_, SignExtend(Cut(b, disp_, 1), 8)>>, disp_ + 1)
          /\ mod = 2 => RmOperand(b, f, width) =
                Found(<<"mem", base_, SignExtend(Cut(b, disp_, 4), 8)>>, disp_ + 4)
        BY <1>3, <1>12, RmCases
    <2>2. base_ = reg_index(base)
        BY <1>14
    <2>3. disp_ = disp /\ disp \in Int
        OBVIOUS
    <2>4. rm = 4 => b[p + 1] \div 8 = 4 /\ b[p + 1] % 8 # 5
        BY <1>13, SibFact
    <2> HIDE DEF base_, disp_, disp
    <2>5. CASE mod = 0
        <3>1. size = 0 /\ v = Zero /\ disp + size = disp
            BY <1>8, <2>3, <2>5
        <3>2. RmOperand(b, f, width) = Found(<<"mem", base_, Zero>>, disp_)
            BY <1>10, <2>1, <2>4, <2>5
        <3>3. QED
            BY <2>2, <2>3, <3>1, <3>2
    <2>6. CASE mod = 1
        <3>1. size = 1 /\ num = Low(v, 1)
            BY <2>6 DEF num
        <3>2. Cut(b, disp, 1) = Low(v, 1)
            BY <1>6, <1>11, <2>3, <3>1, StandsCut
        <3>3. SignExtend(Low(v, 1), 8) = v
            BY <1>9, <2>6, ExtendFact, LowAll, 8 \in 1 .. 8, 1 \in 1 .. 8
        <3>4. QED
            BY <2>1, <2>2, <2>3, <2>6, <3>1, <3>2, <3>3
    <2>7. CASE mod = 2
        <3>1. size = 4 /\ num = Low(v, 4)
            BY <2>7 DEF num
        <3>2. Cut(b, disp, 4) = Low(v, 4)
            BY <1>6, <1>11, <2>3, <3>1, StandsCut
        <3>3. SignExtend(Low(v, 4), 8) = v
            BY ExtendFact, LowAll, 8 \in 1 .. 8, 4 \in 1 .. 8 DEF immediate_fits_i32
        <3>4. QED
            BY <2>1, <2>2, <2>3, <2>7, <3>1, <3>2, <3>3
    <2>8. QED
        BY <1>2, <2>5, <2>6, <2>7
<1>19. QED
    BY <1>16, <1>17, <1>18 DEF whole

-----------------------------------------------------------------------------
(* The width the decoder infers *)

LEMMA WideFact ==
    ASSUME NEW width \in {16, 32, 64}, NEW f, NEW reg, NEW rm, NEW force, NEW two, NEW op,
           Opened(f, emit_width_prefix(width), width = 64, reg, rm, force, two, op)
    PROVE  Wide(f) = width
<1>1. f.w = (width = 64) /\ f.prefix = PrefixByte(emit_width_prefix(width))
    BY DEF Opened
<1>2. CASE width = 64
    BY <1>1, <1>2 DEF Wide
<1>3. CASE width = 16
    <2>1. emit_width_prefix(width) = <<102>>
        BY <1>3 DEF emit_width_prefix
    <2>2. <<102>> # <<>> /\ <<102>>[1] = 102
        OBVIOUS
    <2>3. f.prefix = 102
        BY <1>1, <2>1, <2>2 DEF PrefixByte
    <2>4. (width = 64) = FALSE
        BY <1>3
    <2>5. ~f.w
        BY <1>1, <2>4, Zenon
    <2>6. QED
        BY <1>3, <2>3, <2>5 DEF Wide
<1>4. CASE width = 32
    <2>1. emit_width_prefix(width) = <<>>
        BY <1>4 DEF emit_width_prefix
    <2>2. f.prefix = 0
        BY <1>1, <2>1 DEF PrefixByte
    <2>3. (width = 64) = FALSE
        BY <1>4
    <2>4. ~f.w
        BY <1>1, <2>3, Zenon
    <2>5. QED
        BY <1>4, <2>2, <2>4 DEF Wide
<1>5. QED
    BY <1>2, <1>3, <1>4

\* An opcode whose low bit says that the operands are wider than a byte.
LEMMA ParityFact ==
    ASSUME NEW n \in Int, n % 2 = 0, NEW width \in {8, 16, 32, 64}, NEW f,
           f.opcode = ByWidth(n + 1, width), width # 8 => Wide(f) = width
    PROVE  ByParity(f) = width
<1>1. CASE width = 8
    <2>1. f.opcode = n
        BY <1>1 DEF ByWidth
    <2>2. QED
        BY <1>1, <2>1 DEF ByParity
<1>2. CASE width # 8
    <2>1. f.opcode = n + 1 /\ (n + 1) % 2 = 1
        BY <1>2, SMT DEF ByWidth
    <2>2. QED
        BY <1>2, <2>1 DEF ByParity
<1>3. QED
    BY <1>1, <1>2

LEMMA WidthRange ==
    ASSUME NEW r
    PROVE  /\ reg_width_bits(r) # 0 => r \in 0 .. 79
           /\ reg_width_bits(r) \in {0, 8, 16, 32, 64, 128}
           /\ reg_width_bits(r) = 128 <=> reg_is_xmm(r)
           /\ reg_width_bits(r) \in {8, 16, 32, 64} <=> reg_is_gpr(r)
<1>1. CASE r \in 0 .. 79
    <2>1. r \div 16 \in 0 .. 4 /\ (r \div 16 = 4 <=> r \in 64 .. 79)
        BY <1>1, SMT
    <2>2. reg_width_bits(r) = <<64, 32, 16, 8, 128>>[r \div 16 + 1]
        BY <1>1 DEF reg_width_bits
    <2> DEFINE q == r \div 16
    <2>3. q \in {0, 1, 2, 3, 4}
        BY <2>1
    <2>4. reg_width_bits(r) = IF q = 0 THEN 64 ELSE IF q = 1 THEN 32 ELSE IF q = 2 THEN 16
                              ELSE IF q = 3 THEN 8 ELSE 128
        <3> HIDE DEF q
        <3>1. reg_width_bits(r) = <<64, 32, 16, 8, 128>>[q + 1]
            BY <2>2 DEF q
        <3>2. QED
            BY <2>3, <3>1
    <2>5. reg_is_xmm(r) <=> q = 4
        BY <2>1 DEF reg_is_xmm
    <2>6. reg_is_gpr(r) <=> q # 4
        BY <1>1, <2>1 DEF reg_is_gpr
    <2> HIDE DEF q
    <2>7. QED
        BY <1>1, <2>3, <2>4, <2>5, <2>6
<1>2. CASE r \notin 0 .. 79
    <2>1. reg_width_bits(r) = 0
        BY <1>2 DEF reg_width_bits
    <2>2. ~reg_is_xmm(r) /\ ~reg_is_gpr(r)
        BY <1>2 DEF reg_is_xmm, reg_is_gpr
    <2>3. QED
        BY <2>1, <2>2
<1>3. QED
    BY <1>1, <1>2

-----------------------------------------------------------------------------
(* What the source says, operand by operand *)

LEMMA CanonicalFact == ASSUME NEW o, o # "JZ", o # "JNZ" PROVE Canonical(o) = o
    BY Zenon DEF Canonical

LEMMA RegisterDenotes ==
    ASSUME NEW o, NEW ops, NEW t, NEW k, ops[k].kind = "REG", o \notin Shift \/ k # 2
    PROVE  Denotes(o, ops, t, k) = RegisterValue(Width(ops[k]), ops[k].reg)
<1> DEFINE op == ops[k]
           v == IF reg_is_xmm(op.reg) THEN <<"xmm", reg_index(op.reg)>>
                ELSE <<"reg", Width(op), reg_index(op.reg)>>
<1>1. ~(o \in DOMAIN ShiftExt /\ k = 2)
    BY DomainFacts
<1>2. Denotes(o, ops, t, k) = v
    BY <1>1, Zenon DEF Denotes
<1>3. v = RegisterValue(Width(op), op.reg)
    BY WidthRange DEF RegisterValue, Width
<1>4. QED
    BY <1>2, <1>3

LEMMA OthersDenote ==
    ASSUME NEW o, NEW ops, NEW t, NEW k
    PROVE  /\ ops[k].kind = "MEM" =>
                 Denotes(o, ops, t, k) = <<"mem", reg_index(ops[k].reg), ops[k].imm>>
           /\ ops[k].kind = "RIP" => Denotes(o, ops, t, k) = <<"rip", Low(Zero, 4)>>
           /\ ops[k].kind = "IMM" =>
                 Denotes(o, ops, t, k) = <<"imm", Low(ops[k].imm, ImmediateWidth(o, ops))>>
           /\ ops[k].kind = "LABEL" =>
                 Denotes(o, ops, t, k) = <<"imm", IF o = "MOV" THEN Zero ELSE t>>
    BY Zenon DEF Denotes

LEMMA CountDenotes ==
    ASSUME NEW o \in Shift, NEW ops, NEW t, ops[2].kind = "REG"
    PROVE  Denotes(o, ops, t, 2) = <<"reg", 8, 1>>
<1>1. o \in DOMAIN ShiftExt
    BY DomainFacts
<1>2. QED
    BY <1>1, Zenon DEF Denotes

LEMMA NoneDenoted == ASSUME NEW o, NEW t PROVE Denoted(o, <<>>, t) = <<>>
    BY DEF Denoted

LEMMA OneDenoted ==
    ASSUME NEW o, NEW ops \in Seq(Operand), NEW t, NEW a, Kinds(ops) = <<a>>
    PROVE  Denoted(o, ops, t) = <<Denotes(o, ops, t, 1)>>
<1>1. DOMAIN ops = {1}
    BY OneKind
<1>2. Denoted(o, ops, t) = [k \in {1} |-> Denotes(o, ops, t, k)]
    BY <1>1 DEF Denoted
<1>3. {1} = 1 .. 1
    OBVIOUS
<1>4. QED
    BY <1>2, <1>3

LEMMA TwoDenoted ==
    ASSUME NEW o, NEW ops \in Seq(Operand), NEW t, NEW a, NEW c, Kinds(ops) = <<a, c>>
    PROVE  Denoted(o, ops, t) = <<Denotes(o, ops, t, 1), Denotes(o, ops, t, 2)>>
<1>1. DOMAIN ops = {1, 2}
    BY TwoKinds
<1>2. Denoted(o, ops, t) = [k \in {1, 2} |-> Denotes(o, ops, t, k)]
    BY <1>1 DEF Denoted
<1>3. {1, 2} = 1 .. 2
    OBVIOUS
<1>4. QED
    BY <1>2, <1>3

LEMMA ThreeDenoted ==
    ASSUME NEW o, NEW ops \in Seq(Operand), NEW t, NEW a, NEW c, NEW d,
           Kinds(ops) = <<a, c, d>>
    PROVE  Denoted(o, ops, t) =
               <<Denotes(o, ops, t, 1), Denotes(o, ops, t, 2), Denotes(o, ops, t, 3)>>
<1>1. DOMAIN ops = {1, 2, 3}
    BY ThreeKinds
<1>2. Denoted(o, ops, t) = [k \in {1, 2, 3} |-> Denotes(o, ops, t, k)]
    BY <1>1 DEF Denoted
<1>3. {1, 2, 3} = 1 .. 3
    OBVIOUS
<1>4. QED
    BY <1>2, <1>3

-----------------------------------------------------------------------------
(* The forms *)

Opcode(two, op) == IF two THEN <<15, op>> ELSE <<op>>
\* One opcode byte, or 0F and another; they have names for the provers' sake.
Single == FALSE
Double == TRUE

Escaped(two, op) == two \in BOOLEAN /\ op \in Int /\ (~two => Ordinary(op))

LEMMA OpcodeBytes ==
    ASSUME NEW two, NEW op, Escaped(two, op)
    PROVE  Opcode(two, op) \in Bytes
<1>1. CASE two
    BY <1>1, TwoBytes, 15 \in Int DEF Opcode, Escaped
<1>2. CASE ~two
    BY <1>2, OneByte DEF Opcode, Escaped
<1>3. QED
    BY <1>1, <1>2

\* A form that is not longer than fifteen bytes is emitted whole.
LEMMA EmittedRead ==
    ASSUME NEW pre \in Prefixes, NEW w \in BOOLEAN, NEW reg, NEW rm, NEW force \in BOOLEAN,
           NEW two, NEW op, Escaped(two, op), NEW t \in Bytes, Count(t) <= 11
    PROVE  LET b == from_buf(Opening(pre, w, reg, rm, force, Opcode(two, op)) \o t).bytes IN
           /\ Opened(Fields(b), pre, w, reg, rm, force, two, op)
           /\ Shaped(b, Fields(b), t)
<1> DEFINE opcode == Opcode(two, op)
           b == Opening(pre, w, reg, rm, force, opcode) \o t
<1>0. /\ op \in Int /\ two \in BOOLEAN /\ (~two => Ordinary(op))
      /\ opcode = IF two THEN <<15, op>> ELSE <<op>>
    BY DEF Escaped, Opcode
<1> HIDE DEF opcode
<1>1. /\ Opened(Fields(b), pre, w, reg, rm, force, two, op)
      /\ Shaped(b, Fields(b), t)
      /\ b \in Bytes /\ Count(b) >= 1 /\ Count(b) <= Count(t) + 4
    BY <1>0, OpeningFact
<1> HIDE DEF b
<1>2. Count(b) <= MAX_BYTES
    BY <1>1, CountFact DEF MAX_BYTES
<1>3. from_buf(b).bytes = b
    BY <1>1, <1>2, FromBufFact
<1>4. QED
    BY <1>1, <1>3 DEF b, opcode

\* What the decoder finds after Start.
Started(f, width, reg, rm, two, op) ==
    /\ f.two = two /\ f.opcode = op /\ Placed(f, reg, rm)
    /\ width # 8 => Wide(f) = width
    /\ width = 8 /\ (reg_requires_rex_byte(reg) \/ reg_requires_rex_byte(rm)) => f.rex # 0

LEMMA StartRead ==
    ASSUME NEW width \in {8, 16, 32, 64}, NEW reg, NEW rm, NEW two, NEW op, Escaped(two, op),
           NEW t \in Bytes, Count(t) <= 11
    PROVE  LET b == from_buf(Start(width, reg, rm, Opcode(two, op)) \o t).bytes IN
           /\ Started(Fields(b), width, reg, rm, two, op)
           /\ Shaped(b, Fields(b), t)
<1> DEFINE opcode == Opcode(two, op)
           pre == emit_width_prefix(width)
           w == (width = 64)
           force == width = 8 /\ (reg_requires_rex_byte(reg) \/ reg_requires_rex_byte(rm))
           b == from_buf(Start(width, reg, rm, opcode) \o t).bytes
           f == Fields(b)
<1>1. Start(width, reg, rm, opcode) = Opening(pre, w, reg, rm, force, opcode)
    BY DEF Start, Opening, emit_rex_for_width
<1>2. pre \in Prefixes /\ w \in BOOLEAN /\ force \in BOOLEAN
    BY DEF emit_width_prefix, Prefixes
<1> HIDE DEF pre, w, force
<1>3. Opened(f, pre, w, reg, rm, force, two, op) /\ Shaped(b, f, t)
    BY <1>1, <1>2, EmittedRead
<1> HIDE DEF b, f, opcode
<1>4. width # 8 => Wide(f) = width
    <2>1. SUFFICES ASSUME width # 8 PROVE Wide(f) = width
        OBVIOUS
    <2>2. width \in {16, 32, 64}
        BY <2>1
    <2>3. Opened(f, emit_width_prefix(width), width = 64, reg, rm, force, two, op)
        BY <1>3 DEF pre, w
    <2>4. QED
        BY <2>2, <2>3, WideFact
<1>5. Started(f, width, reg, rm, two, op)
    BY <1>3, <1>4 DEF Started, Opened, force
<1>6. QED
    BY <1>3, <1>5 DEF f, b, opcode

\* The operand of ModRM is found, and after it stands u, to the end.
HasRm(b, f, width, ext, operand, u) ==
    LET next == (Count(b) + 1) - Count(u)
    IN  /\ RmOperand(b, f, width) = Found(operand, next) /\ next \in Int
        /\ Extension(b, f) = ext
        /\ Stands(b, next, u) /\ Count(b) \in Nat

LEMMA ShapedFact ==
    ASSUME NEW b, NEW f, NEW s \in Bytes, NEW u \in Bytes, Shaped(b, f, s \o u), f.modrm \in Int
    PROVE  /\ Stands(b, f.modrm, s) /\ Stands(b, f.modrm + Count(s), u)
           /\ f.modrm + Count(s) = (Count(b) + 1) - Count(u) /\ Count(b) \in Nat
<1>1. /\ Stands(b, f.modrm, s \o u) /\ Count(b) + 1 = f.modrm + Count(s \o u)
      /\ Count(b) \in Nat
    BY CountFact DEF Shaped
<1>2. Count(s \o u) = Count(s) + Count(u) /\ Count(s) \in Nat /\ Count(u) \in Nat
    BY JoinFact, CountFact
<1>3. (Count(b) + 1) - Count(u) = f.modrm + Count(s)
    BY <1>1, <1>2
<1>4. QED
    BY <1>1, <1>3, StandsSplit

LEMMA RegisterRm ==
    ASSUME NEW b, NEW f, NEW width, NEW ext \in 0 .. 7, NEW reg, NEW rm \in 0 .. 79, NEW u \in Bytes,
           Placed(f, reg, rm), Known(f, width, rm),
           Shaped(b, f, RegRm(ext, rm) \o u)
    PROVE  HasRm(b, f, width, ext, RegisterValue(width, rm), u)
<1> DEFINE s == RegRm(ext, rm)
<1>0. f.modrm \in Int /\ f.b = 8 * Hi(rm)
    BY DEF Placed
<1>1. s \in Bytes /\ Count(s) = 1
    BY RegRmFact, ext \in Int
<1> HIDE DEF s
<1>2. /\ Stands(b, f.modrm, s) /\ Stands(b, f.modrm + Count(s), u)
      /\ f.modrm + Count(s) = (Count(b) + 1) - Count(u) /\ Count(b) \in Nat
    BY <1>0, <1>1, ShapedFact DEF s
<1>3. RmOperand(b, f, width) = Found(RegisterValue(width, rm), f.modrm + 1)
      /\ Extension(b, f) = ext
    BY <1>0, <1>2, RegisterFormRead DEF s
<1>4. f.modrm + 1 = (Count(b) + 1) - Count(u) /\ f.modrm + 1 \in Int
    BY <1>0, <1>1, <1>2
<1>5. QED
    BY <1>1, <1>2, <1>3, <1>4 DEF HasRm

LEMMA ShapedWhole ==
    ASSUME NEW b, NEW f, NEW s, Shaped(b, f, s)
    PROVE  /\ s \in Bytes /\ s \o <<>> = s /\ Shaped(b, f, s \o <<>>)
<1>1. s \in Bytes
    BY DEF Shaped
<1>2. s \o <<>> = s
    BY <1>1, ConcatEmptySeq DEF Bytes
<1>3. QED
    BY <1>1, <1>2

LEMMA AddressRm ==
    ASSUME NEW b, NEW f, NEW width, NEW ext \in 0 .. 7, NEW reg, NEW base \in 0 .. 79,
           NEW v \in Number, immediate_fits_i32(v),
           Placed(f, reg, base),
           Shaped(b, f, emit_mem_address(ext, base, v))
    PROVE  HasRm(b, f, width, ext, <<"mem", reg_index(base), v>>, <<>>)
<1> DEFINE s == emit_mem_address(ext, base, v)
<1> HIDE DEF s
<1>0. f.modrm \in Int /\ f.b = 8 * Hi(base)
    BY DEF Placed
<1>1. s \in Bytes /\ <<>> \in Bytes /\ Shaped(b, f, s \o <<>>) /\ Count(s) \in Nat
    BY ShapedWhole, NoBytes, CountFact DEF s
<1>2. /\ Stands(b, f.modrm, s) /\ Stands(b, f.modrm + Count(s), <<>>)
      /\ f.modrm + Count(s) = (Count(b) + 1) - Count(<<>>) /\ Count(b) \in Nat
    BY <1>0, <1>1, ShapedFact
<1>3. /\ RmOperand(b, f, width) = Found(<<"mem", reg_index(base), v>>, f.modrm + Count(s))
      /\ Extension(b, f) = ext
    BY <1>0, <1>2, AddressFormRead DEF s
<1>4. f.modrm + Count(s) \in Int
    BY <1>0, <1>1
<1>5. QED
    BY <1>2, <1>3, <1>4 DEF HasRm

LEMMA RipRm ==
    ASSUME NEW b, NEW f, NEW width, NEW ext \in 0 .. 7, NEW reg, NEW rm, Placed(f, reg, rm),
           Shaped(b, f, <<modrm_byte(0, ext, 5)>> \o Low(Zero, 4))
    PROVE  HasRm(b, f, width, ext, <<"rip", Low(Zero, 4)>>, <<>>)
<1> DEFINE m == <<modrm_byte(0, ext, 5)>>
           z == Low(Zero, 4)
           s == m \o z
<1>0. f.modrm \in Int
    BY DEF Placed
<1>1. m \in Bytes /\ Count(m) = 1 /\ z \in Bytes /\ Count(z) = 4
    <2>1. modrm_byte(0, ext, 5) \in Int
        BY ModrmRead, 0 \in 0 .. 3, 5 \in 0 .. 7
    <2>2. z \in Bytes /\ Count(z) = 4
        BY ZeroFact, LowFact
    <2>3. QED
        BY <2>1, <2>2, OneByte
<1> HIDE DEF m, z
<1>2. Count(s) = 5
    BY <1>1, JoinFact
<1>3. Shaped(b, f, s)
    BY DEF m, z
<1> HIDE DEF s
<1>4. s \in Bytes /\ <<>> \in Bytes /\ Shaped(b, f, s \o <<>>)
    BY <1>3, ShapedWhole, NoBytes
<1>5. /\ Stands(b, f.modrm, s) /\ Stands(b, f.modrm + Count(s), <<>>)
      /\ f.modrm + Count(s) = (Count(b) + 1) - Count(<<>>) /\ Count(b) \in Nat
    BY <1>0, <1>4, ShapedFact
<1>6. /\ RmOperand(b, f, width) = Found(<<"rip", Low(Zero, 4)>>, f.modrm + 5)
      /\ Extension(b, f) = ext
    BY <1>0, <1>5, RipFormRead DEF s, m, z
<1>7. f.modrm + 5 = (Count(b) + 1) - Count(<<>>) /\ f.modrm + 5 \in Int
    BY <1>0, <1>2, <1>5
<1>8. QED
    BY <1>2, <1>5, <1>6, <1>7 DEF HasRm

LEMMA FoundFact ==
    ASSUME NEW r, NEW v, NEW n, r = Found(v, n)
    PROVE  r.operand = v /\ r.next = n
    BY DEF Found

\* The operand of ModRM ends the instruction.
Last(b, f, width, v) ==
    RmOperand(b, f, width).operand = v /\ RmOperand(b, f, width).next = Count(b) + 1

LEMMA RmAlone ==
    ASSUME NEW b, NEW f, NEW width, NEW ext, NEW v, HasRm(b, f, width, ext, v, <<>>)
    PROVE  Last(b, f, width, v)
<1>1. (Count(b) + 1) - Count(<<>>) = Count(b) + 1
    BY NoBytes DEF HasRm
<1>2. RmOperand(b, f, width) = Found(v, Count(b) + 1)
    BY <1>1 DEF HasRm
<1>3. QED
    BY <1>2, FoundFact DEF Last

\* A register in the middle field of ModRM, and v in the outer ones.
RegAndRm(b, f, width, other, reg, v) ==
    \A name :
        /\ RmReg(b, f, name, width, other) =
              Is(name, <<v, RegisterValue(other, reg)>>, Count(b) + 1)
        /\ ToReg(b, f, name, other, width) =
              Is(name, <<RegisterValue(other, reg), v>>, Count(b) + 1)

LEMMA RmWithRegister ==
    ASSUME NEW b, NEW f, NEW width, NEW other, NEW v, NEW reg \in 0 .. 79, NEW rm,
           HasRm(b, f, width, reg_field(reg), v, <<>>), Placed(f, reg, rm), Known(f, other, reg)
    PROVE  RegAndRm(b, f, width, other, reg, v)
<1>1. Last(b, f, width, v)
    BY RmAlone
<1>2. RmOperand(b, f, width).operand = v /\ RmOperand(b, f, width).next = Count(b) + 1
    BY <1>1 DEF Last
<1>3. RegOperand(b, f, other) = RegisterValue(other, reg)
    BY MiddleRead DEF HasRm, Placed
<1>4. QED
    BY <1>2, <1>3, Zenon DEF RmReg, ToReg, RegAndRm

LEMMA RmWithImmediate ==
    ASSUME NEW b, NEW f, NEW width, NEW ext, NEW v, NEW x \in Number, NEW name,
           NEW to \in 1 .. 8, NEW n \in 1 .. to, n = to \/ FitsSigned(x, n),
           HasRm(b, f, width, ext, v, Low(x, n))
    PROVE  LET rm == RmOperand(b, f, width) IN
           /\ rm.operand = v /\ rm.next + n = Count(b) + 1
           /\ ImmOperand(b, rm.next, n, to) = <<"imm", Low(x, to)>>
<1> DEFINE next == (Count(b) + 1) - Count(Low(x, n))
<1>1. Count(Low(x, n)) = n
    <2>1. n \in 1 .. 8
        OBVIOUS
    <2>2. QED
        BY <2>1, LowFact
<1>2. /\ RmOperand(b, f, width) = Found(v, next) /\ next \in Int
      /\ Stands(b, next, Low(x, n)) /\ Count(b) \in Nat
    BY DEF HasRm
<1>3. next + n = Count(b) + 1
    BY <1>1, <1>2
<1> HIDE DEF next
<1>4. ImmOperand(b, next, n, to) = <<"imm", Low(x, to)>>
    BY <1>2, ImmediateRead
<1>5. RmOperand(b, f, width).operand = v /\ RmOperand(b, f, width).next = next
    BY <1>2, FoundFact
<1>6. QED
    BY <1>3, <1>4, <1>5

Imm(x, n) == <<"imm", Low(x, n)>>

\* n bytes are enough for x as an operand of this width.
Within(x, n, width) == n \in 1 .. 8 /\ n <= width \div 8 /\ (n = width \div 8 \/ FitsSigned(x, n))

\* After the operand v of ModRM stand n bytes, a number with the value of x.
NumberAfter(b, f, width, n, v, x) ==
    LET rm == RmOperand(b, f, width)
    IN  /\ rm.operand = v /\ rm.next + n = Count(b) + 1
        /\ ImmOperand(b, rm.next, n, width \div 8) = Imm(x, width \div 8)

LEMMA NumberAfterRm ==
    ASSUME NEW b, NEW f, NEW width, valid_integer_width(width), NEW ext, NEW v, NEW x \in Number,
           NEW n, Within(x, n, width), HasRm(b, f, width, ext, v, Low(x, n))
    PROVE  NumberAfter(b, f, width, n, v, x)
<1> DEFINE to == width \div 8
           rm == RmOperand(b, f, width)
<1>1. to \in 1 .. 8
    BY SMT DEF valid_integer_width
<1> HIDE DEF to
<1>2. n \in 1 .. to /\ (n = to \/ FitsSigned(x, n))
    BY <1>1 DEF to, Within
<1>3. /\ rm.operand = v /\ rm.next + n = Count(b) + 1
      /\ ImmOperand(b, rm.next, n, to) = Imm(x, to)
    BY <1>1, <1>2, RmWithImmediate DEF Imm
<1> HIDE DEF rm
<1>4. QED
    BY <1>3, Zenon DEF to, rm, NumberAfter

LEMMA RmShiftRead ==
    ASSUME NEW b, NEW f, NEW width, NEW ext, NEW v, NEW x \in Number, NEW name,
           HasRm(b, f, width, ext, v, Low(x, 1))
    PROVE  RmShift(b, f, name, width) = Is(name, <<v, <<"imm", Low(x, 1)>>>>, Count(b) + 1)
<1> DEFINE rm == RmOperand(b, f, width)
<1>1. 1 \in 1 .. 8 /\ 1 \in 1 .. 1
    OBVIOUS
<1>2. /\ rm.operand = v /\ rm.next + 1 = Count(b) + 1
      /\ ImmOperand(b, rm.next, 1, 1) = <<"imm", Low(x, 1)>>
    BY <1>1, RmWithImmediate
<1> HIDE DEF rm
<1>3. QED
    BY <1>2, Zenon DEF RmShift, rm

\* A number where ModRM would stand.
LEMMA NumberRead ==
    ASSUME NEW b, NEW f, NEW x \in Number, NEW to \in 1 .. 8, NEW n \in 1 .. to,
           n = to \/ FitsSigned(x, n), f.modrm \in Int, Shaped(b, f, Low(x, n))
    PROVE  /\ ImmOperand(b, f.modrm, n, to) = <<"imm", Low(x, to)>>
           /\ f.modrm + n = Count(b) + 1
<1>1. Count(Low(x, n)) = n
    <2>1. n \in 1 .. 8
        OBVIOUS
    <2>2. QED
        BY <2>1, LowFact
<1>2. Stands(b, f.modrm, Low(x, n)) /\ Count(b) + 1 = f.modrm + n
    BY <1>1 DEF Shaped
<1>3. QED
    BY <1>2, ImmediateRead

LEMMA ImmOnlyRead ==
    ASSUME NEW b, NEW f, NEW x \in Number, NEW to \in 1 .. 8, NEW n \in 1 .. to, NEW name,
           n = to \/ FitsSigned(x, n), f.modrm \in Int, Shaped(b, f, Low(x, n))
    PROVE  ImmOnly(b, f, name, n, to) = Is(name, <<<<"imm", Low(x, to)>>>>, Count(b) + 1)
    BY NumberRead, Zenon DEF ImmOnly

\* A register in the opcode.
InOpcode(f, n, r) ==
    /\ n \in {80, 88, 176, 184} /\ r \in 0 .. 79
    /\ f.opcode = n + reg_field(r) /\ f.b = 8 * Hi(r)

LEMMA LowRead ==
    ASSUME NEW f, NEW width, NEW r, NEW n, InOpcode(f, n, r), Known(f, width, r)
    PROVE  /\ RegisterOperand(f, width, (f.opcode % 8) + f.b) = RegisterValue(width, r)
           /\ f.opcode \in n .. n + 7
<1> DEFINE k == reg_field(r)
<1>1. r \in 0 .. 79 /\ n \in {80, 88, 176, 184} /\ f.opcode = n + k /\ f.b = 8 * Hi(r)
    BY DEF InOpcode
<1>2. k \in 0 .. 7 /\ k + 8 * Hi(r) = reg_index(r)
    BY <1>1, IndexFact
<1> HIDE DEF k
<1>3. (n + k) % 8 = k
    BY <1>1, <1>2, SMT
<1>4. (f.opcode % 8) + f.b = reg_index(r) /\ f.opcode \in n .. n + 7
    <2>1. f.opcode % 8 = k /\ k + f.b = reg_index(r)
        BY <1>1, <1>2, <1>3
    <2>2. n \in Int
        BY <1>1
    <2>3. f.opcode \in n .. n + 7
        BY <1>1, <1>2, <2>2
    <2>4. QED
        BY <2>1, <2>3
<1>5. QED
    BY <1>1, <1>4, RegisterRead

LEMMA LowOnlyRead ==
    ASSUME NEW b, NEW f, NEW width, NEW r, NEW n, NEW name,
           InOpcode(f, n, r), Known(f, width, r), Shaped(b, f, <<>>), f.modrm \in Int
    PROVE  LowOnly(b, f, name, width) = Is(name, <<RegisterValue(width, r)>>, Count(b) + 1)
<1>1. f.modrm = Count(b) + 1
    BY NoBytes DEF Shaped
<1>2. RegisterOperand(f, width, (f.opcode % 8) + f.b) = RegisterValue(width, r)
    BY LowRead
<1>3. QED
    BY <1>1, <1>2, Zenon DEF LowOnly

-----------------------------------------------------------------------------
(* The arms of the decoder *)

LEMMA OneArms ==
    ASSUME NEW b, NEW d, NEW f, f = Fields(b), ~f.two
    PROVE  /\ f.opcode < 64 /\ f.opcode % 8 \in {0, 1}
                /\ d = RmReg(b, f, AluName[f.opcode \div 8 + 1], ByParity(f), ByParity(f))
              => Reads(b, d)
           /\ f.opcode < 64 /\ f.opcode % 8 \in {2, 3}
                /\ d = ToReg(b, f, AluName[f.opcode \div 8 + 1], ByParity(f), ByParity(f))
              => Reads(b, d)
           /\ f.opcode \in 80 .. 87 /\ d = LowOnly(b, f, "PUSH", 64) => Reads(b, d)
           /\ f.opcode \in 88 .. 95 /\ d = LowOnly(b, f, "POP", 64) => Reads(b, d)
           /\ f.opcode = 99 /\ d = ToReg(b, f, "MOVSX", Wide(f), 32) => Reads(b, d)
           /\ f.opcode = 105 /\ d = RegRmImm(b, f, "IMUL", Wide(f), LongImm(Wide(f))) => Reads(b, d)
           /\ f.opcode = 107 /\ d = RegRmImm(b, f, "IMUL", Wide(f), 1) => Reads(b, d)
           /\ f.opcode \in {128, 129}
                /\ d = RmImm(b, f, AluName[Extension(b, f) + 1], ByParity(f), LongImm(ByParity(f)))
              => Reads(b, d)
           /\ f.opcode = 131 /\ d = RmImm(b, f, AluName[Extension(b, f) + 1], Wide(f), 1)
              => Reads(b, d)
           /\ f.opcode \in {132, 133} /\ d = RmReg(b, f, "TEST", ByParity(f), ByParity(f))
              => Reads(b, d)
           /\ f.opcode \in {136, 137} /\ d = RmReg(b, f, "MOV", ByParity(f), ByParity(f))
              => Reads(b, d)
           /\ f.opcode \in {138, 139} /\ d = ToReg(b, f, "MOV", ByParity(f), ByParity(f))
              => Reads(b, d)
           /\ f.opcode = 141 /\ d = ToReg(b, f, "LEA", Wide(f), Wide(f)) => Reads(b, d)
           /\ f.opcode = 144 /\ d = Is("NOP", <<>>, f.modrm) => Reads(b, d)
           /\ f.opcode = 153 /\ f.w /\ d = Is("CQO", <<>>, f.modrm) => Reads(b, d)
           /\ f.opcode \in 176 .. 183 /\ d = LowImm(b, f, "MOV", 8) => Reads(b, d)
           /\ f.opcode \in 184 .. 191 /\ d = LowImm(b, f, "MOV", Wide(f)) => Reads(b, d)
<1> USE DEF Reads
<1>1. ReadsOne(b, f, d) => Reads(b, d)
    OBVIOUS
<1> HIDE DEF Reads
<1>2. QED
    BY <1>1 DEF ReadsOne

LEMMA MoreOneArms ==
    ASSUME NEW b, NEW d, NEW f, f = Fields(b), ~f.two
    PROVE  /\ f.opcode \in {192, 193}
                /\ d = RmShift(b, f, ShiftName[Extension(b, f) + 1], ByParity(f)) => Reads(b, d)
           /\ f.opcode = 195 /\ d = Is("RET", <<>>, f.modrm) => Reads(b, d)
           /\ f.opcode = 199 /\ d = RmImm(b, f, "MOV", Wide(f), LongImm(Wide(f))) => Reads(b, d)
           /\ f.opcode = 205 /\ d = ImmOnly(b, f, "INT", 1, 1) => Reads(b, d)
           /\ f.opcode \in {208, 209}
                /\ d = RmCount(b, f, ShiftName[Extension(b, f) + 1], ByParity(f), <<"imm", <<1>>>>)
              => Reads(b, d)
           /\ f.opcode \in {210, 211}
                /\ d = RmCount(b, f, ShiftName[Extension(b, f) + 1], ByParity(f), <<"reg", 8, 1>>)
              => Reads(b, d)
           /\ f.opcode = 232 /\ d = ImmOnly(b, f, "CALL", 4, 8) => Reads(b, d)
           /\ f.opcode = 233 /\ d = ImmOnly(b, f, "JMP", 4, 8) => Reads(b, d)
           /\ f.opcode = 244 /\ d = Is("HLT", <<>>, f.modrm) => Reads(b, d)
           /\ f.opcode \in {246, 247} /\ Extension(b, f) \in {0, 1}
                /\ d = RmImm(b, f, "TEST", ByParity(f), LongImm(ByParity(f))) => Reads(b, d)
           /\ f.opcode \in {246, 247} /\ Extension(b, f) > 1
                /\ d = RmOnly(b, f, Group3Name[Extension(b, f) + 1], ByParity(f)) => Reads(b, d)
           /\ f.opcode \in {254, 255} /\ Extension(b, f) \in {0, 1}
                /\ d = RmOnly(b, f, Group5Name[Extension(b, f) + 1], ByParity(f)) => Reads(b, d)
           /\ f.opcode = 255 /\ Extension(b, f) > 1
                /\ d = RmOnly(b, f, Group5Name[Extension(b, f) + 1], 64) => Reads(b, d)
<1> USE DEF Reads
<1>1. ReadsOne(b, f, d) => Reads(b, d)
    OBVIOUS
<1> HIDE DEF Reads
<1>2. QED
    BY <1>1 DEF ReadsOne

Full(f) == IF f.w THEN 64 ELSE 32

LEMMA TwoArms ==
    ASSUME NEW b, NEW d, NEW f, f = Fields(b), f.two
    PROVE  /\ f.opcode = 5 /\ d = Is("SYSCALL", <<>>, f.modrm) => Reads(b, d)
           /\ f.opcode = 49 /\ d = Is("RDTSC", <<>>, f.modrm) => Reads(b, d)
           /\ f.opcode = 42 /\ f.prefix = 242 /\ d = ToReg(b, f, "CVTSI2SD", 128, Full(f))
              => Reads(b, d)
           /\ f.opcode = 44 /\ f.prefix = 242 /\ d = ToReg(b, f, "CVTTSD2SI", Full(f), 128)
              => Reads(b, d)
           /\ f.opcode = 46 /\ f.prefix = 102 /\ d = ToReg(b, f, "UCOMISD", 128, 128) => Reads(b, d)
           /\ f.opcode = 87 /\ f.prefix = 102 /\ d = ToReg(b, f, "XORPD", 128, 128) => Reads(b, d)
           /\ f.opcode = 88 /\ f.prefix = 242 /\ d = ToReg(b, f, "ADDSD", 128, 128) => Reads(b, d)
           /\ f.opcode = 89 /\ f.prefix = 242 /\ d = ToReg(b, f, "MULSD", 128, 128) => Reads(b, d)
           /\ f.opcode = 92 /\ f.prefix = 242 /\ d = ToReg(b, f, "SUBSD", 128, 128) => Reads(b, d)
           /\ f.opcode = 94 /\ f.prefix = 242 /\ d = ToReg(b, f, "DIVSD", 128, 128) => Reads(b, d)
           /\ f.opcode = 110 /\ f.prefix = 102 /\ d = ToReg(b, f, "MOV", 128, Full(f)) => Reads(b, d)
           /\ f.opcode = 126 /\ f.prefix = 243 /\ d = ToReg(b, f, "MOV", 128, 128) => Reads(b, d)
           /\ f.opcode = 126 /\ f.prefix = 102 /\ d = RmReg(b, f, "MOV", Full(f), 128) => Reads(b, d)
           /\ f.opcode = 214 /\ f.prefix = 102 /\ d = RmReg(b, f, "MOV", 128, 128) => Reads(b, d)
           /\ f.opcode \in 128 .. 143 /\ d = ImmOnly(b, f, JccName[f.opcode - 127], 4, 8)
              => Reads(b, d)
           /\ f.opcode \in 144 .. 159 /\ d = RmOnly(b, f, SetccName[f.opcode - 143], 8)
              => Reads(b, d)
           /\ f.opcode = 175 /\ d = ToReg(b, f, "IMUL", Wide(f), Wide(f)) => Reads(b, d)
           /\ f.opcode = 182 /\ d = ToReg(b, f, "MOVZX", Wide(f), 8) => Reads(b, d)
           /\ f.opcode = 183 /\ d = ToReg(b, f, "MOVZX", Wide(f), 16) => Reads(b, d)
           /\ f.opcode = 190 /\ d = ToReg(b, f, "MOVSX", Wide(f), 8) => Reads(b, d)
           /\ f.opcode = 191 /\ d = ToReg(b, f, "MOVSX", Wide(f), 16) => Reads(b, d)
<1> USE DEF Reads
<1>1. ReadsTwo(b, f, d) => Reads(b, d)
    OBVIOUS
<1> HIDE DEF Reads
<1>2. QED
    BY <1>1 DEF ReadsTwo, Full

-----------------------------------------------------------------------------
(* What follows the opcode *)

LEMMA ForcedByte ==
    ASSUME NEW f, NEW width, NEW reg, NEW rm, NEW two, NEW op,
           Started(f, width, reg, rm, two, op), NEW r \in {reg, rm}, reg_width_bits(r) = width
    PROVE  Known(f, width, r)
<1>1. SUFFICES ASSUME NewByte(width, r) PROVE f.rex # 0
    BY DEF Known
<1>2. width = 8 /\ reg_requires_rex_byte(r)
    BY <1>1 DEF NewByte, reg_requires_rex_byte
<1>3. reg_requires_rex_byte(reg) \/ reg_requires_rex_byte(rm)
    BY <1>2
<1>4. QED
    BY <1>2, <1>3 DEF Started

LEMMA Regroup ==
    ASSUME NEW a \in Bytes, NEW b \in Bytes, NEW c \in Bytes
    PROVE  (a \o b) \o c = a \o (b \o c)
    BY ConcatAssociative DEF Bytes

\* r is an integer register of this width.
HasWidth(r, width) == width \in {8, 16, 32, 64} /\ reg_width_bits(r) = width

\* ModRM with a register, and what comes after it.
LEMMA RegisterTail ==
    ASSUME NEW width, NEW reg, NEW r, HasWidth(r, width),
           NEW two, NEW op, NEW ext \in 0 .. 7, NEW u \in Bytes, NEW b, NEW f,
           Started(f, width, reg, r, two, op), Shaped(b, f, RegRm(ext, r) \o u)
    PROVE  HasRm(b, f, width, ext, RegisterValue(width, r), u)
<1>1. Known(f, width, r) /\ Placed(f, reg, r)
    BY ForcedByte DEF Started, HasWidth
<1>2. r \in 0 .. 79
    BY WidthRange DEF HasWidth
<1>3. QED
    BY <1>1, <1>2, RegisterRm, Zenon

LEMMA RegisterAlone ==
    ASSUME NEW width, NEW reg, NEW r, HasWidth(r, width),
           NEW two, NEW op, NEW ext \in 0 .. 7, NEW b, NEW f,
           Started(f, width, reg, r, two, op), Shaped(b, f, RegRm(ext, r))
    PROVE  HasRm(b, f, width, ext, RegisterValue(width, r), <<>>)
<1>1. Shaped(b, f, RegRm(ext, r) \o <<>>) /\ <<>> \in Bytes
    BY ShapedWhole, NoBytes
<1>2. QED
    BY <1>1, RegisterTail, Zenon

\* ModRM with two registers.
LEMMA PairTail ==
    ASSUME NEW width, NEW reg, HasWidth(reg, width), NEW rm, HasWidth(rm, width),
           NEW two, NEW op, NEW b, NEW f,
           Started(f, width, reg, rm, two, op), Shaped(b, f, RegRm(reg_field(reg), rm))
    PROVE  RegAndRm(b, f, width, width, reg, RegisterValue(width, rm))
<1>1. Known(f, width, reg) /\ Placed(f, reg, rm)
    BY ForcedByte DEF Started, HasWidth
<1>2. reg \in 0 .. 79 /\ reg_field(reg) \in 0 .. 7
    BY WidthRange, FieldFact DEF HasWidth
<1>3. HasRm(b, f, width, reg_field(reg), RegisterValue(width, rm), <<>>)
    <2> DEFINE ext == reg_field(reg)
    <2>1. ext \in 0 .. 7 /\ Shaped(b, f, RegRm(ext, rm))
        BY <1>2
    <2> HIDE DEF ext
    <2>2. HasRm(b, f, width, ext, RegisterValue(width, rm), <<>>)
        BY <2>1, RegisterAlone, Zenon
    <2>3. QED
        BY <2>2 DEF ext
<1>4. QED
    BY <1>1, <1>2, <1>3, RmWithRegister

\* ModRM with an address, and with a register and an address.
LEMMA AddressAlone ==
    ASSUME NEW width, NEW reg, NEW base, HasWidth(base, 64),
           NEW x \in Number, immediate_fits_i32(x), NEW ext \in 0 .. 7,
           NEW two, NEW op, NEW b, NEW f,
           Started(f, width, reg, base, two, op), Shaped(b, f, emit_mem_address(ext, base, x))
    PROVE  HasRm(b, f, width, ext, <<"mem", reg_index(base), x>>, <<>>)
<1>1. Placed(f, reg, base)
    BY DEF Started
<1>2. base \in 0 .. 79
    BY WidthRange DEF HasWidth
<1>3. QED
    BY <1>1, <1>2, AddressRm, Zenon

LEMMA AddressTail ==
    ASSUME NEW width, NEW reg, HasWidth(reg, width),
           NEW base, HasWidth(base, 64), NEW x \in Number, immediate_fits_i32(x),
           NEW two, NEW op, NEW b, NEW f,
           Started(f, width, reg, base, two, op),
           Shaped(b, f, emit_mem_address(reg_field(reg), base, x))
    PROVE  RegAndRm(b, f, width, width, reg, <<"mem", reg_index(base), x>>)
<1> DEFINE v == <<"mem", reg_index(base), x>>
<1>1. Known(f, width, reg) /\ Placed(f, reg, base)
    BY ForcedByte DEF Started, HasWidth
<1>2. reg \in 0 .. 79 /\ reg_field(reg) \in 0 .. 7
    BY WidthRange, FieldFact DEF HasWidth
<1>3. HasRm(b, f, width, reg_field(reg), v, <<>>)
    BY <1>2, AddressAlone, Zenon
<1> HIDE DEF v
<1>4. RegAndRm(b, f, width, width, reg, v)
    BY <1>1, <1>2, <1>3, RmWithRegister
<1>5. QED
    BY <1>4 DEF v

\* ModRM with a register and [rip+label].
LEMMA RipTail ==
    ASSUME NEW width, NEW reg, HasWidth(reg, width), NEW rm, NEW two, NEW op, NEW b, NEW f,
           Started(f, width, reg, rm, two, op),
           Shaped(b, f, <<modrm_byte(0, reg_field(reg), 5)>> \o Low(Zero, 4))
    PROVE  RegAndRm(b, f, width, width, reg, <<"rip", Low(Zero, 4)>>)
<1> DEFINE v == <<"rip", Low(Zero, 4)>>
<1>1. Known(f, width, reg) /\ Placed(f, reg, rm)
    BY ForcedByte DEF Started, HasWidth
<1>2. reg \in 0 .. 79 /\ reg_field(reg) \in 0 .. 7
    BY WidthRange, FieldFact DEF HasWidth
<1>3. HasRm(b, f, width, reg_field(reg), v, <<>>)
    BY <1>1, <1>2, RipRm, Zenon
<1> HIDE DEF v
<1>4. RegAndRm(b, f, width, width, reg, v)
    BY <1>1, <1>2, <1>3, RmWithRegister
<1>5. QED
    BY <1>4 DEF v

-----------------------------------------------------------------------------
(* What the emit helpers build *)

\* The last part of each form, with the bytes before it in one piece.
LEMMA RegisterCode ==
    ASSUME NEW width \in {8, 16, 32, 64}, NEW reg, NEW r, NEW two, NEW op, Escaped(two, op),
           NEW ext \in 0 .. 7
    PROVE  LET b == from_buf(Start(width, reg, r, Opcode(two, op)) \o RegRm(ext, r)).bytes IN
           Started(Fields(b), width, reg, r, two, op) /\ Shaped(b, Fields(b), RegRm(ext, r))
<1>1. RegRm(ext, r) \in Bytes /\ Count(RegRm(ext, r)) <= 11
    BY RegRmFact, ext \in Int
<1>2. QED
    BY <1>1, StartRead

NumberBytes(width, reg, r, op, ext, x, n) ==
    from_buf(Start(width, reg, r, <<op>>) \o RegRm(ext, r) \o Low(x, n)).bytes

LEMMA NumberCode ==
    ASSUME NEW width \in {8, 16, 32, 64}, NEW reg, NEW r, NEW op, Escaped(Single, op),
           NEW ext \in 0 .. 7, NEW x \in Number, NEW n \in 1 .. 8
    PROVE  LET b == NumberBytes(width, reg, r, op, ext, x, n) IN
           /\ Started(Fields(b), width, reg, r, Single, op)
           /\ Shaped(b, Fields(b), RegRm(ext, r) \o Low(x, n))
<1> DEFINE a == Start(width, reg, r, Opcode(Single, op))
           s == RegRm(ext, r)
           u == Low(x, n)
<1>1. s \in Bytes /\ Count(s) = 1 /\ u \in Bytes /\ Count(u) = n
    BY RegRmFact, LowFact, ext \in Int
<1>2. a \in Bytes
    BY OpcodeBytes, StartFact
<1> HIDE DEF a, s, u
<1>3. (a \o s) \o u = a \o (s \o u) /\ s \o u \in Bytes /\ Count(s \o u) <= 11
    <2>1. (a \o s) \o u = a \o (s \o u)
        BY <1>1, <1>2, Regroup
    <2>2. s \o u \in Bytes /\ Count(s \o u) = 1 + n
        BY <1>1, JoinFact
    <2>3. QED
        BY <2>1, <2>2
<1> DEFINE t == s \o u
           b == from_buf(a \o t).bytes
<1> HIDE DEF t
<1>4. Started(Fields(b), width, reg, r, Single, op) /\ Shaped(b, Fields(b), t)
    BY <1>3, StartRead DEF a, t
<1>5. QED
    BY <1>3, <1>4 DEF a, s, u, t, NumberBytes, Opcode, Single

LEMMA AddressCode ==
    ASSUME NEW width \in {8, 16, 32, 64}, NEW reg, NEW base, NEW two, NEW op, Escaped(two, op),
           NEW ext \in 0 .. 7, NEW x \in Number
    PROVE  LET b == from_buf(Start(width, reg, base, Opcode(two, op))
                                \o emit_mem_address(ext, base, x)).bytes IN
           /\ Started(Fields(b), width, reg, base, two, op)
           /\ Shaped(b, Fields(b), emit_mem_address(ext, base, x))
<1>1. emit_mem_address(ext, base, x) \in Bytes /\ Count(emit_mem_address(ext, base, x)) <= 11
    BY AddressFact, ext \in Int
<1>2. QED
    BY <1>1, StartRead

LEMMA RipCode ==
    ASSUME NEW width \in {8, 16, 32, 64}, NEW reg, NEW op, Escaped(Single, op)
    PROVE  LET b == from_buf(emit_rip_relative_mem(op, reg, width)).bytes IN
           /\ Started(Fields(b), width, reg, REG_INVALID, Single, op)
           /\ Shaped(b, Fields(b), <<modrm_byte(0, reg_field(reg), 5)>> \o Low(Zero, 4))
<1> DEFINE a == Start(width, reg, REG_INVALID, <<op>>)
           m == <<modrm_byte(0, reg_field(reg), 5)>>
           z == Low(Zero, 4)
<1>1. m \in Bytes /\ Count(m) = 1 /\ z \in Bytes /\ Count(z) = 4
    <2>1. modrm_byte(0, reg_field(reg), 5) \in Int
        <3>1. reg_field(reg) \in Int
            BY FieldFact
        <3>2. QED
            BY <3>1, ModrmFact, 0 \in Int, 5 \in Int
    <2>2. z \in Bytes /\ Count(z) = 4
        BY ZeroFact, LowFact
    <2>3. QED
        BY <2>1, <2>2, OneByte
<1>2. Opcode(Single, op) = <<op>> /\ a \in Bytes
    BY OpcodeBytes, StartFact DEF Opcode, Single
<1>3. a = Start(width, reg, REG_INVALID, Opcode(Single, op))
    BY <1>2
<1>4. emit_rip_relative_mem(op, reg, width) = (a \o m) \o z
    BY DEF emit_rip_relative_mem
<1> HIDE DEF a, m, z
<1>5. (a \o m) \o z = a \o (m \o z) /\ m \o z \in Bytes /\ Count(m \o z) <= 11
    BY <1>1, <1>2, Regroup, JoinFact
<1> DEFINE t == m \o z
           b == from_buf(a \o t).bytes
<1> HIDE DEF t
<1>6. Started(Fields(b), width, reg, REG_INVALID, Single, op) /\ Shaped(b, Fields(b), t)
    BY <1>3, <1>5, StartRead DEF t
<1>7. QED
    BY <1>4, <1>5, <1>6 DEF m, z, t

-----------------------------------------------------------------------------
(* The forms whose opcode has its width in the low bit *)

\* The decoder reads the operation with these operands, and nothing after it.
Tells(b, name, list) == Reads(b, Is(name, list, Count(b) + 1))

\* The opcode is that of a pair for this width, and ModRM holds reg and v.
Both(b, n, width, reg, v) ==
    LET f == Fields(b)
    IN  /\ ~f.two /\ f.opcode = ByWidth(n, width) /\ ByParity(f) = width
        /\ RegAndRm(b, f, width, width, reg, v)

\* The odd opcode of a pair, each of which stands for itself.
Odd(n) == n \in Int /\ n % 2 = 1 /\ Ordinary(n) /\ Ordinary(n - 1)

LEMMA OddEscaped ==
    ASSUME NEW n, Odd(n), NEW width
    PROVE  Escaped(Single, ByWidth(n, width))
<1>1. n \in Int /\ ByWidth(n, width) \in {n - 1, n}
    BY DEF ByWidth, Odd
<1>2. ByWidth(n, width) \in Int /\ Ordinary(ByWidth(n, width))
    BY <1>1 DEF Odd
<1>3. QED
    BY <1>2 DEF Escaped, Single

LEMMA OddParity ==
    ASSUME NEW n, Odd(n), NEW width \in {8, 16, 32, 64}, NEW f, NEW reg, NEW rm,
           Started(f, width, reg, rm, Single, ByWidth(n, width))
    PROVE  ~f.two /\ f.opcode = ByWidth(n, width) /\ ByParity(f) = width
<1>1. ~f.two /\ f.opcode = ByWidth(n, width) /\ (width # 8 => Wide(f) = width)
    BY DEF Started, Single
<1>2. n - 1 \in Int /\ (n - 1) % 2 = 0 /\ (n - 1) + 1 = n
    BY SMT DEF Odd
<1>3. f.opcode = ByWidth((n - 1) + 1, width)
    BY <1>1, <1>2
<1>4. ByParity(f) = width
    BY <1>1, <1>2, <1>3, ParityFact
<1>5. QED
    BY <1>1, <1>4

LEMMA RegistersBoth ==
    ASSUME NEW width, NEW reg, HasWidth(reg, width), NEW rm, HasWidth(rm, width),
           NEW n, Odd(n)
    PROVE  Both(from_buf(emit_rr(ByWidth(n, width), rm, reg, width)).bytes, n, width, reg,
                RegisterValue(width, rm))
<1> DEFINE op == ByWidth(n, width)
           ext == reg_field(reg)
           b == from_buf(Start(width, reg, rm, Opcode(Single, op)) \o RegRm(ext, rm)).bytes
           f == Fields(b)
<1>1. ext \in 0 .. 7 /\ Escaped(Single, op) /\ width \in {8, 16, 32, 64}
    BY FieldFact, OddEscaped DEF HasWidth
<1>2. emit_rr(op, rm, reg, width) = Start(width, reg, rm, Opcode(Single, op)) \o RegRm(ext, rm)
    BY DEF emit_rr, Opcode, Single
<1> HIDE DEF op, ext
<1>3. Started(f, width, reg, rm, Single, op) /\ Shaped(b, f, RegRm(ext, rm))
    BY <1>1, RegisterCode
<1> HIDE DEF b, f
<1>4. ~f.two /\ f.opcode = op /\ ByParity(f) = width
    BY <1>1, <1>3, OddParity DEF op
<1>5. RegAndRm(b, f, width, width, reg, RegisterValue(width, rm))
    BY <1>3, PairTail DEF ext
<1>6. Both(b, n, width, reg, RegisterValue(width, rm))
    BY <1>4, <1>5 DEF Both, f, op
<1>7. QED
    BY <1>2, <1>6 DEF b, op

LEMMA AddressBoth ==
    ASSUME NEW width, NEW reg, HasWidth(reg, width), NEW base, HasWidth(base, 64),
           NEW x \in Number, immediate_fits_i32(x), NEW n, Odd(n)
    PROVE  Both(from_buf(emit_mem(ByWidth(n, width), reg, base, x, width)).bytes, n, width,
                reg, <<"mem", reg_index(base), x>>)
<1> DEFINE op == ByWidth(n, width)
           ext == reg_field(reg)
           b == from_buf(Start(width, reg, base, Opcode(Single, op))
                            \o emit_mem_address(ext, base, x)).bytes
           f == Fields(b)
           v == <<"mem", reg_index(base), x>>
<1>1. ext \in 0 .. 7 /\ Escaped(Single, op) /\ width \in {8, 16, 32, 64}
    BY FieldFact, OddEscaped DEF HasWidth
<1>2. emit_mem(op, reg, base, x, width) =
          Start(width, reg, base, Opcode(Single, op)) \o emit_mem_address(ext, base, x)
    BY DEF emit_mem, Opcode, Single
<1> HIDE DEF op, ext
<1>3. Started(f, width, reg, base, Single, op) /\ Shaped(b, f, emit_mem_address(ext, base, x))
    BY <1>1, AddressCode
<1> HIDE DEF b, f
<1>4. ~f.two /\ f.opcode = op /\ ByParity(f) = width
    BY <1>1, <1>3, OddParity DEF op
<1>5. RegAndRm(b, f, width, width, reg, v)
    BY <1>3, AddressTail, Zenon DEF ext
<1>6. Both(b, n, width, reg, v)
    BY <1>4, <1>5 DEF Both, f, op
<1>7. QED
    BY <1>2, <1>6 DEF b, op

LEMMA RipBoth ==
    ASSUME NEW width, NEW reg, HasWidth(reg, width), NEW n, Odd(n)
    PROVE  Both(from_buf(emit_rip_relative_mem(ByWidth(n, width), reg, width)).bytes, n,
                width, reg, <<"rip", Low(Zero, 4)>>)
<1> DEFINE op == ByWidth(n, width)
           b == from_buf(emit_rip_relative_mem(op, reg, width)).bytes
           f == Fields(b)
           v == <<"rip", Low(Zero, 4)>>
<1>1. Escaped(Single, op) /\ width \in {8, 16, 32, 64}
    BY OddEscaped DEF HasWidth
<1> HIDE DEF op
<1>3. /\ Started(f, width, reg, REG_INVALID, Single, op)
      /\ Shaped(b, f, <<modrm_byte(0, reg_field(reg), 5)>> \o Low(Zero, 4))
    BY <1>1, RipCode
<1> HIDE DEF b, f
<1>4. ~f.two /\ f.opcode = op /\ ByParity(f) = width
    BY <1>1, <1>3, OddParity DEF op
<1>5. RegAndRm(b, f, width, width, reg, v)
    BY <1>3, RipTail, Zenon
<1>6. Both(b, n, width, reg, v)
    BY <1>4, <1>5 DEF Both, f, op
<1>7. QED
    BY <1>6 DEF b, op

LEMMA MovTells ==
    ASSUME NEW b, NEW width, NEW reg, NEW v
    PROVE  /\ Both(b, 137, width, reg, v) => Tells(b, "MOV", <<v, RegisterValue(width, reg)>>)
           /\ Both(b, 139, width, reg, v) => Tells(b, "MOV", <<RegisterValue(width, reg), v>>)
<1> DEFINE f == Fields(b)
           d == Is("MOV", <<v, RegisterValue(width, reg)>>, Count(b) + 1)
           c == Is("MOV", <<RegisterValue(width, reg), v>>, Count(b) + 1)
<1>1. ASSUME Both(b, 137, width, reg, v) PROVE Reads(b, d)
    <2>1. ~f.two /\ f.opcode \in {136, 137}
        BY <1>1 DEF Both, ByWidth
    <2>2. d = RmReg(b, f, "MOV", ByParity(f), ByParity(f))
        BY <1>1, Zenon DEF Both, RegAndRm
    <2> HIDE DEF f, d
    <2>3. QED
        BY <2>1, <2>2, OneArms DEF f
<1>2. ASSUME Both(b, 139, width, reg, v) PROVE Reads(b, c)
    <2>1. ~f.two /\ f.opcode \in {138, 139}
        BY <1>2 DEF Both, ByWidth
    <2>2. c = ToReg(b, f, "MOV", ByParity(f), ByParity(f))
        BY <1>2, Zenon DEF Both, RegAndRm
    <2> HIDE DEF f, c
    <2>3. QED
        BY <2>1, <2>2, OneArms DEF f
<1>3. QED
    BY <1>1, <1>2 DEF Tells

LEMMA TestLeaTells ==
    ASSUME NEW b, NEW width, NEW reg, NEW v
    PROVE  /\ Both(b, 133, width, reg, v) => Tells(b, "TEST", <<v, RegisterValue(width, reg)>>)
           /\ width = 64 /\ Both(b, 141, width, reg, v)
              => Tells(b, "LEA", <<RegisterValue(width, reg), v>>)
<1> DEFINE f == Fields(b)
           d == Is("TEST", <<v, RegisterValue(width, reg)>>, Count(b) + 1)
           c == Is("LEA", <<RegisterValue(width, reg), v>>, Count(b) + 1)
<1>1. ASSUME Both(b, 133, width, reg, v) PROVE Reads(b, d)
    <2>1. ~f.two /\ f.opcode \in {132, 133}
        BY <1>1 DEF Both, ByWidth
    <2>2. d = RmReg(b, f, "TEST", ByParity(f), ByParity(f))
        BY <1>1, Zenon DEF Both, RegAndRm
    <2> HIDE DEF f, d
    <2>3. QED
        BY <2>1, <2>2, OneArms DEF f
<1>2. ASSUME width = 64, Both(b, 141, width, reg, v) PROVE Reads(b, c)
    <2>1. ~f.two /\ f.opcode = 141 /\ ByParity(f) = width
        BY <1>2 DEF Both, ByWidth
    <2>2. Wide(f) = width
        BY <2>1 DEF ByParity
    <2>3. c = ToReg(b, f, "LEA", Wide(f), Wide(f))
        BY <1>2, <2>2, Zenon DEF Both, RegAndRm
    <2> HIDE DEF f, c
    <2>4. QED
        BY <2>1, <2>3, OneArms DEF f
<1>3. QED
    BY <1>1, <1>2 DEF Tells

LEMMA AluTells ==
    ASSUME NEW b, NEW width, NEW reg, NEW v, NEW e \in 0 .. 7
    PROVE  /\ Both(b, 8 * e + 1, width, reg, v)
              => Tells(b, AluName[e + 1], <<v, RegisterValue(width, reg)>>)
           /\ Both(b, 8 * e + 3, width, reg, v)
              => Tells(b, AluName[e + 1], <<RegisterValue(width, reg), v>>)
<1> DEFINE f == Fields(b)
           name == AluName[e + 1]
           d == Is(name, <<v, RegisterValue(width, reg)>>, Count(b) + 1)
           c == Is(name, <<RegisterValue(width, reg), v>>, Count(b) + 1)
           op == f.opcode
<1>1. ASSUME Both(b, 8 * e + 1, width, reg, v) PROVE Reads(b, d)
    <2>1. ~f.two /\ op \in {8 * e, 8 * e + 1}
        BY <1>1 DEF Both, ByWidth
    <2> HIDE DEF op
    <2>2. op < 64 /\ op % 8 \in {0, 1} /\ op \div 8 = e
        BY <2>1, SMT
    <2>3. d = RmReg(b, f, AluName[op \div 8 + 1], ByParity(f), ByParity(f))
        BY <1>1, <2>2, Zenon DEF Both, RegAndRm
    <2> HIDE DEF f, d
    <2>4. QED
        BY <2>1, <2>2, <2>3, OneArms DEF f, op
<1>2. ASSUME Both(b, 8 * e + 3, width, reg, v) PROVE Reads(b, c)
    <2>1. ~f.two /\ op \in {8 * e + 2, 8 * e + 3}
        BY <1>2 DEF Both, ByWidth
    <2> HIDE DEF op
    <2>2. op < 64 /\ op % 8 \in {2, 3} /\ op \div 8 = e
        BY <2>1, SMT
    <2>3. c = ToReg(b, f, AluName[op \div 8 + 1], ByParity(f), ByParity(f))
        BY <1>2, <2>2, Zenon DEF Both, RegAndRm
    <2> HIDE DEF f, c
    <2>4. QED
        BY <2>1, <2>2, <2>3, OneArms DEF f, op
<1>3. QED
    BY <1>1, <1>2 DEF Tells

\* Every form of the pair n with these operands is o, to or from ModRM.
Stores(o, n, width) ==
    \A b, reg, v : Both(b, n, width, reg, v) => Tells(b, o, <<v, RegisterValue(width, reg)>>)
Loads(o, n, width) ==
    \A b, reg, v : Both(b, n, width, reg, v) => Tells(b, o, <<RegisterValue(width, reg), v>>)

-----------------------------------------------------------------------------
(* Forms with two operands, one of them a register *)

\* e is an error, or its bytes are the instruction.
Right(o, ops, t, b) == Tells(b, Canonical(o), Denoted(o, ops, t))
Says(o, ops, t, e) == ~e.error => Right(o, ops, t, e.bytes)

\* The displacement of a MEM operand is 32 bits wide.
Addressed(ops) == \A k \in DOMAIN ops : ops[k].kind = "MEM" => immediate_fits_i32(ops[k].imm)

LEMMA SaysError == ASSUME NEW o, NEW ops, NEW t PROVE Says(o, ops, t, make_error)
    BY DEF Says, make_error

LEMMA SaysIf ==
    ASSUME NEW o, NEW ops, NEW t, NEW ok, NEW code, ok => Right(o, ops, t, from_buf(code).bytes)
    PROVE  Says(o, ops, t, EncodeIf(ok, code))
<1>1. CASE ok
    BY <1>1 DEF Says, EncodeIf
<1>2. CASE ~ok
    BY <1>2, SaysError DEF EncodeIf
<1>3. QED
    BY <1>1, <1>2

\* An opcode that is its own name, and whose register operands are what they are.
Straight(o) == o \notin Shift /\ Canonical(o) = o

Register(op) == RegisterValue(Width(op), op.reg)

LabelValue(o, t) == <<"imm", IF o = "MOV" THEN Zero ELSE t>>

LEMMA RegRegDenoted ==
    ASSUME NEW o, NEW ops \in Seq(Operand), NEW t, Straight(o), Kinds(ops) = <<"REG", "REG">>
    PROVE  Denoted(o, ops, t) = <<Register(ops[1]), Register(ops[2])>>
<1>1. ops[1].kind = "REG" /\ ops[2].kind = "REG"
    BY TwoKinds
<1>2. Denotes(o, ops, t, 1) = Register(ops[1]) /\ Denotes(o, ops, t, 2) = Register(ops[2])
    BY <1>1, RegisterDenotes DEF Straight, Register
<1>3. QED
    BY <1>2, TwoDenoted

LEMMA RegOtherDenoted ==
    ASSUME NEW o, NEW ops \in Seq(Operand), NEW t, NEW other, Kinds(ops) = <<"REG", other>>
    PROVE  /\ other = "MEM" => Denoted(o, ops, t) =
                 <<Register(ops[1]), <<"mem", reg_index(ops[2].reg), ops[2].imm>>>>
           /\ other = "RIP" => Denoted(o, ops, t) = <<Register(ops[1]), <<"rip", Low(Zero, 4)>>>>
           /\ other = "IMM" => Denoted(o, ops, t) =
                 <<Register(ops[1]), <<"imm", Low(ops[2].imm, ImmediateWidth(o, ops))>>>>
           /\ other = "LABEL" => Denoted(o, ops, t) =
                 <<Register(ops[1]), LabelValue(o, t)>>
<1>1. ops[1].kind = "REG" /\ ops[2].kind = other
    BY TwoKinds
<1>2. Denotes(o, ops, t, 1) = Register(ops[1])
    BY <1>1, RegisterDenotes, 1 # 2 DEF Register
<1>3. Denoted(o, ops, t) = <<Register(ops[1]), Denotes(o, ops, t, 2)>>
    BY <1>2, TwoDenoted
<1> DEFINE k == 2
           d == Denotes(o, ops, t, k)
<1>4. /\ other = "MEM" => d = <<"mem", reg_index(ops[k].reg), ops[k].imm>>
      /\ other = "RIP" => d = <<"rip", Low(Zero, 4)>>
      /\ other = "IMM" => d = <<"imm", Low(ops[k].imm, ImmediateWidth(o, ops))>>
      /\ other = "LABEL" => d = LabelValue(o, t)
    <2> HIDE DEF k
    <2>1. ops[k].kind = other
        BY <1>1 DEF k
    <2>2. QED
        BY <2>1, OthersDenote DEF LabelValue
<1> HIDE DEF d
<1>5. QED
    BY <1>3, <1>4 DEF d

LEMMA OtherRegDenoted ==
    ASSUME NEW o, NEW ops \in Seq(Operand), NEW t, NEW other, Straight(o),
           Kinds(ops) = <<other, "REG">>
    PROVE  /\ other = "MEM" => Denoted(o, ops, t) =
                 <<<<"mem", reg_index(ops[1].reg), ops[1].imm>>, Register(ops[2])>>
           /\ other = "RIP" => Denoted(o, ops, t) = <<<<"rip", Low(Zero, 4)>>, Register(ops[2])>>
<1>1. ops[1].kind = other /\ ops[2].kind = "REG"
    BY TwoKinds
<1>2. Denotes(o, ops, t, 2) = Register(ops[2])
    BY <1>1, RegisterDenotes DEF Register, Straight
<1>3. Denoted(o, ops, t) = <<Denotes(o, ops, t, 1), Register(ops[2])>>
    BY <1>2, TwoDenoted
<1> DEFINE k == 1
           d == Denotes(o, ops, t, k)
<1>4. /\ other = "MEM" => d = <<"mem", reg_index(ops[k].reg), ops[k].imm>>
      /\ other = "RIP" => d = <<"rip", Low(Zero, 4)>>
      /\ other = "IMM" => d = <<"imm", Low(ops[k].imm, ImmediateWidth(o, ops))>>
      /\ other = "LABEL" => d = LabelValue(o, t)
    <2> HIDE DEF k
    <2>1. ops[k].kind = other
        BY <1>1 DEF k
    <2>2. QED
        BY <2>1, OthersDenote DEF LabelValue
<1> HIDE DEF d
<1>5. QED
    BY <1>3, <1>4 DEF d

\* Two registers of one width.
LEMMA RegRegRight ==
    ASSUME NEW o, NEW ops \in Seq(Operand), NEW t, Straight(o), Kinds(ops) = <<"REG", "REG">>,
           NEW width, HasWidth(ops[1].reg, width), HasWidth(ops[2].reg, width),
           NEW n, Odd(n), Stores(o, n, width)
    PROVE  Right(o, ops, t,
                 from_buf(emit_rr(ByWidth(n, width), ops[1].reg, ops[2].reg, width)).bytes)
<1> DEFINE rm == ops[1].reg
           reg == ops[2].reg
           b == from_buf(emit_rr(ByWidth(n, width), rm, reg, width)).bytes
<1>1. Denoted(o, ops, t) = <<RegisterValue(width, rm), RegisterValue(width, reg)>>
    BY RegRegDenoted DEF Register, Width, HasWidth
<1>2. HasWidth(reg, width) /\ HasWidth(rm, width)
    OBVIOUS
<1> HIDE DEF rm, reg
<1>3. Both(b, n, width, reg, RegisterValue(width, rm))
    BY <1>2, RegistersBoth
<1> HIDE DEF b
<1>4. Tells(b, o, <<RegisterValue(width, rm), RegisterValue(width, reg)>>)
    BY <1>3, Zenon DEF Stores
<1>5. QED
    BY <1>1, <1>4, Zenon DEF b, rm, reg, Right, Straight

LEMMA RegMemRight ==
    ASSUME NEW o, NEW ops \in Seq(Operand), NEW t, Straight(o), Kinds(ops) = <<"REG", "MEM">>,
           Addressed(ops), NEW width, HasWidth(ops[1].reg, width), HasWidth(ops[2].reg, 64),
           NEW n, Odd(n), Loads(o, n, width)
    PROVE  Right(o, ops, t, from_buf(emit_mem(ByWidth(n, width), ops[1].reg, ops[2].reg,
                                              ops[2].imm, width)).bytes)
<1> DEFINE reg == ops[1].reg
           base == ops[2].reg
           x == ops[2].imm
           v == <<"mem", reg_index(base), x>>
           b == from_buf(emit_mem(ByWidth(n, width), reg, base, x, width)).bytes
<1>1. Denoted(o, ops, t) = <<RegisterValue(width, reg), v>>
    <2>1. Register(ops[1]) = RegisterValue(width, reg)
        BY DEF Register, Width, HasWidth
    <2>2. Denoted(o, ops, t) = <<Register(ops[1]), v>>
        BY RegOtherDenoted, Zenon
    <2>3. QED
        BY <2>1, <2>2
<1>2. HasWidth(reg, width) /\ HasWidth(base, 64)
    OBVIOUS
<1>3. x \in Number /\ immediate_fits_i32(x)
    BY TwoKinds, OperandFact DEF Addressed
<1> HIDE DEF reg, base, x
<1>4. Both(b, n, width, reg, v)
    BY <1>2, <1>3, AddressBoth, Zenon
<1> HIDE DEF b, v
<1>5. Tells(b, o, <<RegisterValue(width, reg), v>>)
    BY <1>4, Zenon DEF Loads
<1>6. QED
    BY <1>1, <1>5, Zenon DEF b, reg, base, x, Right, Straight

LEMMA MemRegRight ==
    ASSUME NEW o, NEW ops \in Seq(Operand), NEW t, Straight(o), Kinds(ops) = <<"MEM", "REG">>,
           Addressed(ops), NEW width, HasWidth(ops[2].reg, width), HasWidth(ops[1].reg, 64),
           NEW n, Odd(n), Stores(o, n, width)
    PROVE  Right(o, ops, t, from_buf(emit_mem(ByWidth(n, width), ops[2].reg, ops[1].reg,
                                              ops[1].imm, width)).bytes)
<1> DEFINE reg == ops[2].reg
           base == ops[1].reg
           x == ops[1].imm
           v == <<"mem", reg_index(base), x>>
           b == from_buf(emit_mem(ByWidth(n, width), reg, base, x, width)).bytes
<1>1. Denoted(o, ops, t) = <<v, RegisterValue(width, reg)>>
    <2>1. Register(ops[2]) = RegisterValue(width, reg)
        BY DEF Register, Width, HasWidth
    <2>2. Denoted(o, ops, t) = <<v, Register(ops[2])>>
        BY OtherRegDenoted, Zenon
    <2>3. QED
        BY <2>1, <2>2
<1>2. HasWidth(reg, width) /\ HasWidth(base, 64)
    OBVIOUS
<1>3. x \in Number /\ immediate_fits_i32(x)
    BY TwoKinds, OperandFact DEF Addressed
<1> HIDE DEF reg, base, x
<1>4. Both(b, n, width, reg, v)
    BY <1>2, <1>3, AddressBoth, Zenon
<1> HIDE DEF b, v
<1>5. Tells(b, o, <<v, RegisterValue(width, reg)>>)
    BY <1>4, Zenon DEF Stores
<1>6. QED
    BY <1>1, <1>5, Zenon DEF b, reg, base, x, Right, Straight

LEMMA RipRight ==
    ASSUME NEW o, NEW ops \in Seq(Operand), NEW t, Straight(o), NEW width, NEW n, Odd(n)
    PROVE  /\ Kinds(ops) = <<"REG", "RIP">> /\ HasWidth(ops[1].reg, width) /\ Loads(o, n, width)
              => Right(o, ops, t, from_buf(emit_rip_relative_mem(ByWidth(n, width), ops[1].reg,
                                                                 width)).bytes)
           /\ Kinds(ops) = <<"RIP", "REG">> /\ HasWidth(ops[2].reg, width) /\ Stores(o, n, width)
              => Right(o, ops, t, from_buf(emit_rip_relative_mem(ByWidth(n, width), ops[2].reg,
                                                                 width)).bytes)
<1> DEFINE v == <<"rip", Low(Zero, 4)>>
           b(reg) == from_buf(emit_rip_relative_mem(ByWidth(n, width), reg, width)).bytes
<1>1. ASSUME NEW reg, HasWidth(reg, width) PROVE Both(b(reg), n, width, reg, v)
    BY <1>1, RipBoth, Zenon
<1>2. ASSUME Kinds(ops) = <<"REG", "RIP">>, HasWidth(ops[1].reg, width), Loads(o, n, width)
      PROVE  Right(o, ops, t, b(ops[1].reg))
    <2>1. Denoted(o, ops, t) = <<RegisterValue(width, ops[1].reg), v>>
        <3>1. Register(ops[1]) = RegisterValue(width, ops[1].reg)
            BY <1>2 DEF Register, Width, HasWidth
        <3>2. Denoted(o, ops, t) = <<Register(ops[1]), v>>
            BY <1>2, RegOtherDenoted, Zenon
        <3>3. QED
            BY <3>1, <3>2
    <2> HIDE DEF b, v
    <2>2. Tells(b(ops[1].reg), o, <<RegisterValue(width, ops[1].reg), v>>)
        BY <1>1, <1>2, Zenon DEF Loads
    <2>3. QED
        BY <2>1, <2>2, Zenon DEF Right, Straight
<1>3. ASSUME Kinds(ops) = <<"RIP", "REG">>, HasWidth(ops[2].reg, width), Stores(o, n, width)
      PROVE  Right(o, ops, t, b(ops[2].reg))
    <2>1. Denoted(o, ops, t) = <<v, RegisterValue(width, ops[2].reg)>>
        <3>1. Register(ops[2]) = RegisterValue(width, ops[2].reg)
            BY <1>3 DEF Register, Width, HasWidth
        <3>2. Denoted(o, ops, t) = <<v, Register(ops[2])>>
            BY <1>3, OtherRegDenoted, Zenon
        <3>3. QED
            BY <3>1, <3>2
    <2> HIDE DEF b, v
    <2>2. Tells(b(ops[2].reg), o, <<v, RegisterValue(width, ops[2].reg)>>)
        BY <1>1, <1>3, Zenon DEF Stores
    <2>3. QED
        BY <2>1, <2>2, Zenon DEF Right, Straight
<1>4. QED
    BY <1>2, <1>3, Zenon

-----------------------------------------------------------------------------
(* Forms with a register and a number *)

LEMMA NumberRm ==
    ASSUME NEW width, NEW reg, NEW r, HasWidth(r, width), NEW op, Escaped(Single, op),
           NEW ext \in 0 .. 7, NEW x \in Number, NEW n \in 1 .. 8
    PROVE  LET b == NumberBytes(width, reg, r, op, ext, x, n) IN
           /\ Started(Fields(b), width, reg, r, Single, op)
           /\ HasRm(b, Fields(b), width, ext, RegisterValue(width, r), Low(x, n))
<1> DEFINE b == NumberBytes(width, reg, r, op, ext, x, n)
           f == Fields(b)
           u == Low(x, n)
<1>1. width \in {8, 16, 32, 64}
    BY DEF HasWidth
<1>2. Started(f, width, reg, r, Single, op) /\ Shaped(b, f, RegRm(ext, r) \o u)
    BY <1>1, NumberCode
<1>3. u \in Bytes
    BY LowFact
<1> HIDE DEF b, f, u
<1>4. HasRm(b, f, width, ext, RegisterValue(width, r), u)
    BY <1>2, <1>3, RegisterTail
<1>5. QED
    BY <1>2, <1>4 DEF b, f, u

\* Opcode op with extension ext, and a number of n bytes after ModRM.
Numbered(b, op, ext, width, n, r, x) ==
    LET f == Fields(b)
    IN  /\ ~f.two /\ f.opcode = op /\ Extension(b, f) = ext
        /\ width # 8 => Wide(f) = width
        /\ \A name : RmImm(b, f, name, width, n) =
                        Is(name, <<RegisterValue(width, r), Imm(x, width \div 8)>>, Count(b) + 1)

LEMMA NumberedFact ==
    ASSUME NEW width, NEW r, HasWidth(r, width), NEW op, Escaped(Single, op),
           NEW ext \in 0 .. 7, NEW x \in Number, NEW n, Within(x, n, width)
    PROVE  Numbered(NumberBytes(width, REG_INVALID, r, op, ext, x, n), op, ext, width, n, r, x)
<1> DEFINE b == NumberBytes(width, REG_INVALID, r, op, ext, x, n)
           f == Fields(b)
           v == RegisterValue(width, r)
<1>1. valid_integer_width(width) /\ n \in 1 .. 8
    BY DEF HasWidth, Within, valid_integer_width
<1>2. Started(f, width, REG_INVALID, r, Single, op) /\ HasRm(b, f, width, ext, v, Low(x, n))
    BY <1>1, NumberRm
<1> HIDE DEF b, f, v
<1>3. \A name : RmImm(b, f, name, width, n) =
                    Is(name, <<v, Imm(x, width \div 8)>>, Count(b) + 1)
    <2>1. NumberAfter(b, f, width, n, v, x)
        BY <1>1, <1>2, NumberAfterRm
    <2>2. QED
        BY <2>1, Zenon DEF NumberAfter, RmImm
<1>4. ~f.two /\ f.opcode = op /\ (width # 8 => Wide(f) = width)
    BY <1>2 DEF Started, Single
<1>5. Extension(b, f) = ext
    BY <1>2 DEF HasRm
<1>6. QED
    BY <1>3, <1>4, <1>5, Zenon DEF b, f, v, Numbered

Wider(width) == width \in {16, 32, 64}

LEMMA AluNumber ==
    ASSUME NEW b, NEW e \in 0 .. 7, NEW width, NEW r, NEW x
    PROVE  LET list == <<RegisterValue(width, r), Imm(x, width \div 8)>> IN
           /\ width = 8 /\ Numbered(b, 128, e, width, 1, r, x) => Tells(b, AluName[e + 1], list)
           /\ Wider(width) /\ Numbered(b, 129, e, width, ImmBytes(width), r, x)
              => Tells(b, AluName[e + 1], list)
           /\ Wider(width) /\ Numbered(b, 131, e, width, 1, r, x)
              => Tells(b, AluName[e + 1], list)
<1> DEFINE f == Fields(b)
           list == <<RegisterValue(width, r), Imm(x, width \div 8)>>
           d == Is(AluName[e + 1], list, Count(b) + 1)
<1>1. ASSUME width = 8, Numbered(b, 128, e, width, 1, r, x) PROVE Reads(b, d)
    <2>1. ~f.two /\ f.opcode = 128 /\ Extension(b, f) = e
        BY <1>1, Zenon DEF Numbered
    <2>2. ByParity(f) = width /\ LongImm(width) = 1
        BY <1>1, <2>1 DEF ByParity, LongImm
    <2>3. d = RmImm(b, f, AluName[e + 1], width, 1)
        BY <1>1, Zenon DEF Numbered
    <2> HIDE DEF d, f
    <2>4. d = RmImm(b, f, AluName[Extension(b, f) + 1], ByParity(f), LongImm(ByParity(f)))
        BY <2>1, <2>2, <2>3
    <2>5. QED
        BY <2>1, <2>4, OneArms DEF f
<1>2. ASSUME Wider(width), Numbered(b, 129, e, width, ImmBytes(width), r, x)
      PROVE  Reads(b, d)
    <2>1. ~f.two /\ f.opcode = 129 /\ Extension(b, f) = e /\ (width # 8 => Wide(f) = width)
        BY <1>2, Zenon DEF Numbered
    <2>2. ByParity(f) = width /\ LongImm(width) = ImmBytes(width)
        BY <1>2, <2>1 DEF Wider, ByParity, LongImm, ImmBytes
    <2>3. d = RmImm(b, f, AluName[e + 1], width, ImmBytes(width))
        BY <1>2, Zenon DEF Numbered
    <2> HIDE DEF d, f
    <2>4. d = RmImm(b, f, AluName[Extension(b, f) + 1], ByParity(f), LongImm(ByParity(f)))
        BY <2>1, <2>2, <2>3
    <2>5. QED
        BY <2>1, <2>4, OneArms DEF f
<1>3. ASSUME Wider(width), Numbered(b, 131, e, width, 1, r, x)
      PROVE  Reads(b, d)
    <2>1. ~f.two /\ f.opcode = 131 /\ Extension(b, f) = e /\ (width # 8 => Wide(f) = width)
        BY <1>3, Zenon DEF Numbered
    <2>2. Wide(f) = width
        BY <1>3, <2>1 DEF Wider
    <2>3. d = RmImm(b, f, AluName[e + 1], width, 1)
        BY <1>3, Zenon DEF Numbered
    <2> HIDE DEF d, f
    <2>4. d = RmImm(b, f, AluName[Extension(b, f) + 1], Wide(f), 1)
        BY <2>1, <2>2, <2>3
    <2>5. QED
        BY <2>1, <2>4, OneArms DEF f
<1>4. QED
    BY <1>1, <1>2, <1>3, Zenon DEF Tells

LEMMA MovNumber ==
    ASSUME NEW b, NEW r, NEW x, Numbered(b, 199, 0, 64, 4, r, x)
    PROVE  Tells(b, "MOV", <<RegisterValue(64, r), Imm(x, 8)>>)
<1> DEFINE f == Fields(b)
           d == Is("MOV", <<RegisterValue(64, r), Imm(x, 8)>>, Count(b) + 1)
           n == 4
           w == 64
<1>1. w # 8 /\ w \div 8 = 8 /\ LongImm(w) = n
    BY DEF LongImm
<1>2. Numbered(b, 199, 0, w, n, r, x)
    OBVIOUS
<1>3. d = Is("MOV", <<RegisterValue(w, r), Imm(x, w \div 8)>>, Count(b) + 1)
    BY <1>1
<1> HIDE DEF w, n
<1>4. ~f.two /\ f.opcode = 199 /\ Wide(f) = w
    BY <1>1, <1>2, Zenon DEF Numbered
<1>5. d = RmImm(b, f, "MOV", w, n)
    BY <1>2, <1>3, Zenon DEF Numbered
<1> HIDE DEF d, f
<1>6. d = RmImm(b, f, "MOV", Wide(f), LongImm(Wide(f)))
    BY <1>1, <1>4, <1>5
<1>7. QED
    BY <1>4, <1>6, MoreOneArms DEF f, d, Tells

LEMMA TestNumber ==
    ASSUME NEW b, NEW width \in {8, 16, 32, 64}, NEW r, NEW x,
           Numbered(b, ByWidth(247, width), 0, width, ImmBytes(width), r, x)
    PROVE  Tells(b, "TEST", <<RegisterValue(width, r), Imm(x, width \div 8)>>)
<1> DEFINE f == Fields(b)
           d == Is("TEST", <<RegisterValue(width, r), Imm(x, width \div 8)>>, Count(b) + 1)
<1>1. ~f.two /\ f.opcode = ByWidth(247, width) /\ Extension(b, f) = 0
      /\ (width # 8 => Wide(f) = width)
    BY Zenon DEF Numbered
<1>2. f.opcode \in {246, 247} /\ ByParity(f) = width
    BY <1>1 DEF ByWidth, ByParity
<1>3. LongImm(width) = ImmBytes(width)
    BY DEF LongImm, ImmBytes
<1>4. d = RmImm(b, f, "TEST", width, ImmBytes(width))
    BY Zenon DEF Numbered
<1> HIDE DEF d, f
<1>5. d = RmImm(b, f, "TEST", ByParity(f), LongImm(ByParity(f)))
    BY <1>2, <1>3, <1>4
<1>6. QED
    BY <1>1, <1>2, <1>5, MoreOneArms DEF f, d, Tells

LEMMA RegImmRight ==
    ASSUME NEW o, NEW ops \in Seq(Operand), NEW t, NEW b, Straight(o), o # "INT",
           Kinds(ops) = <<"REG", "IMM">>, NEW width, HasWidth(ops[1].reg, width),
           Tells(b, o, <<RegisterValue(width, ops[1].reg), Imm(ops[2].imm, width \div 8)>>)
    PROVE  Right(o, ops, t, b)
<1>1. Register(ops[1]) = RegisterValue(width, ops[1].reg) /\ Width(ops[1]) = width
    BY DEF Register, Width, HasWidth
<1>2. Denoted(o, ops, t) = <<Register(ops[1]), <<"imm", Low(ops[2].imm, ImmediateWidth(o, ops))>>>>
    BY RegOtherDenoted, Zenon
<1>3. ImmediateWidth(o, ops) = width \div 8
    BY <1>1, DomainFacts DEF ImmediateWidth, Straight
<1>4. Denoted(o, ops, t) = <<RegisterValue(width, ops[1].reg), Imm(ops[2].imm, width \div 8)>>
    BY <1>1, <1>2, <1>3 DEF Imm
<1>5. QED
    BY <1>4, Zenon DEF Right, Straight

-----------------------------------------------------------------------------
(* A register in the opcode and a number *)

LEMMA FieldEscaped ==
    ASSUME NEW r, NEW n \in {80, 88, 176, 184}
    PROVE  Escaped(Single, n + reg_field(r))
<1> DEFINE k == reg_field(r)
<1>1. k \in 0 .. 7
    BY FieldFact
<1> HIDE DEF k
<1>2. n + k \in Int /\ Ordinary(n + k)
    BY <1>1 DEF Ordinary
<1>3. QED
    BY <1>2 DEF Escaped, Single, k

LowBytes(width, r, n, t) ==
    from_buf(Start(width, REG_INVALID, r, <<n + reg_field(r)>>) \o t).bytes

LEMMA LowCode ==
    ASSUME NEW width \in {8, 16, 32, 64}, NEW r, NEW n \in {80, 88, 176, 184},
           NEW t \in Bytes, Count(t) <= 11
    PROVE  LET b == LowBytes(width, r, n, t) IN
           /\ Started(Fields(b), width, REG_INVALID, r, Single, n + reg_field(r))
           /\ Shaped(b, Fields(b), t)
<1> DEFINE op == n + reg_field(r)
           b == from_buf(Start(width, REG_INVALID, r, Opcode(Single, op)) \o t).bytes
<1>1. Escaped(Single, op)
    BY FieldEscaped
<1>2. LowBytes(width, r, n, t) = b
    BY DEF LowBytes, Opcode, Single
<1> HIDE DEF op
<1>3. Started(Fields(b), width, REG_INVALID, r, Single, op) /\ Shaped(b, Fields(b), t)
    BY <1>1, StartRead
<1> HIDE DEF b
<1>4. QED
    BY <1>2, <1>3 DEF op

LEMMA LowMovTells ==
    ASSUME NEW width, NEW r, HasWidth(r, width), NEW x \in Number
    PROVE  Tells(LowBytes(width, r, IF width = 8 THEN 176 ELSE 184, Low(x, width \div 8)),
                 "MOV", <<RegisterValue(width, r), Imm(x, width \div 8)>>)
<1> DEFINE n == IF width = 8 THEN 176 ELSE 184
           to == width \div 8
           t == Low(x, to)
           b == LowBytes(width, r, n, t)
           f == Fields(b)
           k == reg_field(r)
           d == Is("MOV", <<RegisterValue(width, r), Imm(x, to)>>, Count(b) + 1)
<1>1. /\ width \in {8, 16, 32, 64} /\ n \in {80, 88, 176, 184} /\ to \in 1 .. 8
      /\ (width = 8 => n = 176) /\ (width # 8 => n = 184) /\ to \in 1 .. to
    BY SMT DEF HasWidth
<1>2. r \in 0 .. 79
    BY WidthRange DEF HasWidth
<1> HIDE DEF n, to
<1>3. t \in Bytes /\ Count(t) <= 11
    BY <1>1, LowFact
<1> HIDE DEF t
<1>4. Started(f, width, REG_INVALID, r, Single, n + reg_field(r)) /\ Shaped(b, f, t)
    BY <1>1, <1>3, LowCode
<1> HIDE DEF b, f
<1>5. Known(f, width, r)
    BY <1>4, ForcedByte DEF HasWidth
<1>6. f.opcode = n + reg_field(r) /\ f.b = 8 * Hi(r) /\ f.modrm \in Int /\ ~f.two
      /\ (width # 8 => Wide(f) = width)
    BY <1>4 DEF Started, Placed, Single
<1>7. /\ RegisterOperand(f, width, (f.opcode % 8) + f.b) = RegisterValue(width, r)
      /\ f.opcode \in n .. n + 7
    <2>1. InOpcode(f, n, r)
        BY <1>1, <1>2, <1>6 DEF InOpcode
    <2>2. QED
        BY <1>5, <2>1, LowRead
<1>8. ImmOperand(b, f.modrm, to, to) = Imm(x, to) /\ f.modrm + to = Count(b) + 1
    BY <1>1, <1>4, <1>6, NumberRead DEF t, Imm
<1>9. d = LowImm(b, f, "MOV", width)
    BY <1>7, <1>8, Zenon DEF LowImm, to
<1> HIDE DEF d
<1>10. CASE width = 8
    <2>1. f.opcode \in 176 .. 183 /\ d = LowImm(b, f, "MOV", 8)
        BY <1>1, <1>7, <1>9, <1>10
    <2>2. Reads(b, d)
        BY <1>6, <2>1, OneArms DEF f
    <2>3. QED
        BY <2>2 DEF b, n, t, to, d, Tells
<1>11. CASE width # 8
    <2>1. f.opcode \in 184 .. 191 /\ d = LowImm(b, f, "MOV", Wide(f))
        BY <1>1, <1>6, <1>7, <1>9, <1>11
    <2>2. Reads(b, d)
        BY <1>6, <2>1, OneArms DEF f
    <2>3. QED
        BY <2>2 DEF b, n, t, to, d, Tells
<1>12. QED
    BY <1>10, <1>11

-----------------------------------------------------------------------------
(* mov *)

LEMMA WithinFacts ==
    ASSUME NEW x, NEW width \in {8, 16, 32, 64}
    PROVE  /\ immediate_fits_i8(x) => Within(x, 1, width)
           /\ width = 8 => Within(x, 1, width)
           /\ width = 64 /\ immediate_fits_i32(x) => Within(x, 4, width)
           /\ FitsOperand(x, width) => Within(x, ImmBytes(width), width)
<1>1. 1 <= width \div 8 /\ (width = 8 => width \div 8 = 1) /\ (width = 64 => width \div 8 = 8)
    BY SMT
<1>2. width # 64 => width \div 8 \in 1 .. 8 /\ ImmBytes(width) = width \div 8
    BY SMT DEF ImmBytes
<1>3. width = 64 => ImmBytes(width) = 4
    BY DEF ImmBytes
<1>4. width = 64 /\ FitsOperand(x, width) => immediate_fits_i32(x)
    BY DEF FitsOperand
<1>5. immediate_fits_i32(x) => FitsSigned(x, 4)
    BY DEF immediate_fits_i32
<1>6. immediate_fits_i8(x) => FitsSigned(x, 1)
    BY DEF immediate_fits_i8
<1>7. immediate_fits_i8(x) => Within(x, 1, width)
    BY <1>1, <1>6 DEF Within
<1>8. width = 8 => Within(x, 1, width)
    BY <1>1 DEF Within
<1>9. width = 64 /\ immediate_fits_i32(x) => Within(x, 4, width)
    BY <1>1, <1>5 DEF Within
<1>10. width # 64 => Within(x, ImmBytes(width), width)
    BY <1>2 DEF Within
<1>11. QED
    BY <1>3, <1>4, <1>7, <1>8, <1>9, <1>10

LEMMA MovImmediateSays ==
    ASSUME NEW ops \in Seq(Operand), NEW t, Kinds(ops) = <<"REG", "IMM">>
    PROVE  Says("MOV", ops, t, MovImmediate(ops[1].reg, ops[2].imm))
<1> DEFINE r == ops[1].reg
           x == ops[2].imm
           w == reg_width_bits(r)
           list == <<RegisterValue(w, r), Imm(x, w \div 8)>>
           e == MovImmediate(r, x)
           long == NumberBytes(64, REG_INVALID, r, 199, 0, x, 4)
           low == LowBytes(w, r, IF w = 8 THEN 176 ELSE 184, Low(x, w \div 8))
<1>1. x \in Number
    BY TwoKinds, OperandFact
<1>2. Straight("MOV") /\ "MOV" # "INT"
    BY CanonicalFact DEF Straight, Shift
<1>3. ASSUME NEW b, HasWidth(r, w), Tells(b, "MOV", list) PROVE Right("MOV", ops, t, b)
    BY <1>2, <1>3, RegImmRight, Zenon
<1> HIDE DEF r, x
<1>4. CASE w = 64 /\ immediate_fits_i32(x)
    <2>1. e.bytes = long
        BY <1>4 DEF MovImmediate, NumberBytes
    <2>2. HasWidth(r, w) /\ HasWidth(r, 64)
        BY <1>4 DEF HasWidth
    <2>3. Escaped(Single, 199) /\ 0 \in 0 .. 7 /\ Within(x, 4, 64)
        BY <1>4, WithinFacts DEF Escaped, Single, Ordinary
    <2>4. Numbered(long, 199, 0, 64, 4, r, x)
        BY <1>1, <2>2, <2>3, NumberedFact
    <2> HIDE DEF long
    <2>5. Tells(long, "MOV", <<RegisterValue(64, r), Imm(x, 8)>>)
        BY <2>4, MovNumber
    <2>6. w \div 8 = 8
        BY <1>4
    <2>7. Tells(long, "MOV", list)
        BY <1>4, <2>5, <2>6
    <2>8. QED
        BY <1>3, <2>1, <2>2, <2>7 DEF Says, r, x
<1>5. CASE ~(w = 64 /\ immediate_fits_i32(x)) /\ ~e.error
    <2>1. e.bytes = low /\ HasWidth(r, w)
        <3>1. CASE w = 64
            <4>1. e = from_buf(Start(w, REG_INVALID, r, <<184 + reg_field(r)>>) \o x)
                BY <1>5, <3>1 DEF MovImmediate
            <4>2. w \div 8 = 8 /\ Low(x, 8) = x
                BY <1>1, <3>1, LowAll
            <4>3. QED
                BY <3>1, <4>1, <4>2 DEF LowBytes, HasWidth
        <3>2. CASE w # 64
            <4>1. e = EncodeIf(valid_integer_width(w) /\ FitsOperand(x, w),
                               Start(w, REG_INVALID, r,
                                     <<(IF w = 8 THEN 176 ELSE 184) + reg_field(r)>>)
                                   \o Low(x, w \div 8))
                BY <3>2 DEF MovImmediate
            <4>2. valid_integer_width(w) /\ FitsOperand(x, w)
                BY <1>5, <4>1 DEF EncodeIf, make_error
            <4>3. QED
                BY <4>1, <4>2 DEF EncodeIf, LowBytes, HasWidth, valid_integer_width
        <3>3. QED
            BY <3>1, <3>2
    <2> HIDE DEF w
    <2>2. Tells(low, "MOV", list)
        BY <1>1, <2>1, LowMovTells, Zenon
    <2>3. QED
        BY <1>3, <2>1, <2>2 DEF Says, r, x
<1>6. QED
    BY <1>4, <1>5 DEF Says, r, x

LEMMA MovLabelSays ==
    ASSUME NEW ops \in Seq(Operand), NEW t, Kinds(ops) = <<"REG", "LABEL">>
    PROVE  Says("MOV", ops, t,
                EncodeIf(Width(ops[1]) = 64,
                         Start(64, REG_INVALID, ops[1].reg, <<184 + reg_field(ops[1].reg)>>)
                            \o Zero))
<1> DEFINE r == ops[1].reg
           w == Width(ops[1])
           ok == w = 64
           code == Start(64, REG_INVALID, r, <<184 + reg_field(r)>>) \o Zero
           b == from_buf(code).bytes
<1>1. ASSUME w = 64 PROVE Right("MOV", ops, t, b)
    <2>1. HasWidth(r, 64)
        BY <1>1 DEF HasWidth, Width
    <2>2. Low(Zero, 8) = Zero /\ 64 \div 8 = 8 /\ Zero \in Number
        BY LowAll, ZeroFact
    <2>3. b = LowBytes(64, r, 184, Zero)
        BY DEF LowBytes
    <2> DEFINE n == IF 64 = 8 THEN 176 ELSE 184
    <2>4. Tells(LowBytes(64, r, n, Low(Zero, 64 \div 8)), "MOV",
                <<RegisterValue(64, r), Imm(Zero, 64 \div 8)>>)
        BY <2>1, <2>2, LowMovTells, Zenon
    <2>5. n = 184
        OBVIOUS
    <2> HIDE DEF b, n
    <2>6. Tells(b, "MOV", <<RegisterValue(64, r), <<"imm", Zero>>>>)
        BY <2>2, <2>3, <2>4, <2>5 DEF Imm
    <2>7. Register(ops[1]) = RegisterValue(64, r)
        BY <1>1 DEF Register
    <2>8. Denoted("MOV", ops, t) = <<Register(ops[1]), LabelValue("MOV", t)>>
        BY RegOtherDenoted, Zenon
    <2>9. LabelValue("MOV", t) = <<"imm", Zero>> /\ Canonical("MOV") = "MOV"
        BY CanonicalFact DEF LabelValue
    <2>10. QED
        BY <2>6, <2>7, <2>8, <2>9 DEF Right
<1> HIDE DEF code, ok
<1>2. Says("MOV", ops, t, EncodeIf(ok, code))
    BY <1>1, SaysIf DEF ok
<1>3. QED
    BY <1>2 DEF code, ok

LEMMA MovForms ==
    /\ Straight("MOV") /\ Odd(137) /\ Odd(139)
    /\ \A width : Stores("MOV", 137, width) /\ Loads("MOV", 139, width)
<1>1. Straight("MOV")
    BY CanonicalFact DEF Straight, Shift
<1>2. Odd(137) /\ Odd(139)
    BY SMT DEF Odd, Ordinary
<1>3. ASSUME NEW width PROVE Stores("MOV", 137, width) /\ Loads("MOV", 139, width)
    BY MovTells, Zenon DEF Stores, Loads
<1>4. QED
    BY <1>1, <1>2, <1>3

\* The width of an operand that is checked to be an integer register, and of a base.
LEMMA CheckedWidth ==
    ASSUME NEW op
    PROVE  /\ valid_integer_width(Width(op)) => HasWidth(op.reg, Width(op))
           /\ IsBase(op) => HasWidth(op.reg, 64)
           /\ \A s : same_register_width(op.reg, s)
                => HasWidth(op.reg, Width(op)) /\ HasWidth(s, Width(op))
    BY DEF valid_integer_width, Width, HasWidth, IsBase, same_register_width

LEMMA MovSays ==
    ASSUME NEW ops \in Seq(Operand), NEW t, Addressed(ops)
    PROVE  Says("MOV", ops, t, enc_mov(ops))
<1> DEFINE dst == ops[1]
           src == ops[2]
           w == IF dst.kind = "REG" THEN Width(dst) ELSE Width(src)
           ok == valid_integer_width(w)
           e == enc_mov(ops)
<1>1. CASE Kinds(ops) = <<"REG", "IMM">>
    <2>1. e = MovImmediate(dst.reg, src.imm)
        BY <1>1 DEF enc_mov
    <2>2. QED
        BY <1>1, <2>1, MovImmediateSays
<1>2. CASE Kinds(ops) = <<"REG", "LABEL">>
    <2>1. e = EncodeIf(w = 64, Start(64, REG_INVALID, dst.reg, <<184 + reg_field(dst.reg)>>)
                                  \o Zero)
        BY <1>2 DEF enc_mov
    <2>2. w = Width(dst)
        BY <1>2, TwoKinds
    <2>3. e = EncodeIf(Width(ops[1]) = 64,
                       Start(64, REG_INVALID, ops[1].reg, <<184 + reg_field(ops[1].reg)>>) \o Zero)
        BY <2>1, <2>2
    <2>4. QED
        BY <1>2, <2>3, MovLabelSays
<1>3. CASE Kinds(ops) = <<"REG", "REG">>
    <2> DEFINE code == emit_rr(ByWidth(137, w), dst.reg, src.reg, w)
               fine == same_register_width(dst.reg, src.reg)
    <2>1. e = EncodeIf(fine, code)
        BY <1>3 DEF enc_mov
    <2>2. w = Width(dst)
        BY <1>3, TwoKinds
    <2>3. ASSUME fine PROVE Right("MOV", ops, t, from_buf(code).bytes)
        <3>1. HasWidth(dst.reg, w) /\ HasWidth(src.reg, w)
            BY <2>2, <2>3, CheckedWidth
        <3> HIDE DEF w
        <3>2. QED
            BY <1>3, <3>1, MovForms, RegRegRight, Zenon
    <2> HIDE DEF code, fine
    <2>4. QED
        BY <2>1, <2>3, SaysIf
<1>4. CASE Kinds(ops) = <<"REG", "MEM">>
    <2> DEFINE code == emit_mem(ByWidth(139, w), dst.reg, src.reg, src.imm, w)
               fine == ok /\ IsBase(src)
    <2>1. e = EncodeIf(fine, code)
        BY <1>4 DEF enc_mov
    <2>2. w = Width(dst)
        BY <1>4, TwoKinds
    <2>3. ASSUME fine PROVE Right("MOV", ops, t, from_buf(code).bytes)
        <3>1. HasWidth(dst.reg, w) /\ HasWidth(src.reg, 64)
            BY <2>2, <2>3, CheckedWidth
        <3> HIDE DEF w
        <3>2. QED
            BY <1>4, <3>1, MovForms, RegMemRight, Zenon
    <2> HIDE DEF code, fine
    <2>4. QED
        BY <2>1, <2>3, SaysIf
<1>5. CASE Kinds(ops) = <<"REG", "RIP">>
    <2> DEFINE code == emit_rip_relative_mem(ByWidth(139, w), dst.reg, w)
    <2>1. e = EncodeIf(ok, code)
        BY <1>5 DEF enc_mov
    <2>2. w = Width(dst)
        BY <1>5, TwoKinds
    <2>3. ASSUME ok PROVE Right("MOV", ops, t, from_buf(code).bytes)
        <3>1. HasWidth(dst.reg, w)
            BY <2>2, <2>3, CheckedWidth
        <3> HIDE DEF w
        <3>2. QED
            BY <1>5, <3>1, MovForms, RipRight, Zenon
    <2> HIDE DEF code, ok
    <2>4. QED
        BY <2>1, <2>3, SaysIf
<1>6. CASE Kinds(ops) = <<"MEM", "REG">>
    <2> DEFINE code == emit_mem(ByWidth(137, w), src.reg, dst.reg, dst.imm, w)
               fine == ok /\ IsBase(dst)
    <2>1. e = EncodeIf(fine, code)
        BY <1>6 DEF enc_mov
    <2>2. w = Width(src)
        BY <1>6, TwoKinds
    <2>3. ASSUME fine PROVE Right("MOV", ops, t, from_buf(code).bytes)
        <3>1. HasWidth(src.reg, w) /\ HasWidth(dst.reg, 64)
            BY <2>2, <2>3, CheckedWidth
        <3> HIDE DEF w
        <3>2. QED
            BY <1>6, <3>1, MovForms, MemRegRight, Zenon
    <2> HIDE DEF code, fine
    <2>4. QED
        BY <2>1, <2>3, SaysIf
<1>7. CASE Kinds(ops) = <<"RIP", "REG">>
    <2> DEFINE code == emit_rip_relative_mem(ByWidth(137, w), src.reg, w)
    <2>1. e = EncodeIf(ok, code)
        BY <1>7 DEF enc_mov
    <2>2. w = Width(src)
        BY <1>7, TwoKinds
    <2>3. ASSUME ok PROVE Right("MOV", ops, t, from_buf(code).bytes)
        <3>1. HasWidth(src.reg, w)
            BY <2>2, <2>3, CheckedWidth
        <3> HIDE DEF w
        <3>2. QED
            BY <1>7, <3>1, MovForms, RipRight, Zenon
    <2> HIDE DEF code, ok
    <2>4. QED
        BY <2>1, <2>3, SaysIf
<1>8. CASE Kinds(ops) \notin {<<"REG", "IMM">>, <<"REG", "LABEL">>, <<"REG", "REG">>,
                             <<"REG", "MEM">>, <<"REG", "RIP">>, <<"MEM", "REG">>,
                             <<"RIP", "REG">>}
    <2>1. e = make_error
        BY <1>8 DEF enc_mov
    <2>2. QED
        BY <2>1, SaysError
<1>9. QED
    BY <1>1, <1>2, <1>3, <1>4, <1>5, <1>6, <1>7, <1>8

-----------------------------------------------------------------------------
(* lea, test, and the six arithmetic and logic operations *)

LEMMA LeaSays ==
    ASSUME NEW ops \in Seq(Operand), NEW t, Addressed(ops)
    PROVE  Says("LEA", ops, t, enc_lea(ops))
<1> DEFINE e == enc_lea(ops)
           w == 64
           n == 141
           r == ops[1].reg
           ok == Width(ops[1]) = w
           fine == ok /\ IsBase(ops[2])
<1>1. Straight("LEA")
    BY CanonicalFact DEF Straight, Shift
<1>2. Odd(n)
    BY SMT DEF Odd, Ordinary
<1>3. Loads("LEA", n, w)
    BY TestLeaTells, Zenon DEF Loads
<1>4. ByWidth(n, w) = n
    BY DEF ByWidth
<1>5. ok => HasWidth(r, w)
    BY DEF HasWidth, Width
<1>6. IsBase(ops[2]) => HasWidth(ops[2].reg, 64)
    BY CheckedWidth
<1>7. CASE Kinds(ops) = <<"REG", "RIP">>
    <2> DEFINE code == emit_rip_relative_mem(n, r, w)
    <2>1. e = EncodeIf(ok, code)
        BY <1>7 DEF enc_lea
    <2> HIDE DEF n, w, ok
    <2>2. ASSUME ok PROVE Right("LEA", ops, t, from_buf(emit_rip_relative_mem(ByWidth(n, w), r, w)).bytes)
        BY <1>1, <1>2, <1>3, <1>5, <1>7, <2>2, RipRight, Zenon
    <2>3. ok => Right("LEA", ops, t, from_buf(code).bytes)
        BY <1>4, <2>2, Zenon
    <2> HIDE DEF code
    <2>4. QED
        BY <2>1, <2>3, SaysIf
<1>8. CASE Kinds(ops) = <<"REG", "MEM">>
    <2> DEFINE code == emit_mem(n, r, ops[2].reg, ops[2].imm, w)
    <2>1. e = EncodeIf(fine, code)
        BY <1>8 DEF enc_lea
    <2> HIDE DEF n, w, ok
    <2>2. ASSUME fine
          PROVE  Right("LEA", ops, t, from_buf(emit_mem(ByWidth(n, w), r, ops[2].reg, ops[2].imm, w)).bytes)
        BY <1>1, <1>2, <1>3, <1>5, <1>6, <1>8, <2>2, RegMemRight, Zenon
    <2>3. fine => Right("LEA", ops, t, from_buf(code).bytes)
        BY <1>4, <2>2, Zenon
    <2> HIDE DEF code, fine
    <2>4. QED
        BY <2>1, <2>3, SaysIf
<1>9. CASE Kinds(ops) \notin {<<"REG", "RIP">>, <<"REG", "MEM">>}
    <2>1. e = make_error
        BY <1>9 DEF enc_lea
    <2>2. QED
        BY <2>1, SaysError
<1>10. QED
    BY <1>7, <1>8, <1>9

LEMMA TestSays ==
    ASSUME NEW ops \in Seq(Operand), NEW t
    PROVE  Says("TEST", ops, t, enc_test(ops))
<1> DEFINE e == enc_test(ops)
           r == ops[1].reg
           x == ops[2].imm
           w == reg_width_bits(r)
<1>1. Straight("TEST") /\ "TEST" # "INT"
    BY CanonicalFact DEF Straight, Shift
<1>2. Odd(133) /\ Odd(247)
    BY SMT DEF Odd, Ordinary
<1>3. ASSUME NEW width PROVE Stores("TEST", 133, width)
    BY TestLeaTells, Zenon DEF Stores
<1>4. w = Width(ops[1])
    BY DEF Width
<1>5. CASE Kinds(ops) = <<"REG", "REG">>
    <2> DEFINE code == emit_rr(ByWidth(133, w), r, ops[2].reg, w)
               fine == same_register_width(r, ops[2].reg)
    <2>1. e = EncodeIf(fine, code)
        BY <1>5 DEF enc_test
    <2>2. ASSUME fine PROVE Right("TEST", ops, t, from_buf(code).bytes)
        <3>1. HasWidth(r, w) /\ HasWidth(ops[2].reg, w)
            BY <1>4, <2>2, CheckedWidth
        <3> HIDE DEF w
        <3>2. QED
            BY <1>1, <1>2, <1>3, <1>5, <3>1, RegRegRight, Zenon
    <2> HIDE DEF code, fine
    <2>3. QED
        BY <2>1, <2>2, SaysIf
<1>6. CASE Kinds(ops) = <<"REG", "IMM">>
    <2> DEFINE code == Start(w, REG_INVALID, r, <<ByWidth(247, w)>>) \o RegRm(0, r)
                          \o Low(x, ImmBytes(w))
               fine == valid_integer_width(w) /\ FitsOperand(x, w)
               op == ByWidth(247, w)
               n == ImmBytes(w)
               ext == 0
               b == NumberBytes(w, REG_INVALID, r, op, ext, x, n)
    <2>1. e = EncodeIf(fine, code)
        BY <1>6 DEF enc_test
    <2>2. ASSUME fine PROVE Right("TEST", ops, t, b)
        <3>1. HasWidth(r, w) /\ w \in {8, 16, 32, 64}
            BY <2>2 DEF HasWidth, valid_integer_width
        <3>2. Within(x, n, w)
            BY <2>2, <3>1, WithinFacts
        <3>3. x \in Number /\ ext \in 0 .. 7 /\ Escaped(Single, op)
            BY <1>2, <1>6, TwoKinds, OperandFact, OddEscaped
        <3> HIDE DEF x, r, w, n, op, ext
        <3>4. Numbered(b, op, ext, w, n, r, x)
            BY <3>1, <3>2, <3>3, NumberedFact
        <3> HIDE DEF b
        <3>5. Tells(b, "TEST", <<RegisterValue(w, r), Imm(x, w \div 8)>>)
            BY <3>1, <3>4, TestNumber DEF op, n, ext
        <3>6. QED
            BY <1>1, <1>6, <3>1, <3>5, RegImmRight, Zenon DEF r, x
    <2>3. from_buf(code).bytes = b
        BY DEF NumberBytes
    <2> HIDE DEF code, fine, b
    <2>4. QED
        BY <2>1, <2>2, <2>3, SaysIf
<1>7. CASE Kinds(ops) \notin {<<"REG", "REG">>, <<"REG", "IMM">>}
    <2>1. e = make_error
        BY <1>7 DEF enc_test
    <2>2. QED
        BY <2>1, SaysError
<1>8. QED
    BY <1>5, <1>6, <1>7

\* The six operations are rows of the table the processor decodes by.
LEMMA AluTable ==
    ASSUME NEW o \in Alu
    PROVE  /\ AluOp[o][2] \in 0 .. 7 /\ AluOp[o][1] = 8 * AluOp[o][2] + 1
           /\ AluName[AluOp[o][2] + 1] = o
           /\ Straight(o) /\ o # "INT"
           /\ Odd(AluOp[o][1]) /\ Odd(AluOp[o][1] + 2)
<1> DEFINE e == AluOp[o][2]
           n == AluOp[o][1]
<1>1. e \in 0 .. 7 /\ n = 8 * e + 1 /\ AluName[e + 1] = o
    <2>1. CASE o = "ADD" BY <2>1 DEF AluOp, AluName
    <2>2. CASE o = "SUB" BY <2>2 DEF AluOp, AluName
    <2>3. CASE o = "AND" BY <2>3 DEF AluOp, AluName
    <2>4. CASE o = "OR" BY <2>4 DEF AluOp, AluName
    <2>5. CASE o = "XOR" BY <2>5 DEF AluOp, AluName
    <2>6. CASE o = "CMP" BY <2>6 DEF AluOp, AluName
    <2>7. QED
        BY <2>1, <2>2, <2>3, <2>4, <2>5, <2>6 DEF Alu
<1>2. Straight(o) /\ o # "INT"
    BY CanonicalFact DEF Straight, Shift, Alu
<1> HIDE DEF e, n
<1>3. n \in {1, 9, 17, 25, 33, 41, 49, 57}
    BY <1>1
<1>4. n \in Int /\ n % 2 = 1 /\ Ordinary(n) /\ Ordinary(n - 1)
    BY <1>1, <1>3, SMT DEF Ordinary
<1>5. n + 2 \in Int /\ (n + 2) % 2 = 1 /\ Ordinary(n + 2) /\ Ordinary((n + 2) - 1)
    BY <1>3, SMT DEF Ordinary
<1>6. Odd(n) /\ Odd(n + 2)
    BY <1>4, <1>5 DEF Odd
<1>7. QED
    BY <1>1, <1>2, <1>6 DEF e, n

LEMMA AluForms ==
    ASSUME NEW o \in Alu, NEW width
    PROVE  Stores(o, AluOp[o][1], width) /\ Loads(o, AluOp[o][1] + 2, width)
<1> DEFINE e == AluOp[o][2]
           n == AluOp[o][1]
<1>1. e \in 0 .. 7 /\ n = 8 * e + 1 /\ n + 2 = 8 * e + 3 /\ AluName[e + 1] = o
    <2>1. e \in 0 .. 7 /\ n = 8 * e + 1 /\ AluName[e + 1] = o
        BY AluTable
    <2> HIDE DEF e, n
    <2>2. n + 2 = 8 * e + 3
        BY <2>1
    <2>3. QED
        BY <2>1, <2>2
<1> HIDE DEF e, n
<1>2. ASSUME NEW b, NEW reg, NEW v
      PROVE  /\ Both(b, n, width, reg, v) => Tells(b, o, <<v, RegisterValue(width, reg)>>)
             /\ Both(b, n + 2, width, reg, v) => Tells(b, o, <<RegisterValue(width, reg), v>>)
    BY <1>1, AluTells
<1>3. QED
    BY <1>2, Zenon DEF Stores, Loads, n

LEMMA AluImmediateSays ==
    ASSUME NEW o \in Alu, NEW ops \in Seq(Operand), NEW t, Kinds(ops) = <<"REG", "IMM">>
    PROVE  Says(o, ops, t, AluImmediate(ops[1].reg, ops[2].imm, AluOp[o][2]))
<1> DEFINE r == ops[1].reg
           x == ops[2].imm
           w == reg_width_bits(r)
           ext == AluOp[o][2]
           n == ImmBytes(w)
           list == <<RegisterValue(w, r), Imm(x, w \div 8)>>
           code(op, m) == Start(w, REG_INVALID, r, <<op>>) \o RegRm(ext, r) \o Low(x, m)
           b(op, m) == NumberBytes(w, REG_INVALID, r, op, ext, x, m)
           fine == valid_integer_width(w) /\ FitsOperand(x, w)
           e == AluImmediate(r, x, ext)
<1>1. x \in Number
    BY TwoKinds, OperandFact
<1>2. Straight(o) /\ o # "INT" /\ ext \in 0 .. 7 /\ AluName[ext + 1] = o
    BY AluTable
<1>3. /\ fine /\ w = 8 => e.bytes = b(128, 1)
      /\ fine /\ w # 8 /\ immediate_fits_i8(x) => e.bytes = b(131, 1)
      /\ fine /\ w # 8 /\ ~immediate_fits_i8(x) => e.bytes = b(129, n)
      /\ ~fine => e = make_error
    <2> DEFINE c == IF w = 8 THEN code(128, 1)
                    ELSE IF immediate_fits_i8(x) THEN code(131, 1)
                    ELSE code(129, n)
    <2>1. e = EncodeIf(fine, c)
        BY DEF AluImmediate
    <2>2. b(128, 1) = from_buf(code(128, 1)).bytes /\ b(131, 1) = from_buf(code(131, 1)).bytes
          /\ b(129, n) = from_buf(code(129, n)).bytes
        BY DEF NumberBytes
    <2> HIDE DEF e, fine, code, b, w, n
    <2>3. QED
        BY <2>1, <2>2 DEF EncodeIf
<1>4. fine => HasWidth(r, w) /\ w \in {8, 16, 32, 64}
    BY DEF HasWidth, valid_integer_width
<1>5. fine => /\ w = 8 => Within(x, 1, w)
              /\ immediate_fits_i8(x) => Within(x, 1, w)
              /\ Within(x, n, w)
    BY <1>4, WithinFacts
<1>6. Escaped(Single, 128) /\ Escaped(Single, 129) /\ Escaped(Single, 131)
    BY DEF Escaped, Single, Ordinary
<1> HIDE DEF r, x, w, ext, n, fine, e
<1>7. ASSUME NEW op, NEW m, HasWidth(r, w), Escaped(Single, op), Within(x, m, w)
      PROVE  Numbered(b(op, m), op, ext, w, m, r, x)
    BY <1>1, <1>2, <1>7, NumberedFact
<1> HIDE DEF b
<1>8. ASSUME NEW c, HasWidth(r, w), Tells(c, o, list) PROVE Right(o, ops, t, c)
    BY <1>2, <1>8, RegImmRight, Zenon DEF r, x
<1>9. CASE fine /\ w = 8
    <2>1. Numbered(b(128, 1), 128, ext, w, 1, r, x)
        BY <1>4, <1>5, <1>6, <1>7, <1>9
    <2>2. Tells(b(128, 1), o, list)
        BY <1>2, <1>9, <2>1, AluNumber
    <2>3. QED
        BY <1>3, <1>4, <1>8, <1>9, <2>2 DEF Says, e, r, x, ext
<1>10. CASE fine /\ w # 8 /\ immediate_fits_i8(x)
    <2>1. Numbered(b(131, 1), 131, ext, w, 1, r, x)
        BY <1>4, <1>5, <1>6, <1>7, <1>10
    <2>2. Tells(b(131, 1), o, list)
        <3>1. Wider(w)
            BY <1>4, <1>10 DEF Wider
        <3> DEFINE c == b(131, 1)
        <3>2. Numbered(c, 131, ext, w, 1, r, x)
            BY <2>1
        <3> HIDE DEF c
        <3>3. Tells(c, AluName[ext + 1], list)
            BY <1>2, <3>1, <3>2, AluNumber
        <3>4. QED
            BY <1>2, <3>3 DEF c
    <2>3. QED
        BY <1>3, <1>4, <1>8, <1>10, <2>2 DEF Says, e, r, x, ext
<1>11. CASE fine /\ w # 8 /\ ~immediate_fits_i8(x)
    <2>1. Numbered(b(129, n), 129, ext, w, n, r, x)
        BY <1>4, <1>5, <1>6, <1>7, <1>11
    <2>2. Tells(b(129, n), o, list)
        <3>1. Wider(w)
            BY <1>4, <1>11 DEF Wider
        <3> DEFINE c == b(129, n)
        <3>2. Numbered(c, 129, ext, w, ImmBytes(w), r, x)
            BY <2>1 DEF n
        <3> HIDE DEF c
        <3>3. Tells(c, AluName[ext + 1], list)
            BY <1>2, <3>1, <3>2, AluNumber
        <3>4. QED
            BY <1>2, <3>3 DEF c
    <2>3. QED
        BY <1>3, <1>4, <1>8, <1>11, <2>2 DEF Says, e, r, x, ext
<1>12. CASE ~fine
    BY <1>3, <1>12, SaysError DEF e, r, x, ext
<1>13. QED
    BY <1>9, <1>10, <1>11, <1>12

LEMMA AluSays ==
    ASSUME NEW o \in Alu, NEW ops \in Seq(Operand), NEW t, Addressed(ops)
    PROVE  Says(o, ops, t, enc_alu(ops, AluOp[o][1], AluOp[o][2]))
<1> DEFINE n == AluOp[o][1]
           ext == AluOp[o][2]
           e == enc_alu(ops, n, ext)
           r == ops[1].reg
           w == Width(ops[1])
<1>1. Straight(o) /\ Odd(n) /\ Odd(n + 2) /\ n \in Int
    BY AluTable DEF Odd
<1>2. ASSUME NEW width PROVE Stores(o, n, width) /\ Loads(o, n + 2, width)
    BY AluForms
<1>3. CASE Kinds(ops) = <<"REG", "REG">>
    <2> DEFINE code == emit_rr(ByWidth(n, w), r, ops[2].reg, w)
               fine == same_register_width(r, ops[2].reg)
    <2>1. e = EncodeIf(fine, code)
        BY <1>3 DEF enc_alu
    <2>2. ASSUME fine PROVE Right(o, ops, t, from_buf(code).bytes)
        <3>1. HasWidth(r, w) /\ HasWidth(ops[2].reg, w)
            BY <2>2, CheckedWidth
        <3> HIDE DEF w, n
        <3>2. QED
            BY <1>1, <1>2, <1>3, <3>1, RegRegRight, Zenon
    <2> HIDE DEF code, fine, e
    <2>3. Says(o, ops, t, e)
        BY <2>1, <2>2, SaysIf
    <2>4. QED
        BY <2>3 DEF e, n, ext
<1>4. CASE Kinds(ops) = <<"REG", "IMM">>
    <2>1. e = AluImmediate(r, ops[2].imm, ext)
        BY <1>4 DEF enc_alu
    <2>2. QED
        BY <1>4, <2>1, AluImmediateSays
<1>5. CASE Kinds(ops) = <<"REG", "MEM">>
    <2> DEFINE m == n + 2
               code == emit_mem(ByWidth(n, w) + 2, r, ops[2].reg, ops[2].imm, w)
               fine == valid_integer_width(w) /\ IsBase(ops[2])
    <2>1. e = EncodeIf(fine, code)
        BY <1>5 DEF enc_alu
    <2>2. ByWidth(n, w) + 2 = ByWidth(m, w)
        <3> HIDE DEF n
        <3>1. (n - 1) + 2 = (n + 2) - 1
            BY <1>1
        <3>2. QED
            BY <3>1 DEF ByWidth, m
    <2>3. ASSUME fine PROVE Right(o, ops, t, from_buf(code).bytes)
        <3>1. HasWidth(r, w) /\ HasWidth(ops[2].reg, 64)
            BY <2>3, CheckedWidth
        <3>2. Odd(m) /\ Loads(o, m, w)
            BY <1>1, <1>2
        <3> HIDE DEF w, n, m
        <3>3. Right(o, ops, t, from_buf(emit_mem(ByWidth(m, w), r, ops[2].reg, ops[2].imm, w)).bytes)
            BY <1>1, <1>5, <3>1, <3>2, RegMemRight, Zenon
        <3>4. QED
            BY <2>2, <3>3
    <2> HIDE DEF code, fine, e
    <2>4. Says(o, ops, t, e)
        BY <2>1, <2>3, SaysIf
    <2>5. QED
        BY <2>4 DEF e, n, ext
<1>6. CASE Kinds(ops) \notin {<<"REG", "REG">>, <<"REG", "IMM">>, <<"REG", "MEM">>}
    <2>1. e = make_error
        BY <1>6 DEF enc_alu
    <2>2. QED
        BY <2>1, SaysError
<1>7. QED
    BY <1>3, <1>4, <1>5, <1>6

-----------------------------------------------------------------------------
(* Forms with one register *)

LoneBytes(width, r, n, ext) ==
    from_buf(Start(width, REG_INVALID, r, <<ByWidth(n, width)>>) \o RegRm(ext, r)).bytes

\* The opcode is that of a pair for this width; ModRM holds v and an extension.
Lone(b, n, ext, width, v) ==
    LET f == Fields(b)
    IN  /\ ~f.two /\ f.opcode = ByWidth(n, width) /\ ByParity(f) = width
        /\ HasRm(b, f, width, ext, v, <<>>)

LEMMA LoneFact ==
    ASSUME NEW width, NEW r, HasWidth(r, width), NEW n, Odd(n), NEW ext \in 0 .. 7
    PROVE  Lone(LoneBytes(width, r, n, ext), n, ext, width, RegisterValue(width, r))
<1> DEFINE op == ByWidth(n, width)
           b == from_buf(Start(width, REG_INVALID, r, Opcode(Single, op)) \o RegRm(ext, r)).bytes
           f == Fields(b)
           v == RegisterValue(width, r)
<1>1. Escaped(Single, op) /\ width \in {8, 16, 32, 64}
    BY OddEscaped DEF HasWidth
<1>2. LoneBytes(width, r, n, ext) = b
    BY DEF LoneBytes, Opcode, Single
<1> HIDE DEF op
<1>3. Started(f, width, REG_INVALID, r, Single, op) /\ Shaped(b, f, RegRm(ext, r))
    BY <1>1, RegisterCode
<1> HIDE DEF b, f
<1>4. ~f.two /\ f.opcode = op /\ ByParity(f) = width
    BY <1>1, <1>3, OddParity DEF op
<1>5. HasRm(b, f, width, ext, v, <<>>)
    BY <1>3, RegisterAlone
<1>6. Lone(b, n, ext, width, v)
    BY <1>4, <1>5 DEF Lone, f, op
<1>7. QED
    BY <1>2, <1>6

LEMMA LoneTells ==
    ASSUME NEW b, NEW ext \in 0 .. 7, NEW width, NEW v
    PROVE  /\ ext > 1 /\ Lone(b, 247, ext, width, v) => Tells(b, Group3Name[ext + 1], <<v>>)
           /\ ext <= 1 /\ Lone(b, 255, ext, width, v) => Tells(b, Group5Name[ext + 1], <<v>>)
<1> DEFINE f == Fields(b)
           d == Is(Group3Name[ext + 1], <<v>>, Count(b) + 1)
           c == Is(Group5Name[ext + 1], <<v>>, Count(b) + 1)
<1>1. ASSUME ext > 1, Lone(b, 247, ext, width, v) PROVE Reads(b, d)
    <2>1. ~f.two /\ f.opcode \in {246, 247} /\ ByParity(f) = width
        BY <1>1 DEF Lone, ByWidth
    <2>2. HasRm(b, f, width, ext, v, <<>>)
        BY <1>1, Zenon DEF Lone
    <2> HIDE DEF f, d
    <2>3. Extension(b, f) = ext /\ Last(b, f, width, v)
        BY <2>2, RmAlone DEF HasRm
    <2>4. d = RmOnly(b, f, Group3Name[ext + 1], width)
        BY <2>3, Zenon DEF Last, RmOnly, d
    <2>5. QED
        BY <1>1, <2>1, <2>3, <2>4, MoreOneArms DEF f
<1>2. ASSUME ext <= 1, Lone(b, 255, ext, width, v) PROVE Reads(b, c)
    <2>1. ~f.two /\ f.opcode \in {254, 255} /\ ByParity(f) = width
        BY <1>2 DEF Lone, ByWidth
    <2>2. HasRm(b, f, width, ext, v, <<>>)
        BY <1>2, Zenon DEF Lone
    <2> HIDE DEF f, c
    <2>3. Extension(b, f) = ext /\ ext \in {0, 1} /\ Last(b, f, width, v)
        BY <1>2, <2>2, RmAlone DEF HasRm
    <2>4. c = RmOnly(b, f, Group5Name[ext + 1], width)
        BY <2>3, Zenon DEF Last, RmOnly, c
    <2>5. QED
        BY <2>1, <2>3, <2>4, MoreOneArms DEF f
<1>3. QED
    BY <1>1, <1>2 DEF Tells

LEMMA LoneShiftTells ==
    ASSUME NEW b, NEW ext \in 0 .. 7, NEW width, NEW v
    PROVE  /\ Lone(b, 209, ext, width, v)
              => Tells(b, ShiftName[ext + 1], <<v, <<"imm", <<1>>>>>>)
           /\ Lone(b, 211, ext, width, v)
              => Tells(b, ShiftName[ext + 1], <<v, <<"reg", 8, 1>>>>)
<1> DEFINE f == Fields(b)
           one == <<"imm", <<1>>>>
           cl == <<"reg", 8, 1>>
           d == Is(ShiftName[ext + 1], <<v, one>>, Count(b) + 1)
           c == Is(ShiftName[ext + 1], <<v, cl>>, Count(b) + 1)
<1>1. ASSUME Lone(b, 209, ext, width, v) PROVE Reads(b, d)
    <2>1. ~f.two /\ f.opcode \in {208, 209} /\ ByParity(f) = width
        BY <1>1 DEF Lone, ByWidth
    <2>2. HasRm(b, f, width, ext, v, <<>>)
        BY <1>1, Zenon DEF Lone
    <2> HIDE DEF f, d
    <2>3. Extension(b, f) = ext /\ Last(b, f, width, v)
        BY <2>2, RmAlone DEF HasRm
    <2>4. d = RmCount(b, f, ShiftName[ext + 1], width, one)
        BY <2>3, Zenon DEF Last, RmCount, d
    <2>5. QED
        BY <2>1, <2>3, <2>4, MoreOneArms DEF f
<1>2. ASSUME Lone(b, 211, ext, width, v) PROVE Reads(b, c)
    <2>1. ~f.two /\ f.opcode \in {210, 211} /\ ByParity(f) = width
        BY <1>2 DEF Lone, ByWidth
    <2>2. HasRm(b, f, width, ext, v, <<>>)
        BY <1>2, Zenon DEF Lone
    <2> HIDE DEF f, c
    <2>3. Extension(b, f) = ext /\ Last(b, f, width, v)
        BY <2>2, RmAlone DEF HasRm
    <2>4. c = RmCount(b, f, ShiftName[ext + 1], width, cl)
        BY <2>3, Zenon DEF Last, RmCount, c
    <2>5. QED
        BY <2>1, <2>3, <2>4, MoreOneArms DEF f
<1>3. QED
    BY <1>1, <1>2 DEF Tells

LEMMA RegRight ==
    ASSUME NEW o, NEW ops \in Seq(Operand), NEW t, NEW b, Straight(o), Kinds(ops) = <<"REG">>,
           NEW width, HasWidth(ops[1].reg, width),
           Tells(b, o, <<RegisterValue(width, ops[1].reg)>>)
    PROVE  Right(o, ops, t, b)
<1>1. ops[1].kind = "REG"
    BY OneKind
<1>2. Denotes(o, ops, t, 1) = RegisterValue(Width(ops[1]), ops[1].reg)
    BY <1>1, RegisterDenotes DEF Straight
<1>3. Width(ops[1]) = width
    BY DEF Width, HasWidth
<1>4. Denoted(o, ops, t) = <<RegisterValue(width, ops[1].reg)>>
    BY <1>2, <1>3, OneDenoted
<1>5. QED
    BY <1>4, Zenon DEF Right, Straight

\* o is what the opcode pair n means with this extension.
Named(o, n, ext) ==
    \/ n = 247 /\ ext > 1 /\ o = Group3Name[ext + 1]
    \/ n = 255 /\ ext <= 1 /\ o = Group5Name[ext + 1]

LEMMA OneRegisterSays ==
    ASSUME NEW o, NEW ops \in Seq(Operand), NEW t, Straight(o), NEW n, Odd(n), NEW ext \in 0 .. 7,
           Named(o, n, ext)
    PROVE  Says(o, ops, t, OneRegister(ops, n, ext))
<1> DEFINE e == OneRegister(ops, n, ext)
           r == ops[1].reg
           w == Width(ops[1])
           ok == valid_integer_width(w)
           b == LoneBytes(w, r, n, ext)
           code == Start(w, REG_INVALID, r, <<ByWidth(n, w)>>) \o RegRm(ext, r)
           v == RegisterValue(w, r)
<1>1. CASE Kinds(ops) = <<"REG">>
    <2>1. e = EncodeIf(ok, code)
        BY <1>1 DEF OneRegister
    <2>2. ASSUME ok PROVE Right(o, ops, t, b)
        <3>1. HasWidth(r, w)
            BY <2>2, CheckedWidth
        <3> HIDE DEF b, w, v
        <3>2. Lone(b, n, ext, w, v)
            BY <3>1, LoneFact DEF b, v
        <3>3. Tells(b, o, <<v>>)
            <4>1. CASE n = 247 /\ ext > 1 /\ o = Group3Name[ext + 1]
                BY <3>2, <4>1, LoneTells
            <4>2. CASE n = 255 /\ ext <= 1 /\ o = Group5Name[ext + 1]
                BY <3>2, <4>2, LoneTells
            <4>3. QED
                BY <4>1, <4>2 DEF Named
        <3>4. QED
            BY <1>1, <3>1, <3>3, RegRight, Zenon DEF v
    <2>3. from_buf(code).bytes = b
        BY DEF LoneBytes
    <2> HIDE DEF code, ok, b
    <2>4. QED
        BY <2>1, <2>2, <2>3, SaysIf
<1>2. CASE Kinds(ops) # <<"REG">>
    <2>1. e = make_error
        BY <1>2 DEF OneRegister
    <2>2. QED
        BY <2>1, SaysError
<1>3. QED
    BY <1>1, <1>2

LEMMA UnarySays ==
    ASSUME NEW ops \in Seq(Operand), NEW t
    PROVE  /\ \A o \in Unary : Says(o, ops, t, enc_unary(ops, UnaryExt[o]))
           /\ \A o \in Divide : Says(o, ops, t, enc_divide(ops, DivideExt[o]))
<1>1. Odd(247) /\ Odd(255)
    BY SMT DEF Odd, Ordinary
<1>2. ASSUME NEW o \in Unary PROVE Says(o, ops, t, enc_unary(ops, UnaryExt[o]))
    <2> DEFINE ext == UnaryExt[o]
               n == IF ext \in {0, 1} THEN 255 ELSE 247
    <2>1. Straight(o)
        BY CanonicalFact DEF Straight, Shift, Unary
    <2>2. ext \in 0 .. 7 /\ (\/ n = 247 /\ ext > 1 /\ o = Group3Name[ext + 1]
                             \/ n = 255 /\ ext <= 1 /\ o = Group5Name[ext + 1])
        <3>1. CASE o = "INC" BY <3>1 DEF UnaryExt, Group5Name
        <3>2. CASE o = "DEC" BY <3>2 DEF UnaryExt, Group5Name
        <3>3. CASE o = "NOT" BY <3>3 DEF UnaryExt, Group3Name
        <3>4. CASE o = "NEG" BY <3>4 DEF UnaryExt, Group3Name
        <3>5. QED
            BY <3>1, <3>2, <3>3, <3>4 DEF Unary
    <2>3. enc_unary(ops, ext) = OneRegister(ops, n, ext)
        BY DEF enc_unary
    <2>4. Odd(n)
        BY <1>1
    <2> HIDE DEF n, ext
    <2>5. Says(o, ops, t, OneRegister(ops, n, ext))
        BY <2>1, <2>2, <2>4, OneRegisterSays DEF Named
    <2>6. QED
        BY <2>3, <2>5 DEF ext
<1>3. ASSUME NEW o \in Divide PROVE Says(o, ops, t, enc_divide(ops, DivideExt[o]))
    <2> DEFINE ext == DivideExt[o]
               n == 247
    <2>1. Straight(o)
        BY CanonicalFact DEF Straight, Shift, Divide
    <2>2. ext \in 0 .. 7 /\ ext > 1 /\ o = Group3Name[ext + 1]
        <3>1. CASE o = "DIV" BY <3>1 DEF DivideExt, Group3Name
        <3>2. CASE o = "IDIV" BY <3>2 DEF DivideExt, Group3Name
        <3>3. QED
            BY <3>1, <3>2 DEF Divide
    <2>3. enc_divide(ops, ext) = OneRegister(ops, n, ext)
        BY DEF enc_divide
    <2>4. Odd(n) /\ n = 247
        BY <1>1
    <2> HIDE DEF n, ext
    <2>5. Says(o, ops, t, OneRegister(ops, n, ext))
        BY <2>1, <2>2, <2>4, OneRegisterSays DEF Named
    <2>6. QED
        BY <2>3, <2>5 DEF ext
<1>4. QED
    BY <1>2, <1>3

-----------------------------------------------------------------------------
(* Shifts *)

\* The opcode is that of a pair for this width; after ModRM stands a byte of x.
Counted(b, n, ext, width, v, x) ==
    LET f == Fields(b)
    IN  /\ ~f.two /\ f.opcode = ByWidth(n, width) /\ ByParity(f) = width
        /\ HasRm(b, f, width, ext, v, Low(x, 1))

LEMMA CountedFact ==
    ASSUME NEW width, NEW r, HasWidth(r, width), NEW n, Odd(n), NEW ext \in 0 .. 7,
           NEW x \in Number
    PROVE  Counted(NumberBytes(width, REG_INVALID, r, ByWidth(n, width), ext, x, 1), n, ext,
                   width, RegisterValue(width, r), x)
<1> DEFINE op == ByWidth(n, width)
           m == 1
           b == NumberBytes(width, REG_INVALID, r, op, ext, x, m)
           f == Fields(b)
           v == RegisterValue(width, r)
<1>1. Escaped(Single, op) /\ width \in {8, 16, 32, 64} /\ m \in 1 .. 8
    BY OddEscaped DEF HasWidth
<1> HIDE DEF op, m
<1>2. Started(f, width, REG_INVALID, r, Single, op) /\ HasRm(b, f, width, ext, v, Low(x, m))
    BY <1>1, NumberRm
<1> HIDE DEF b, f
<1>3. ~f.two /\ f.opcode = op /\ ByParity(f) = width
    BY <1>1, <1>2, OddParity DEF op
<1>4. Counted(b, n, ext, width, v, x)
    BY <1>2, <1>3, Zenon DEF Counted, f, op, m
<1>5. QED
    BY <1>4 DEF b, op, m

LEMMA CountedTells ==
    ASSUME NEW b, NEW ext \in 0 .. 7, NEW width, NEW v, NEW x \in Number,
           Counted(b, 193, ext, width, v, x)
    PROVE  Tells(b, ShiftName[ext + 1], <<v, Imm(x, 1)>>)
<1> DEFINE f == Fields(b)
           d == Is(ShiftName[ext + 1], <<v, Imm(x, 1)>>, Count(b) + 1)
<1>1. ~f.two /\ f.opcode \in {192, 193} /\ ByParity(f) = width
    BY DEF Counted, ByWidth
<1>2. HasRm(b, f, width, ext, v, Low(x, 1))
    BY Zenon DEF Counted
<1> HIDE DEF f, d
<1>3. Extension(b, f) = ext
    BY <1>2 DEF HasRm
<1>4. d = RmShift(b, f, ShiftName[ext + 1], width)
    BY <1>2, RmShiftRead DEF d, Imm
<1>5. QED
    BY <1>1, <1>3, <1>4, MoreOneArms DEF f, d, Tells

LEMMA ShiftTable ==
    ASSUME NEW o \in Shift
    PROVE  ShiftExt[o] \in 0 .. 7 /\ ShiftName[ShiftExt[o] + 1] = o /\ Canonical(o) = o
<1>1. Canonical(o) = o
    BY CanonicalFact DEF Shift
<1>2. ShiftExt[o] \in 0 .. 7 /\ ShiftName[ShiftExt[o] + 1] = o
    <2>1. CASE o = "SHL" BY <2>1 DEF ShiftExt, ShiftName
    <2>2. CASE o = "SHR" BY <2>2 DEF ShiftExt, ShiftName
    <2>3. CASE o = "SAR" BY <2>3 DEF ShiftExt, ShiftName
    <2>4. QED
        BY <2>1, <2>2, <2>3 DEF Shift
<1>3. QED
    BY <1>1, <1>2

LEMMA ShiftRight ==
    ASSUME NEW o \in Shift, NEW ops \in Seq(Operand), NEW t, NEW b,
           NEW width, HasWidth(ops[1].reg, width)
    PROVE  /\ Kinds(ops) = <<"REG", "IMM">>
                /\ Tells(b, o, <<RegisterValue(width, ops[1].reg), Imm(ops[2].imm, 1)>>)
              => Right(o, ops, t, b)
           /\ Kinds(ops) = <<"REG", "REG">>
                /\ Tells(b, o, <<RegisterValue(width, ops[1].reg), <<"reg", 8, 1>>>>)
              => Right(o, ops, t, b)
<1>0. Canonical(o) = o
    BY ShiftTable
<1>1. Register(ops[1]) = RegisterValue(width, ops[1].reg)
    BY DEF Register, Width, HasWidth
<1>2. ASSUME Kinds(ops) = <<"REG", "IMM">>
      PROVE  Denoted(o, ops, t) = <<Register(ops[1]), Imm(ops[2].imm, 1)>>
    <2>1. Denoted(o, ops, t) =
              <<Register(ops[1]), <<"imm", Low(ops[2].imm, ImmediateWidth(o, ops))>>>>
        BY <1>2, RegOtherDenoted, Zenon
    <2>2. ImmediateWidth(o, ops) = 1
        BY DomainFacts DEF ImmediateWidth
    <2>3. QED
        BY <2>1, <2>2 DEF Imm
<1>3. ASSUME Kinds(ops) = <<"REG", "REG">>
      PROVE  Denoted(o, ops, t) = <<Register(ops[1]), <<"reg", 8, 1>>>>
    <2>1. ops[1].kind = "REG" /\ ops[2].kind = "REG"
        BY <1>3, TwoKinds
    <2>2. Denotes(o, ops, t, 1) = Register(ops[1])
        BY <2>1, RegisterDenotes, 1 # 2 DEF Register
    <2>3. Denotes(o, ops, t, 2) = <<"reg", 8, 1>>
        BY <2>1, CountDenotes
    <2>4. QED
        BY <1>3, <2>2, <2>3, TwoDenoted
<1>4. QED
    BY <1>0, <1>1, <1>2, <1>3, Zenon DEF Right

LEMMA OneCount == Low(Int64(1), 1) = <<1>>
<1> DEFINE v == Int64(1)
           u == Low(v, 1)
<1>1. v[1] = 1 /\ v \in Number
    BY SMT DEF Int64, Number
<1> HIDE DEF v
<1>2. /\ u \in [1 .. 1 -> Int] /\ Len(u) = 1
      /\ \A k \in 1 .. 1 : u[k] = v[k]
    BY <1>1, LowValues, 1 \in 1 .. 8
<1>2a. u[1] = 1 /\ Len(u) = 1 /\ u \in [1 .. 1 -> Int]
    BY <1>1, <1>2, 1 \in 1 .. 1
<1> HIDE DEF u
<1>3. u \in Seq(Int) /\ Len(u) = 1 /\ u[1] = 1
    BY <1>2a, SeqDef, 1 \in Nat
<1>4. u = <<1>>
    BY <1>3
<1>5. QED
    BY <1>4 DEF u, v

LEMMA ShiftImmediateSays ==
    ASSUME NEW o \in Shift, NEW ops \in Seq(Operand), NEW t, Kinds(ops) = <<"REG", "IMM">>
    PROVE  Says(o, ops, t, enc_shift(ops, ShiftExt[o]))
<1> DEFINE ext == ShiftExt[o]
           r == ops[1].reg
           x == ops[2].imm
           w == reg_width_bits(r)
           e == enc_shift(ops, ext)
           fine == valid_integer_width(w) /\ immediate_fits_u8(x)
           one == x = Int64(1)
           short == LoneBytes(w, r, 209, ext)
           long == NumberBytes(w, REG_INVALID, r, ByWidth(193, w), ext, x, 1)
           v == RegisterValue(w, r)
<1>1. x \in Number
    BY TwoKinds, OperandFact
<1>2. ext \in 0 .. 7 /\ ShiftName[ext + 1] = o
    BY ShiftTable
<1>3. /\ fine /\ one => e.bytes = short
      /\ fine /\ ~one => e.bytes = long
      /\ ~fine => e = make_error
    <2> DEFINE b(op) == Start(w, REG_INVALID, r, <<ByWidth(op, w)>>) \o RegRm(ext, r)
               c == IF one THEN b(209) ELSE b(193) \o Low(x, 1)
    <2>1. e = EncodeIf(fine, c)
        BY DEF enc_shift
    <2>2. short = from_buf(b(209)).bytes /\ long = from_buf(b(193) \o Low(x, 1)).bytes
        BY DEF LoneBytes, NumberBytes
    <2> HIDE DEF e, fine, b, w, one, short, long
    <2>3. QED
        BY <2>1, <2>2 DEF EncodeIf
<1>4. fine => HasWidth(r, w)
    BY DEF HasWidth, valid_integer_width
<1>5. one => Imm(x, 1) = <<"imm", <<1>>>>
    BY OneCount DEF Imm
<1>6. Odd(193) /\ Odd(209)
    BY SMT DEF Odd, Ordinary
<1> HIDE DEF x, w, ext, one, fine, e, r, v, short, long
<1>7. ASSUME NEW c, HasWidth(r, w), Tells(c, o, <<v, Imm(x, 1)>>) PROVE Right(o, ops, t, c)
    BY <1>7, ShiftRight, Zenon DEF r, x, v
<1>8. CASE fine /\ one
    <2>1. Lone(short, 209, ext, w, v)
        BY <1>2, <1>4, <1>6, <1>8, LoneFact DEF short, v
    <2>2. Tells(short, o, <<v, <<"imm", <<1>>>>>>)
        BY <1>2, <2>1, LoneShiftTells
    <2>3. Tells(short, o, <<v, Imm(x, 1)>>)
        BY <1>5, <1>8, <2>2
    <2>4. QED
        BY <1>3, <1>4, <1>7, <1>8, <2>3 DEF Says, e, ext
<1>9. CASE fine /\ ~one
    <2>1. Counted(long, 193, ext, w, v, x)
        BY <1>1, <1>2, <1>4, <1>6, <1>9, CountedFact DEF long, v
    <2>2. Tells(long, o, <<v, Imm(x, 1)>>)
        BY <1>1, <1>2, <2>1, CountedTells
    <2>3. QED
        BY <1>3, <1>4, <1>7, <1>9, <2>2 DEF Says, e, ext
<1>10. CASE ~fine
    BY <1>3, <1>10, SaysError DEF e, ext
<1>11. QED
    BY <1>8, <1>9, <1>10

LEMMA ShiftSays ==
    ASSUME NEW o \in Shift, NEW ops \in Seq(Operand), NEW t
    PROVE  Says(o, ops, t, enc_shift(ops, ShiftExt[o]))
<1> DEFINE ext == ShiftExt[o]
           r == ops[1].reg
           w == reg_width_bits(r)
           e == enc_shift(ops, ext)
<1>1. CASE Kinds(ops) = <<"REG", "IMM">>
    BY <1>1, ShiftImmediateSays
<1>2. CASE Kinds(ops) = <<"REG", "REG">>
    <2> DEFINE fine == valid_integer_width(w) /\ ops[2].reg \in {REG_CL, REG_RCX}
               code == Start(w, REG_INVALID, r, <<ByWidth(211, w)>>) \o RegRm(ext, r)
               b == LoneBytes(w, r, 211, ext)
               v == RegisterValue(w, r)
    <2>1. e = EncodeIf(fine, code)
        BY <1>2 DEF enc_shift
    <2>2. ext \in 0 .. 7 /\ ShiftName[ext + 1] = o
        BY ShiftTable
    <2>3. Odd(211)
        BY SMT DEF Odd, Ordinary
    <2>4. from_buf(code).bytes = b
        BY DEF LoneBytes
    <2>5. ASSUME fine PROVE Right(o, ops, t, b)
        <3>1. HasWidth(r, w)
            BY <2>5 DEF HasWidth, valid_integer_width
        <3> HIDE DEF r, w, ext, b, v
        <3>2. Lone(b, 211, ext, w, v)
            BY <2>2, <2>3, <3>1, LoneFact DEF b, v
        <3>3. Tells(b, o, <<v, <<"reg", 8, 1>>>>)
            BY <2>2, <3>2, LoneShiftTells
        <3>4. QED
            BY <1>2, <3>1, <3>3, ShiftRight, Zenon DEF r, v
    <2> HIDE DEF code, fine, b, e
    <2>6. Says(o, ops, t, e)
        BY <2>1, <2>4, <2>5, SaysIf
    <2>7. QED
        BY <2>6 DEF e, ext
<1>3. CASE Kinds(ops) \notin {<<"REG", "IMM">>, <<"REG", "REG">>}
    <2>1. e = make_error
        BY <1>3 DEF enc_shift
    <2>2. QED
        BY <2>1, SaysError
<1>4. QED
    BY <1>1, <1>2, <1>3

-----------------------------------------------------------------------------
(* Forms with neither prefix nor REX.W: push, pop, branches, int and the   *)
(* fixed ones                                                              *)

BareBytes(reg, rm, two, op, t) ==
    from_buf(Rex(Single, reg, rm, Single) \o Opcode(two, op) \o t).bytes

Bare(f, reg, rm, two, op) == f.two = two /\ f.opcode = op /\ Placed(f, reg, rm)

LEMMA BareCode ==
    ASSUME NEW reg, NEW rm, NEW two, NEW op, Escaped(two, op), NEW t \in Bytes, Count(t) <= 11
    PROVE  LET b == BareBytes(reg, rm, two, op, t) IN
           Bare(Fields(b), reg, rm, two, op) /\ Shaped(b, Fields(b), t)
<1> DEFINE pre == <<>>
           rex == Rex(Single, reg, rm, Single)
           code == Opcode(two, op)
           b == from_buf(Opening(pre, Single, reg, rm, Single, code) \o t).bytes
<1>1. pre \in Prefixes /\ Single \in BOOLEAN
    BY DEF Prefixes, Single
<1>2. rex \in Bytes
    BY RexFact
<1>3. Opening(pre, Single, reg, rm, Single, code) = rex \o code
    <2>1. Opening(pre, Single, reg, rm, Single, code) = <<>> \o rex \o code
        BY DEF Opening
    <2> HIDE DEF rex
    <2>2. <<>> \o rex = rex
        BY <1>2, ConcatEmptySeq DEF Bytes
    <2>3. QED
        BY <2>1, <2>2
<1> HIDE DEF pre
<1>4. Opened(Fields(b), pre, Single, reg, rm, Single, two, op) /\ Shaped(b, Fields(b), t)
    BY <1>1, EmittedRead
<1> HIDE DEF b
<1>5. Bare(Fields(b), reg, rm, two, op)
    BY <1>4 DEF Opened, Bare
<1>6. BareBytes(reg, rm, two, op, t) = b
    BY <1>3 DEF BareBytes, b
<1>7. QED
    BY <1>4, <1>5, <1>6

\* An opcode and what follows it, nothing before it.
AloneBytes(two, op, t) == from_buf(Opcode(two, op) \o t).bytes
Alone(f, two, op) == f.two = two /\ f.opcode = op /\ f.modrm \in Int

LEMMA AloneCode ==
    ASSUME NEW two, NEW op, Escaped(two, op), NEW t \in Bytes, Count(t) <= 11
    PROVE  LET b == AloneBytes(two, op, t) IN
           Alone(Fields(b), two, op) /\ Shaped(b, Fields(b), t)
<1> DEFINE r == REG_INVALID
           b == BareBytes(r, r, two, op, t)
           code == Opcode(two, op)
<1>1. code \in Bytes
    BY OpcodeBytes
<1>2. Rex(Single, r, r, Single) = <<>>
    BY NoRegister DEF Rex, Single
<1> HIDE DEF r
<1>3. Bare(Fields(b), r, r, two, op) /\ Shaped(b, Fields(b), t)
    BY BareCode
<1> HIDE DEF code
<1>4. <<>> \o code = code
    BY <1>1, ConcatEmptySeq DEF Bytes
<1>5. AloneBytes(two, op, t) = b
    BY <1>2, <1>4 DEF AloneBytes, BareBytes, code
<1> HIDE DEF b
<1>6. Alone(Fields(b), two, op)
    BY <1>3 DEF Bare, Placed, Alone
<1>7. QED
    BY <1>3, <1>5, <1>6

LEMMA KnownWide == ASSUME NEW f, NEW r, NEW width, width # 8 PROVE Known(f, width, r)
    BY DEF Known, NewByte

LEMMA RegisterRange == ASSUME NEW r, NEW width, HasWidth(r, width) PROVE r \in 0 .. 79
    BY WidthRange DEF HasWidth

PushOrPop(n) == n \in {80, 88}

\* The opcode holds the register, and nothing follows it.
Held(b, f, n, width, r) ==
    /\ \A name : LowOnly(b, f, name, width) = Is(name, <<RegisterValue(width, r)>>, Count(b) + 1)
    /\ f.opcode \in n .. n + 7 /\ ~f.two

LEMMA LowForm ==
    ASSUME NEW b, NEW f, NEW n, PushOrPop(n), NEW r,
           NEW width, HasWidth(r, width), Known(f, width, r),
           Bare(f, REG_INVALID, r, Single, n + reg_field(r)), Shaped(b, f, <<>>)
    PROVE  Held(b, f, n, width, r)
<1>1. r \in 0 .. 79
    BY RegisterRange
<1>2. f.opcode = n + reg_field(r) /\ f.b = 8 * Hi(r) /\ f.modrm \in Int /\ ~f.two
    BY DEF Bare, Placed, Single
<1>3. InOpcode(f, n, r)
    BY <1>1, <1>2 DEF InOpcode, PushOrPop
<1>4. ASSUME NEW name
      PROVE  LowOnly(b, f, name, width) = Is(name, <<RegisterValue(width, r)>>, Count(b) + 1)
    BY <1>2, <1>3, LowOnlyRead
<1>5. f.opcode \in n .. n + 7
    BY <1>3, LowRead
<1>6. QED
    BY <1>2, <1>4, <1>5, Zenon DEF Held

\* push and pop.
LEMMA PushPopSays ==
    ASSUME NEW o, NEW n, \/ o = "PUSH" /\ n = 80
                         \/ o = "POP" /\ n = 88,
           NEW ops \in Seq(Operand), NEW t
    PROVE  Says(o, ops, t, PushPop(ops, n))
<1> DEFINE e == PushPop(ops, n)
           r == ops[1].reg
           op == n + reg_field(r)
           ok == Width(ops[1]) = 64
           code == Rex(FALSE, REG_INVALID, r, FALSE) \o <<op>>
           u == <<>>
           b == BareBytes(REG_INVALID, r, Single, op, u)
           f == Fields(b)
           w == 64
           d == Is(o, <<RegisterValue(w, r)>>, Count(b) + 1)
<1>1. Straight(o)
    BY CanonicalFact DEF Straight, Shift
<1>2. PushOrPop(n) /\ n \in {80, 88, 176, 184}
    BY DEF PushOrPop
<1>3. CASE Kinds(ops) = <<"REG">>
    <2>1. e = EncodeIf(ok, code)
        BY <1>3 DEF PushPop
    <2>2. from_buf(code).bytes = b
        <3> DEFINE rex == Rex(FALSE, REG_INVALID, r, FALSE)
        <3>1. rex \in Bytes
            BY RexFact
        <3>2. op \in Int
            <4>1. reg_field(r) \in 0 .. 7
                BY FieldFact
            <4>2. QED
                BY <1>2, <4>1
        <3>3. Rex(Single, REG_INVALID, r, Single) = rex /\ Opcode(Single, op) = <<op>>
            BY DEF Single, Opcode
        <3> HIDE DEF rex, op
        <3>4. rex \o <<op>> \in Bytes
            BY <3>1, <3>2, OneByte, JoinFact
        <3> DEFINE c == rex \o <<op>>
        <3> HIDE DEF c
        <3>5. c \o <<>> = c
            BY <3>4, ConcatEmptySeq DEF c, Bytes
        <3>6. QED
            BY <3>3, <3>5 DEF BareBytes, c, rex
    <2>3. ASSUME ok PROVE Right(o, ops, t, b)
        <3>1. HasWidth(r, w) /\ r \in 0 .. 79
            BY <2>3, WidthRange DEF HasWidth, Width
        <3>2. Escaped(Single, op)
            BY <1>2, FieldEscaped
        <3>3. u \in Bytes /\ Count(u) <= 11
            BY NoBytes
        <3> HIDE DEF r, op, u
        <3>4. Bare(f, REG_INVALID, r, Single, op) /\ Shaped(b, f, u)
            BY <3>2, <3>3, BareCode
        <3> HIDE DEF b, f
        <3>7. Shaped(b, f, <<>>)
            BY <3>4 DEF u
        <3>8. w = 64
            OBVIOUS
        <3> HIDE DEF w
        <3>9. LowOnly(b, f, o, w) = d /\ f.opcode \in n .. n + 7 /\ ~f.two
            <4>1. Bare(f, REG_INVALID, r, Single, n + reg_field(r))
                BY <3>4 DEF op
            <4>2. Known(f, w, r)
                BY <3>8, KnownWide
            <4>3. Held(b, f, n, w, r)
                BY <1>2, <3>1, <3>7, <4>1, <4>2, LowForm, Zenon
            <4>4. QED
                BY <4>3, Zenon DEF Held, d
        <3> HIDE DEF d
        <3>10. Reads(b, d)
            <4>1. CASE o = "PUSH" /\ n = 80
                <5>1. f.opcode \in 80 .. 87 /\ d = LowOnly(b, f, "PUSH", 64)
                    BY <3>8, <3>9, <4>1
                <5>2. QED
                    BY <3>9, <5>1, OneArms DEF f
            <4>2. CASE o = "POP" /\ n = 88
                <5>1. f.opcode \in 88 .. 95 /\ d = LowOnly(b, f, "POP", 64)
                    BY <3>8, <3>9, <4>2
                <5>2. QED
                    BY <3>9, <5>1, OneArms DEF f
            <4>3. QED
                BY <4>1, <4>2
        <3>11. Tells(b, o, <<RegisterValue(w, r)>>)
            BY <3>10 DEF Tells, d
        <3>12. QED
            BY <1>1, <1>3, <3>1, <3>11, RegRight, Zenon DEF r
    <2> HIDE DEF code, ok, b, e
    <2>4. Says(o, ops, t, e)
        BY <2>1, <2>2, <2>3, SaysIf
    <2>5. QED
        BY <2>4 DEF e
<1>4. CASE Kinds(ops) # <<"REG">>
    <2>1. e = make_error
        BY <1>4 DEF PushPop
    <2>2. QED
        BY <2>1, SaysError
<1>5. QED
    BY <1>3, <1>4

\* jmp and call through a register.
LEMMA IndirectTells ==
    ASSUME NEW b, NEW f, f = Fields(b), NEW reg, NEW rm, Bare(f, reg, rm, Single, 255),
           NEW ext \in 2 .. 7, NEW v, NEW width, width = 64, HasRm(b, f, width, ext, v, <<>>)
    PROVE  Tells(b, Group5Name[ext + 1], <<v>>)
<1> DEFINE d == Is(Group5Name[ext + 1], <<v>>, Count(b) + 1)
<1>1. ~f.two /\ f.opcode = 255
    BY DEF Bare, Single
<1>2. Extension(b, f) = ext /\ ext > 1 /\ Last(b, f, width, v)
    BY RmAlone DEF HasRm
<1>3. d = RmOnly(b, f, Group5Name[ext + 1], width)
    BY <1>2, Zenon DEF Last, RmOnly
<1> HIDE DEF d
<1>4. d = RmOnly(b, f, Group5Name[Extension(b, f) + 1], 64)
    BY <1>2, <1>3
<1>5. QED
    BY <1>1, <1>2, <1>4, MoreOneArms DEF d, Tells

IndirectBytes(r, ext) ==
    from_buf(Rex(FALSE, REG_INVALID, r, FALSE) \o <<255>> \o RegRm(ext, r)).bytes
Width64(width) == width = 64

LEMMA IndirectRead ==
    ASSUME NEW r, NEW width, HasWidth(r, width), Width64(width), NEW ext \in 2 .. 7
    PROVE  Tells(IndirectBytes(r, ext), Group5Name[ext + 1], <<RegisterValue(width, r)>>)
<1> DEFINE op == 255
           t == RegRm(ext, r)
           b == BareBytes(REG_INVALID, r, Single, op, t)
           f == Fields(b)
           v == RegisterValue(width, r)
<1>1. b = IndirectBytes(r, ext)
    BY DEF BareBytes, Single, Opcode, IndirectBytes
<1>0. width = 64
    BY DEF Width64
<1>2. Escaped(Single, op) /\ t \in Bytes /\ Count(t) <= 11
    <2>1. ext \in Int
        OBVIOUS
    <2>2. t \in Bytes /\ Count(t) = 1
        BY <2>1, RegRmFact
    <2>3. Escaped(Single, op)
        BY DEF Escaped, Single, Ordinary
    <2> HIDE DEF t
    <2>4. QED
        BY <2>2, <2>3
<1> HIDE DEF op
<1>3. Bare(f, REG_INVALID, r, Single, op) /\ Shaped(b, f, t)
    <2> HIDE DEF t
    <2>1. QED
        BY <1>2, BareCode
<1>4. Placed(f, REG_INVALID, r) /\ Known(f, width, r) /\ r \in 0 .. 79 /\ ext \in 0 .. 7
    <2>1. Placed(f, REG_INVALID, r)
        BY <1>3 DEF Bare
    <2> HIDE DEF f
    <2>2. QED
        BY <1>0, <2>1, KnownWide, RegisterRange
<1> HIDE DEF b, f
<1>5. Shaped(b, f, RegRm(ext, r) \o <<>>) /\ <<>> \in Bytes
    BY <1>3, ShapedWhole, NoBytes
<1>6. HasRm(b, f, width, ext, v, <<>>)
    BY <1>4, <1>5, RegisterRm, Zenon
<1> HIDE DEF v
<1>7. Tells(b, Group5Name[ext + 1], <<v>>)
    BY <1>0, <1>3, <1>6, IndirectTells DEF f, op
<1>8. QED
    BY <1>1, <1>7 DEF v

\* A branch to a label.
Relative(b, two, op, x) ==
    LET f == Fields(b)
    IN  /\ f.two = two /\ f.opcode = op
        /\ \A name : ImmOnly(b, f, name, 4, 8) = Is(name, <<Imm(x, 8)>>, Count(b) + 1)

LEMMA RelativeFact ==
    ASSUME NEW two, NEW op, Escaped(two, op), NEW x \in Number, immediate_fits_i32(x)
    PROVE  Relative(AloneBytes(two, op, Low(x, 4)), two, op, x)
<1> DEFINE n == 4
           to == 8
           t == Low(x, n)
           b == AloneBytes(two, op, t)
           f == Fields(b)
<1>1. t \in Bytes /\ Count(t) <= 11 /\ n \in 1 .. to /\ to \in 1 .. 8 /\ FitsSigned(x, n)
    BY LowFact DEF immediate_fits_i32
<1> HIDE DEF n, to
<1>2. Alone(f, two, op) /\ Shaped(b, f, t)
    <2> HIDE DEF t
    <2>1. QED
        BY <1>1, AloneCode
<1> HIDE DEF b, f
<1>3. f.modrm \in Int /\ f.two = two /\ f.opcode = op
    BY <1>2 DEF Alone
<1>4. ASSUME NEW name PROVE ImmOnly(b, f, name, n, to) = Is(name, <<Imm(x, to)>>, Count(b) + 1)
    BY <1>1, <1>2, <1>3, ImmOnlyRead DEF Imm
<1>5. Relative(b, two, op, x)
    BY <1>3, <1>4, Zenon DEF Relative, n, to, f
<1>6. QED
    BY <1>5 DEF b, t, n

LEMMA RelativeTells ==
    ASSUME NEW b, NEW x, NEW op
    PROVE  /\ Relative(b, Single, 232, x) => Tells(b, "CALL", <<Imm(x, 8)>>)
           /\ Relative(b, Single, 233, x) => Tells(b, "JMP", <<Imm(x, 8)>>)
           /\ op \in 128 .. 143 /\ Relative(b, Double, op, x)
              => Tells(b, JccName[op - 127], <<Imm(x, 8)>>)
<1> DEFINE f == Fields(b)
           d(name) == Is(name, <<Imm(x, 8)>>, Count(b) + 1)
<1>1. ASSUME NEW two, NEW n, Relative(b, two, n, x)
      PROVE  f.two = two /\ f.opcode = n /\ \A name : d(name) = ImmOnly(b, f, name, 4, 8)
    BY <1>1, Zenon DEF Relative
<1> HIDE DEF f, d
<1>2. ASSUME Relative(b, Single, 232, x) PROVE Reads(b, d("CALL"))
    <2>1. ~f.two /\ f.opcode = 232 /\ d("CALL") = ImmOnly(b, f, "CALL", 4, 8)
        BY <1>1, <1>2 DEF Single
    <2>2. QED
        BY <2>1, MoreOneArms DEF f
<1>3. ASSUME Relative(b, Single, 233, x) PROVE Reads(b, d("JMP"))
    <2>1. ~f.two /\ f.opcode = 233 /\ d("JMP") = ImmOnly(b, f, "JMP", 4, 8)
        BY <1>1, <1>3 DEF Single
    <2>2. QED
        BY <2>1, MoreOneArms DEF f
<1>4. ASSUME op \in 128 .. 143, Relative(b, Double, op, x) PROVE Reads(b, d(JccName[op - 127]))
    <2>1. f.two /\ f.opcode = op /\ d(JccName[op - 127]) = ImmOnly(b, f, JccName[op - 127], 4, 8)
        BY <1>1, <1>4 DEF Double
    <2>2. f.opcode \in 128 .. 143
          /\ d(JccName[op - 127]) = ImmOnly(b, f, JccName[f.opcode - 127], 4, 8)
        BY <1>4, <2>1
    <2>3. QED
        BY <2>1, <2>2, TwoArms DEF f
<1>5. QED
    BY <1>2, <1>3, <1>4, Zenon DEF d, Tells

LEMMA LabelRight ==
    ASSUME NEW o, NEW ops \in Seq(Operand), NEW t \in Number, NEW b, o # "MOV",
           Kinds(ops) = <<"LABEL">>, Tells(b, Canonical(o), <<Imm(t, 8)>>)
    PROVE  Right(o, ops, t, b)
<1>1. ops[1].kind = "LABEL"
    BY OneKind
<1>2. Denotes(o, ops, t, 1) = <<"imm", t>>
    BY <1>1, OthersDenote
<1>3. Imm(t, 8) = <<"imm", t>>
    BY LowAll DEF Imm
<1>4. Denoted(o, ops, t) = <<Imm(t, 8)>>
    BY <1>2, <1>3, OneDenoted
<1>5. QED
    BY <1>4, Zenon DEF Right

LEMMA JmpCallSays ==
    ASSUME NEW o, NEW ext, NEW n, \/ o = "JMP" /\ ext = 4 /\ n = 233
                                  \/ o = "CALL" /\ ext = 2 /\ n = 232,
           NEW ops \in Seq(Operand), NEW t \in Number
    PROVE  Says(o, ops, t, JmpCall(ops, ext, n, t))
<1> DEFINE e == JmpCall(ops, ext, n, t)
           r == ops[1].reg
           w == 64
<1>1. Straight(o) /\ Canonical(o) = o /\ o # "MOV"
    BY CanonicalFact DEF Straight, Shift
<1>2. ext \in 2 .. 7 /\ Group5Name[ext + 1] = o
    BY DEF Group5Name
<1>3. CASE Kinds(ops) = <<"REG">>
    <2> DEFINE ok == Width(ops[1]) = w
               code == Rex(FALSE, REG_INVALID, r, FALSE) \o <<255>> \o RegRm(ext, r)
               b == from_buf(code).bytes
    <2>1. e = EncodeIf(ok, code)
        BY <1>3 DEF JmpCall
    <2>2. ASSUME ok PROVE Right(o, ops, t, b)
        <3>1. HasWidth(r, w) /\ Width64(w)
            BY <2>2 DEF HasWidth, Width, Width64
        <3>2. b = IndirectBytes(r, ext)
            BY DEF IndirectBytes
        <3> HIDE DEF w, r, b
        <3>3. Tells(IndirectBytes(r, ext), Group5Name[ext + 1], <<RegisterValue(w, r)>>)
            BY <1>2, <3>1, IndirectRead
        <3>4. Tells(b, o, <<RegisterValue(w, r)>>)
            BY <1>2, <3>2, <3>3
        <3>5. QED
            BY <1>1, <1>3, <3>1, <3>4, RegRight, Zenon DEF r
    <2> HIDE DEF code, ok, e
    <2>3. Says(o, ops, t, e)
        BY <2>1, <2>2, SaysIf
    <2>4. QED
        BY <2>3 DEF e
<1>4. CASE Kinds(ops) = <<"LABEL">>
    <2> DEFINE ok == immediate_fits_i32(t)
               code == <<n>> \o Low(t, 4)
               b == AloneBytes(Single, n, Low(t, 4))
    <2>1. e = EncodeIf(ok, code)
        BY <1>4 DEF JmpCall
    <2>2. from_buf(code).bytes = b
        BY DEF AloneBytes, Opcode, Single
    <2>3. Escaped(Single, n)
        <3>1. Escaped(Single, 232) /\ Escaped(Single, 233)
            BY DEF Escaped, Single, Ordinary
        <3>2. CASE n = 232 BY <3>1, <3>2
        <3>3. CASE n = 233 BY <3>1, <3>3
        <3>4. QED
            BY <3>2, <3>3
    <2>4. ASSUME ok PROVE Right(o, ops, t, b)
        <3>1. Relative(b, Single, n, t)
            BY <2>3, <2>4, RelativeFact
        <3> HIDE DEF b
        <3>2. Tells(b, o, <<Imm(t, 8)>>)
            BY <3>1, RelativeTells
        <3>3. QED
            BY <1>1, <1>4, <3>2, LabelRight
    <2> HIDE DEF code, ok, e, b
    <2>5. Says(o, ops, t, e)
        BY <2>1, <2>2, <2>4, SaysIf
    <2>6. QED
        BY <2>5 DEF e
<1>5. CASE Kinds(ops) \notin {<<"REG">>, <<"LABEL">>}
    <2>1. e = make_error
        BY <1>5 DEF JmpCall
    <2>2. QED
        BY <2>1, SaysError
<1>6. QED
    BY <1>3, <1>4, <1>5

LEMMA JccTable ==
    ASSUME NEW o \in Jcc
    PROVE  JccOp[o] \in 128 .. 143 /\ JccName[JccOp[o] - 127] = Canonical(o) /\ o # "MOV"
<1>1. Canonical("JZ") = "JE" /\ Canonical("JNZ") = "JNE"
    BY Zenon DEF Canonical
<1>2. o # "JZ" /\ o # "JNZ" => Canonical(o) = o
    BY CanonicalFact
<1>3. CASE o = "JE" BY <1>2, <1>3 DEF JccOp, JccName
<1>4. CASE o = "JNE" BY <1>2, <1>4 DEF JccOp, JccName
<1>5. CASE o = "JG" BY <1>2, <1>5 DEF JccOp, JccName
<1>6. CASE o = "JGE" BY <1>2, <1>6 DEF JccOp, JccName
<1>7. CASE o = "JL" BY <1>2, <1>7 DEF JccOp, JccName
<1>8. CASE o = "JLE" BY <1>2, <1>8 DEF JccOp, JccName
<1>9. CASE o = "JZ" BY <1>1, <1>9 DEF JccOp, JccName
<1>10. CASE o = "JNZ" BY <1>1, <1>10 DEF JccOp, JccName
<1>11. CASE o = "JS" BY <1>2, <1>11 DEF JccOp, JccName
<1>12. CASE o = "JNS" BY <1>2, <1>12 DEF JccOp, JccName
<1>13. QED
    BY <1>3, <1>4, <1>5, <1>6, <1>7, <1>8, <1>9, <1>10, <1>11, <1>12 DEF Jcc

LEMMA JccSays ==
    ASSUME NEW o \in Jcc, NEW ops \in Seq(Operand), NEW t \in Number
    PROVE  Says(o, ops, t, enc_jcc(ops, t, JccOp[o]))
<1> DEFINE n == JccOp[o]
           e == enc_jcc(ops, t, n)
           ok == Kinds(ops) = <<"LABEL">> /\ immediate_fits_i32(t)
           code == <<15, n>> \o Low(t, 4)
           b == AloneBytes(Double, n, Low(t, 4))
<1>1. e = EncodeIf(ok, code)
    BY DEF enc_jcc
<1>2. n \in 128 .. 143 /\ JccName[n - 127] = Canonical(o) /\ o # "MOV"
    BY JccTable
<1> HIDE DEF n, e
<1>3. from_buf(code).bytes = b
    BY DEF AloneBytes, Opcode, Double
<1>4. Escaped(Double, n)
    BY <1>2 DEF Escaped, Double
<1>5. ASSUME ok PROVE Right(o, ops, t, b)
    <2>1. Relative(b, Double, n, t)
        BY <1>4, <1>5, RelativeFact
    <2> HIDE DEF b
    <2>2. Tells(b, Canonical(o), <<Imm(t, 8)>>)
        BY <1>2, <2>1, RelativeTells
    <2>3. QED
        BY <1>2, <1>5, <2>2, LabelRight
<1> HIDE DEF code, ok, b
<1>6. Says(o, ops, t, e)
    BY <1>1, <1>3, <1>5, SaysIf
<1>7. QED
    BY <1>6 DEF e, n

-----------------------------------------------------------------------------
(* int, cqo and the instructions without operands *)

LEMMA ByteFact ==
    ASSUME NEW x \in Number
    PROVE  LET b == AloneBytes(Single, 205, Low(x, 1)) IN Tells(b, "INT", <<Imm(x, 1)>>)
<1> DEFINE n == 1
           to == 1
           op == 205
           t == Low(x, n)
           b == AloneBytes(Single, op, t)
           f == Fields(b)
           d == Is("INT", <<Imm(x, to)>>, Count(b) + 1)
<1>1. t \in Bytes /\ Count(t) <= 11 /\ n \in 1 .. to /\ to \in 1 .. 8 /\ n = to
    BY LowFact
<1>2. Escaped(Single, op)
    BY DEF Escaped, Single, Ordinary
<1> HIDE DEF n, to, op
<1>3. Alone(f, Single, op) /\ Shaped(b, f, t)
    <2> HIDE DEF t
    <2>1. QED
        BY <1>1, <1>2, AloneCode
<1> HIDE DEF b, f
<1>4. f.modrm \in Int /\ ~f.two /\ f.opcode = op
    BY <1>3 DEF Alone, Single
<1>5. ImmOnly(b, f, "INT", n, to) = d
    BY <1>1, <1>3, <1>4, ImmOnlyRead DEF Imm
<1> HIDE DEF d
<1>6. Reads(b, d)
    BY <1>4, <1>5, MoreOneArms DEF f, op, n, to
<1>7. QED
    BY <1>6 DEF Tells, d, b, t, op, n, to

LEMMA IntSays ==
    ASSUME NEW ops \in Seq(Operand), NEW t
    PROVE  Says("INT", ops, t, enc_int(ops))
<1> DEFINE e == enc_int(ops)
           x == ops[1].imm
           ok == immediate_fits_u8(x)
           code == <<205>> \o Low(x, 1)
           b == AloneBytes(Single, 205, Low(x, 1))
<1>1. CASE Kinds(ops) = <<"IMM">>
    <2>1. e = EncodeIf(ok, code)
        BY <1>1 DEF enc_int
    <2>2. from_buf(code).bytes = b
        BY DEF AloneBytes, Opcode, Single
    <2>3. x \in Number /\ ops[1].kind = "IMM"
        BY <1>1, OneKind, OperandFact
    <2>4. Right("INT", ops, t, b)
        <3>1. Tells(b, "INT", <<Imm(x, 1)>>)
            BY <2>3, ByteFact
        <3>2. Denoted("INT", ops, t) = <<Imm(x, 1)>>
            <4>1. Denotes("INT", ops, t, 1) = <<"imm", Low(x, ImmediateWidth("INT", ops))>>
                BY <2>3, OthersDenote
            <4>2. ImmediateWidth("INT", ops) = 1
                BY DEF ImmediateWidth
            <4>3. QED
                BY <1>1, <4>1, <4>2, OneDenoted DEF Imm
        <3>3. Canonical("INT") = "INT"
            BY CanonicalFact
        <3> HIDE DEF b
        <3>4. QED
            BY <3>1, <3>2, <3>3, Zenon DEF Right
    <2> HIDE DEF code, ok, e, b
    <2>5. Says("INT", ops, t, e)
        BY <2>1, <2>2, <2>4, SaysIf
    <2>6. QED
        BY <2>5 DEF e
<1>2. CASE Kinds(ops) # <<"IMM">>
    <2>1. e = make_error
        BY <1>2 DEF enc_int
    <2>2. QED
        BY <2>1, SaysError
<1>3. QED
    BY <1>1, <1>2

\* The opcode ends the instruction.
Ends(b, two, op) ==
    LET f == Fields(b) IN f.two = two /\ f.opcode = op /\ f.modrm = Count(b) + 1

LEMMA ShapedEnd ==
    ASSUME NEW b, NEW f, Shaped(b, f, <<>>), f.modrm \in Int
    PROVE  f.modrm = Count(b) + 1
<1>1. Count(<<>>) = 0 /\ Count(b) + 1 = f.modrm + Count(<<>>)
    BY NoBytes DEF Shaped
<1>2. QED
    BY <1>1

LEMMA EndsFact ==
    ASSUME NEW two, NEW op, Escaped(two, op)
    PROVE  Ends(from_buf(Opcode(two, op)).bytes, two, op)
<1> DEFINE t == <<>>
           code == Opcode(two, op)
           b == AloneBytes(two, op, t)
           f == Fields(b)
<1>1. t \in Bytes /\ Count(t) <= 11 /\ code \in Bytes
    BY NoBytes, OpcodeBytes
<1> HIDE DEF t
<1>2. Alone(f, two, op) /\ Shaped(b, f, t)
    BY <1>1, AloneCode
<1> HIDE DEF code
<1>3. code \o <<>> = code
    BY <1>1, ConcatEmptySeq DEF Bytes
<1>4. b = from_buf(code).bytes
    BY <1>3 DEF AloneBytes, t, code
<1> HIDE DEF b, f
<1>5. f.two = two /\ f.opcode = op /\ f.modrm = Count(b) + 1
    BY <1>2, ShapedEnd DEF Alone, t
<1>6. QED
    BY <1>4, <1>5 DEF Ends, f, code

LEMMA EndsTells ==
    ASSUME NEW b
    PROVE  /\ Ends(b, Single, 195) => Tells(b, "RET", <<>>)
           /\ Ends(b, Single, 144) => Tells(b, "NOP", <<>>)
           /\ Ends(b, Single, 244) => Tells(b, "HLT", <<>>)
           /\ Ends(b, Double, 49) => Tells(b, "RDTSC", <<>>)
           /\ Ends(b, Double, 5) => Tells(b, "SYSCALL", <<>>)
<1> DEFINE f == Fields(b)
           d(name) == Is(name, <<>>, Count(b) + 1)
<1>1. ASSUME NEW two, NEW op, Ends(b, two, op)
      PROVE  f.two = two /\ f.opcode = op /\ \A name : d(name) = Is(name, <<>>, f.modrm)
    BY <1>1 DEF Ends
<1> HIDE DEF f, d
<1>2. ASSUME Ends(b, Single, 195) PROVE Reads(b, d("RET"))
    <2>1. ~f.two /\ f.opcode = 195 /\ d("RET") = Is("RET", <<>>, f.modrm)
        BY <1>1, <1>2 DEF Single
    <2>2. QED
        BY <2>1, MoreOneArms DEF f
<1>3. ASSUME Ends(b, Single, 144) PROVE Reads(b, d("NOP"))
    <2>1. ~f.two /\ f.opcode = 144 /\ d("NOP") = Is("NOP", <<>>, f.modrm)
        BY <1>1, <1>3 DEF Single
    <2>2. QED
        BY <2>1, OneArms DEF f
<1>4. ASSUME Ends(b, Single, 244) PROVE Reads(b, d("HLT"))
    <2>1. ~f.two /\ f.opcode = 244 /\ d("HLT") = Is("HLT", <<>>, f.modrm)
        BY <1>1, <1>4 DEF Single
    <2>2. QED
        BY <2>1, MoreOneArms DEF f
<1>5. ASSUME Ends(b, Double, 49) PROVE Reads(b, d("RDTSC"))
    <2>1. f.two /\ f.opcode = 49 /\ d("RDTSC") = Is("RDTSC", <<>>, f.modrm)
        BY <1>1, <1>5 DEF Double
    <2>2. QED
        BY <2>1, TwoArms DEF f
<1>6. ASSUME Ends(b, Double, 5) PROVE Reads(b, d("SYSCALL"))
    <2>1. f.two /\ f.opcode = 5 /\ d("SYSCALL") = Is("SYSCALL", <<>>, f.modrm)
        BY <1>1, <1>6 DEF Double
    <2>2. QED
        BY <2>1, TwoArms DEF f
<1>7. QED
    BY <1>2, <1>3, <1>4, <1>5, <1>6, Zenon DEF d, Tells

LEMMA NothingRight ==
    ASSUME NEW o, o # "JZ", o # "JNZ", NEW t, NEW b, Tells(b, o, <<>>)
    PROVE  Right(o, <<>>, t, b)
    BY CanonicalFact, NoneDenoted, Zenon DEF Right

LEMMA FixedSays ==
    ASSUME NEW o \in Fixed, NEW t
    PROVE  Says(o, <<>>, t, from_buf(FixedBytes[o]))
<1> DEFINE e == from_buf(FixedBytes[o])
           b == e.bytes
<1>1. ASSUME NEW two, NEW op, Escaped(two, op), FixedBytes[o] = Opcode(two, op)
      PROVE  Ends(b, two, op)
    BY <1>1, EndsFact
<1> HIDE DEF e
<1>2. ASSUME o = "RET" PROVE Tells(b, o, <<>>)
    <2>1. Escaped(Single, 195) /\ FixedBytes[o] = Opcode(Single, 195)
        BY <1>2 DEF FixedBytes, Escaped, Single, Ordinary, Opcode
    <2>2. Ends(b, Single, 195)
        BY <1>1, <2>1
    <2>3. QED
        BY <1>2, <2>2, EndsTells
<1>3. ASSUME o = "NOP" PROVE Tells(b, o, <<>>)
    <2>1. Escaped(Single, 144) /\ FixedBytes[o] = Opcode(Single, 144)
        BY <1>3 DEF FixedBytes, Escaped, Single, Ordinary, Opcode
    <2>2. Ends(b, Single, 144)
        BY <1>1, <2>1
    <2>3. QED
        BY <1>3, <2>2, EndsTells
<1>4. ASSUME o = "HLT" PROVE Tells(b, o, <<>>)
    <2>1. Escaped(Single, 244) /\ FixedBytes[o] = Opcode(Single, 244)
        BY <1>4 DEF FixedBytes, Escaped, Single, Ordinary, Opcode
    <2>2. Ends(b, Single, 244)
        BY <1>1, <2>1
    <2>3. QED
        BY <1>4, <2>2, EndsTells
<1>5. ASSUME o = "RDTSC" PROVE Tells(b, o, <<>>)
    <2>1. Escaped(Double, 49) /\ FixedBytes[o] = Opcode(Double, 49)
        BY <1>5 DEF FixedBytes, Escaped, Double, Opcode
    <2>2. Ends(b, Double, 49)
        BY <1>1, <2>1
    <2>3. QED
        BY <1>5, <2>2, EndsTells
<1>6. ASSUME o = "SYSCALL" PROVE Tells(b, o, <<>>)
    <2>1. Escaped(Double, 5) /\ FixedBytes[o] = Opcode(Double, 5)
        BY <1>6 DEF FixedBytes, Escaped, Double, Opcode
    <2>2. Ends(b, Double, 5)
        BY <1>1, <2>1
    <2>3. QED
        BY <1>6, <2>2, EndsTells
<1>7. Tells(b, o, <<>>) /\ o # "JZ" /\ o # "JNZ"
    BY <1>2, <1>3, <1>4, <1>5, <1>6 DEF Fixed
<1>8. Right(o, <<>>, t, b)
    BY <1>7, NothingRight
<1>9. QED
    BY <1>8 DEF Says, e

LEMMA PairOfBytes ==
    ASSUME NEW x \in Int, NEW y \in Int
    PROVE  <<x>> \o <<y>> = <<x, y>>
<1> DEFINE a == <<x>>
           c == <<y>>
           s == a \o c
           p == <<x, y>>
<1>1. a \in Seq(Int) /\ c \in Seq(Int) /\ p \in Seq(Int) /\ Len(a) = 1 /\ Len(c) = 1
      /\ Len(p) = 2 /\ a[1] = x /\ c[1] = y /\ p[1] = x /\ p[2] = y
    OBVIOUS
<1> HIDE DEF a, c, p
<1>2. /\ s \in Seq(Int) /\ Len(s) = Len(a) + Len(c)
      /\ \A i \in 1 .. Len(a) + Len(c) : s[i] = IF i <= Len(a) THEN a[i] ELSE c[i - Len(a)]
    BY <1>1, ConcatProperties
<1> HIDE DEF s
<1>3. Len(s) = 2 /\ s[1] = x /\ s[2] = y
    BY <1>1, <1>2
<1>4. \A i \in 1 .. Len(s) : s[i] = p[i]
    BY <1>1, <1>3
<1>5. s = p
    BY <1>1, <1>2, <1>3, <1>4, SeqEqual
<1>6. QED
    BY <1>5 DEF s, a, c, p

LEMMA CqoSays ==
    ASSUME NEW ops, NEW t
    PROVE  Says("CQO", ops, t, enc_cqo(ops))
<1> DEFINE pre == <<>>
           w == Double
           r == REG_INVALID
           op == 153
           code == Opcode(Single, op)
           u == <<>>
           b == from_buf(Opening(pre, w, r, r, Single, code) \o u).bytes
           f == Fields(b)
           d == Is("CQO", <<>>, f.modrm)
<1>1. pre \in Prefixes /\ w \in BOOLEAN /\ Single \in BOOLEAN /\ Escaped(Single, op)
    BY DEF Prefixes, Single, Double, Escaped, Ordinary
<1>2. u \in Bytes /\ Count(u) <= 11
    BY NoBytes
<1>3. Opening(pre, w, r, r, Single, code) \o u = <<72, 153>>
    <2>1. Rex(w, r, r, Single) = <<72>>
        BY NoRegister DEF Rex, Double, Bit
    <2>2. Opening(pre, w, r, r, Single, code) = <<>> \o <<72>> \o <<153>>
        BY <2>1 DEF Opening, Opcode, Single
    <2>3. <<>> \o <<72>> \o <<153>> \o <<>> = <<72, 153>>
        <3>1. <<72>> \in Bytes /\ <<72, 153>> \in Bytes
            BY OneByte, TwoBytes
        <3>2. <<>> \o <<72>> = <<72>> /\ <<72, 153>> \o <<>> = <<72, 153>>
            BY <3>1, ConcatEmptySeq DEF Bytes
        <3>3. <<72>> \o <<153>> = <<72, 153>>
            BY PairOfBytes
        <3>4. QED
            BY <3>2, <3>3
    <2>4. QED
        BY <2>2, <2>3
<1>4. <<72, 153>> = Opening(pre, w, r, r, Single, code) \o u
    BY <1>3
<1> HIDE DEF pre, w, r, op, u
<1>5. Opened(f, pre, w, r, r, Single, Single, op) /\ Shaped(b, f, u)
    BY <1>1, <1>2, EmittedRead
<1>6. from_buf(<<72, 153>>).bytes = b
    BY <1>4
<1> HIDE DEF b, f
<1>7. ~f.two /\ f.opcode = 153 /\ f.w /\ f.modrm \in Int
    BY <1>5 DEF Opened, Placed, Single, Double, w, op
<1>8. f.modrm = Count(b) + 1
    BY <1>5, <1>7, ShapedEnd DEF u
<1>9. Reads(b, d)
    BY <1>7, OneArms DEF f
<1>10. Tells(b, "CQO", <<>>)
    BY <1>8, <1>9 DEF Tells
<1>11. Right("CQO", <<>>, t, b)
    BY <1>10, NothingRight
<1> DEFINE ok == ops = <<>>
           all == <<72, 153>>
<1>12. ok => Right("CQO", ops, t, from_buf(all).bytes)
    BY <1>6, <1>11
<1> HIDE DEF ok, all, b
<1>13. Says("CQO", ops, t, EncodeIf(ok, all))
    BY <1>12, SaysIf
<1>14. QED
    BY <1>13 DEF enc_cqo, ok, all

-----------------------------------------------------------------------------
(* movzx, movsx and movsxd: a source narrower than the destination *)

MovxBytes(d, reg, s, rm, two, op) ==
    from_buf(emit_width_prefix(d) \o Rex(d = 64, reg, rm, s = 8 /\ reg_requires_rex_byte(rm))
                \o Opcode(two, op) \o RegRm(reg_field(reg), rm)).bytes

\* ModRM holds the source v, of width s, and a wider destination.
Extended(b, two, op, d, s, reg, v) ==
    LET f == Fields(b)
    IN  f.two = two /\ f.opcode = op /\ Wide(f) = d /\ RegAndRm(b, f, s, d, reg, v)

LEMMA ExtendedFact ==
    ASSUME NEW d, Wider(d), NEW reg, HasWidth(reg, d), NEW s, NEW rm, HasWidth(rm, s),
           NEW two, NEW op, Escaped(two, op)
    PROVE  Extended(MovxBytes(d, reg, s, rm, two, op), two, op, d, s, reg, RegisterValue(s, rm))
<1> DEFINE pre == emit_width_prefix(d)
           w == d = 64
           force == s = 8 /\ reg_requires_rex_byte(rm)
           ext == reg_field(reg)
           u == RegRm(ext, rm)
           b == from_buf(Opening(pre, w, reg, rm, force, Opcode(two, op)) \o u).bytes
           f == Fields(b)
           v == RegisterValue(s, rm)
<1>1. pre \in Prefixes /\ w \in BOOLEAN /\ force \in BOOLEAN /\ d \in {16, 32, 64} /\ d # 8
    BY DEF Prefixes, emit_width_prefix, Wider
<1>2. ext \in 0 .. 7 /\ ext \in Int
    <2>1. ext \in 0 .. 7
        BY FieldFact
    <2>2. QED
        BY <2>1
<1>3. u \in Bytes /\ Count(u) <= 11
    <2>1. u \in Bytes /\ Count(u) = 1
        BY <1>2, RegRmFact
    <2> HIDE DEF u
    <2>2. QED
        BY <2>1
<1>4. b = MovxBytes(d, reg, s, rm, two, op)
    BY DEF Opening, MovxBytes
<1> HIDE DEF pre, w, force
<1>5. Opened(f, pre, w, reg, rm, force, two, op) /\ Shaped(b, f, u)
    <2> HIDE DEF u
    <2>1. QED
        BY <1>1, <1>3, EmittedRead
<1> HIDE DEF b, f
<1>6. Wide(f) = d
    BY <1>1, <1>5, WideFact DEF pre, w
<1>7. Placed(f, reg, rm) /\ f.two = two /\ f.opcode = op /\ (force => f.rex # 0)
    BY <1>5 DEF Opened
<1>8. Known(f, s, rm)
    BY <1>7 DEF Known, NewByte, HasWidth, reg_requires_rex_byte, force
<1>9. Known(f, d, reg) /\ reg \in 0 .. 79 /\ rm \in 0 .. 79
    BY <1>1, KnownWide, RegisterRange
<1>10. Shaped(b, f, RegRm(ext, rm) \o <<>>) /\ <<>> \in Bytes
    BY <1>5, ShapedWhole, NoBytes
<1>11. HasRm(b, f, s, ext, v, <<>>)
    <2> HIDE DEF ext
    <2>1. QED
        BY <1>2, <1>7, <1>8, <1>9, <1>10, RegisterRm, Zenon
<1> HIDE DEF v
<1>12. RegAndRm(b, f, s, d, reg, v)
    BY <1>7, <1>9, <1>11, RmWithRegister, Zenon DEF ext
<1>13. QED
    BY <1>4, <1>6, <1>7, <1>12 DEF Extended, f, v

\* What the opcode says of the source.
MovxOp(o, s) == IF s = 32 THEN 99 ELSE (IF s = 8 THEN 182 ELSE 183) + Bit(o = "MOVSX", 8)
MovxForm(o, d, s) ==
    /\ o \in {"MOVZX", "MOVSX"} /\ s \in {8, 16, 32} /\ Wider(d)
    /\ s = 32 => o = "MOVSX" /\ d = 64

LEMMA MovxTells ==
    ASSUME NEW o, NEW d, NEW s, MovxForm(o, d, s), NEW reg, NEW v, NEW b,
           Extended(b, s # 32, MovxOp(o, s), d, s, reg, v)
    PROVE  Tells(b, o, <<RegisterValue(d, reg), v>>)
<1> DEFINE f == Fields(b)
           r == Is(o, <<RegisterValue(d, reg), v>>, Count(b) + 1)
<1>1. f.two = (s # 32) /\ f.opcode = MovxOp(o, s) /\ Wide(f) = d /\ r = ToReg(b, f, o, d, s)
    BY DEF Extended, RegAndRm
<1> HIDE DEF r, f
<1>2. r = ToReg(b, f, o, Wide(f), s)
    BY <1>1
<1>3. MovxOp("MOVZX", 8) = 182 /\ MovxOp("MOVZX", 16) = 183
      /\ MovxOp("MOVSX", 8) = 190 /\ MovxOp("MOVSX", 16) = 191
    BY DEF MovxOp, Bit
<1>4. s \in {8, 16} => f.two
    <2>1. s \in {8, 16} => s # 32
        OBVIOUS
    <2>2. QED
        BY <1>1, <2>1, Zenon
<1>5. Reads(b, r)
    <2>1. CASE s = 32
        <3>1. o = "MOVSX" /\ ~f.two /\ f.opcode = 99
            BY <1>1, <2>1 DEF MovxForm, MovxOp
        <3>2. r = ToReg(b, f, "MOVSX", Wide(f), 32)
            BY <1>2, <2>1, <3>1
        <3>3. QED
            BY <3>1, <3>2, OneArms DEF f
    <2>2. CASE s = 8 /\ o = "MOVZX"
        <3>1. f.two /\ f.opcode = 182
            BY <1>1, <1>3, <1>4, <2>2
        <3>2. r = ToReg(b, f, "MOVZX", Wide(f), 8)
            BY <1>2, <2>2
        <3>3. QED
            BY <3>1, <3>2, TwoArms DEF f
    <2>3. CASE s = 16 /\ o = "MOVZX"
        <3>1. f.two /\ f.opcode = 183
            BY <1>1, <1>3, <1>4, <2>3
        <3>2. r = ToReg(b, f, "MOVZX", Wide(f), 16)
            BY <1>2, <2>3
        <3>3. QED
            BY <3>1, <3>2, TwoArms DEF f
    <2>4. CASE s = 8 /\ o = "MOVSX"
        <3>1. f.two /\ f.opcode = 190
            BY <1>1, <1>3, <1>4, <2>4
        <3>2. r = ToReg(b, f, "MOVSX", Wide(f), 8)
            BY <1>2, <2>4
        <3>3. QED
            BY <3>1, <3>2, TwoArms DEF f
    <2>5. CASE s = 16 /\ o = "MOVSX"
        <3>1. f.two /\ f.opcode = 191
            BY <1>1, <1>3, <1>4, <2>5
        <3>2. r = ToReg(b, f, "MOVSX", Wide(f), 16)
            BY <1>2, <2>5
        <3>3. QED
            BY <3>1, <3>2, TwoArms DEF f
    <2>6. QED
        BY <2>1, <2>2, <2>3, <2>4, <2>5 DEF MovxForm
<1>6. QED
    BY <1>5 DEF r, Tells

LEMMA MovxEscaped ==
    ASSUME NEW o, NEW d, NEW s, MovxForm(o, d, s)
    PROVE  Escaped(s # 32, MovxOp(o, s))
<1>1. s = 32 => MovxOp(o, s) = 99
    BY DEF MovxOp
<1>2. MovxOp(o, s) \in Int
    BY DEF MovxOp, Bit
<1>3. Ordinary(99)
    BY DEF Ordinary
<1>4. QED
    BY <1>1, <1>2, <1>3 DEF Escaped

\* Two registers of which the widths may differ.
LEMMA TwoRegistersRight ==
    ASSUME NEW o, NEW ops \in Seq(Operand), NEW t, NEW b, Straight(o),
           Kinds(ops) = <<"REG", "REG">>, Tells(b, o, <<Register(ops[1]), Register(ops[2])>>)
    PROVE  Right(o, ops, t, b)
<1>1. Denoted(o, ops, t) = <<Register(ops[1]), Register(ops[2])>>
    BY RegRegDenoted
<1>2. QED
    BY <1>1, Zenon DEF Right, Straight

LEMMA MovxSays ==
    ASSUME NEW o \in {"MOVZX", "MOVSX"}, NEW ops \in Seq(Operand), NEW t
    PROVE  Says(o, ops, t, enc_movx(ops, o = "MOVSX"))
<1> DEFINE e == enc_movx(ops, o = "MOVSX")
           d == Width(ops[1])
           s == Width(ops[2])
           reg == ops[1].reg
           rm == ops[2].reg
           ok == \/ s = 8 /\ d \in {16, 32, 64}
                 \/ s = 16 /\ d \in {32, 64}
                 \/ o = "MOVSX" /\ s = 32 /\ d = 64
           code == emit_width_prefix(d) \o Rex(d = 64, reg, rm, s = 8 /\ reg_requires_rex_byte(rm))
                      \o Opcode(s # 32, MovxOp(o, s)) \o RegRm(reg_field(reg), rm)
<1>1. Straight(o)
    BY CanonicalFact DEF Straight, Shift
<1>2. CASE Kinds(ops) = <<"REG", "REG">>
    <2>1. Opcode(s # 32, MovxOp(o, s)) =
             IF s = 32 THEN <<99>>
             ELSE <<15, (IF s = 8 THEN 182 ELSE 183) + Bit(o = "MOVSX", 8)>>
        BY DEF Opcode, MovxOp
    <2>2. e = EncodeIf(ok, code)
        BY <1>2, <2>1 DEF enc_movx
    <2>3. ASSUME ok PROVE Right(o, ops, t, from_buf(code).bytes)
        <3>1. MovxForm(o, d, s) /\ HasWidth(reg, d) /\ HasWidth(rm, s) /\ Wider(d)
            BY <2>3 DEF MovxForm, HasWidth, Wider, Width
        <3>2. Escaped(s # 32, MovxOp(o, s))
            BY <3>1, MovxEscaped
        <3> DEFINE two == s # 32
                   op == MovxOp(o, s)
                   b == MovxBytes(d, reg, s, rm, two, op)
        <3>3. from_buf(code).bytes = b
            BY DEF MovxBytes
        <3>4. Register(ops[1]) = RegisterValue(d, reg) /\ Register(ops[2]) = RegisterValue(s, rm)
            BY DEF Register
        <3> HIDE DEF d, s, reg, rm
        <3>5. Extended(b, two, op, d, s, reg, RegisterValue(s, rm))
            <4> HIDE DEF two, op
            <4>1. Escaped(two, op)
                BY <3>2 DEF two, op
            <4>2. QED
                BY <3>1, <4>1, ExtendedFact, Zenon DEF b
        <3> HIDE DEF b
        <3>6. Tells(b, o, <<RegisterValue(d, reg), RegisterValue(s, rm)>>)
            BY <3>1, <3>5, MovxTells, Zenon
        <3>7. Tells(b, o, <<Register(ops[1]), Register(ops[2])>>)
            BY <3>4, <3>6
        <3>8. QED
            BY <1>1, <1>2, <3>3, <3>7, TwoRegistersRight
    <2> HIDE DEF code, ok, e
    <2>4. Says(o, ops, t, e)
        BY <2>2, <2>3, SaysIf
    <2>5. QED
        BY <2>4 DEF e
<1>3. CASE Kinds(ops) # <<"REG", "REG">>
    <2>1. e = make_error
        BY <1>3 DEF enc_movx
    <2>2. QED
        BY <2>1, SaysError
<1>4. QED
    BY <1>2, <1>3

-----------------------------------------------------------------------------
(* imul *)

\* 0F AF with a register and v in ModRM.
Multiplies(b, width, reg, v) ==
    LET f == Fields(b)
    IN  f.two /\ f.opcode = 175 /\ Wide(f) = width /\ RegAndRm(b, f, width, width, reg, v)

LEMMA MultipliesTells ==
    ASSUME NEW b, NEW width, NEW reg, NEW v, Multiplies(b, width, reg, v)
    PROVE  Tells(b, "IMUL", <<RegisterValue(width, reg), v>>)
<1> DEFINE f == Fields(b)
           d == Is("IMUL", <<RegisterValue(width, reg), v>>, Count(b) + 1)
<1>1. f.two /\ f.opcode = 175 /\ Wide(f) = width /\ d = ToReg(b, f, "IMUL", width, width)
    BY DEF Multiplies, RegAndRm
<1> HIDE DEF d, f
<1>2. d = ToReg(b, f, "IMUL", Wide(f), Wide(f))
    BY <1>1
<1>3. Reads(b, d)
    BY <1>1, <1>2, TwoArms DEF f
<1>4. QED
    BY <1>3 DEF d, Tells

ImulHead(width, reg, rm) == Start(width, reg, rm, Opcode(Double, 175))

LEMMA MultipliesFact ==
    ASSUME NEW width, Wider(width), NEW reg, HasWidth(reg, width), NEW rm
    PROVE  /\ HasWidth(rm, width)
              => Multiplies(from_buf(ImulHead(width, reg, rm) \o RegRm(reg_field(reg), rm)).bytes,
                            width, reg, RegisterValue(width, rm))
           /\ HasWidth(rm, 64)
              => \A x \in Number : immediate_fits_i32(x) =>
                    Multiplies(from_buf(ImulHead(width, reg, rm)
                                           \o emit_mem_address(reg_field(reg), rm, x)).bytes,
                               width, reg, <<"mem", reg_index(rm), x>>)
<1> DEFINE op == 175
           two == Double
           ext == reg_field(reg)
           head == Start(width, reg, rm, Opcode(two, op))
           Early(b) == LET f == Fields(b) IN f.two /\ f.opcode = 175 /\ Wide(f) = width
<1>1. Escaped(two, op) /\ ext \in 0 .. 7 /\ width \in {8, 16, 32, 64} /\ width # 8
    BY FieldFact DEF Escaped, Double, Wider
<1>2. ASSUME NEW b, Started(Fields(b), width, reg, rm, two, op) PROVE Early(b)
    BY <1>1, <1>2 DEF Started, Double
<1>3. ASSUME HasWidth(rm, width)
      PROVE  Multiplies(from_buf(head \o RegRm(ext, rm)).bytes, width, reg,
                        RegisterValue(width, rm))
    <2> DEFINE b == from_buf(head \o RegRm(ext, rm)).bytes
               f == Fields(b)
    <2> HIDE DEF op, two, ext, Early
    <2>1. Started(f, width, reg, rm, two, op) /\ Shaped(b, f, RegRm(ext, rm))
        BY <1>1, RegisterCode
    <2> HIDE DEF b, head, f
    <2>2. RegAndRm(b, f, width, width, reg, RegisterValue(width, rm))
        BY <1>3, <2>1, PairTail DEF ext
    <2>3. Early(b)
        BY <1>2, <2>1 DEF f
    <2>4. Multiplies(b, width, reg, RegisterValue(width, rm))
        BY <2>2, <2>3 DEF Multiplies, Early, f
    <2>5. QED
        BY <2>4 DEF b
<1>4. ASSUME HasWidth(rm, 64), NEW x \in Number, immediate_fits_i32(x)
      PROVE  Multiplies(from_buf(head \o emit_mem_address(ext, rm, x)).bytes, width, reg,
                        <<"mem", reg_index(rm), x>>)
    <2> DEFINE b == from_buf(head \o emit_mem_address(ext, rm, x)).bytes
               f == Fields(b)
    <2> HIDE DEF op, two, ext, Early
    <2>1. Started(f, width, reg, rm, two, op) /\ Shaped(b, f, emit_mem_address(ext, rm, x))
        BY <1>1, AddressCode
    <2> HIDE DEF b, head, f
    <2>2. RegAndRm(b, f, width, width, reg, <<"mem", reg_index(rm), x>>)
        BY <1>4, <2>1, AddressTail, Zenon DEF ext
    <2>3. Early(b)
        BY <1>2, <2>1 DEF f
    <2>4. Multiplies(b, width, reg, <<"mem", reg_index(rm), x>>)
        BY <2>2, <2>3 DEF Multiplies, Early, f
    <2>5. QED
        BY <2>4 DEF b
<1>5. head = ImulHead(width, reg, rm)
    BY DEF ImulHead
<1> HIDE DEF head
<1>6. QED
    BY <1>3, <1>4, <1>5 DEF ext

\* A register, v and a number of n bytes.
Triple(b, op, width, n, reg, v, x) ==
    LET f == Fields(b)
    IN  /\ ~f.two /\ f.opcode = op /\ Wide(f) = width
        /\ RegRmImm(b, f, "IMUL", width, n) =
              Is("IMUL", <<RegisterValue(width, reg), v, Imm(x, width \div 8)>>, Count(b) + 1)

LEMMA TripleRead ==
    ASSUME NEW b, NEW f, NEW width, NEW n, NEW reg, NEW v, NEW x,
           RegOperand(b, f, width) = RegisterValue(width, reg),
           NumberAfter(b, f, width, n, v, x)
    PROVE  RegRmImm(b, f, "IMUL", width, n) =
              Is("IMUL", <<RegisterValue(width, reg), v, Imm(x, width \div 8)>>, Count(b) + 1)
    BY Zenon DEF NumberAfter, RegRmImm

LEMMA TripleFact ==
    ASSUME NEW width, Wider(width), NEW reg, HasWidth(reg, width), NEW rm, HasWidth(rm, width),
           NEW op, Escaped(Single, op), NEW x \in Number, NEW n, Within(x, n, width)
    PROVE  Triple(NumberBytes(width, reg, rm, op, reg_field(reg), x, n), op, width, n, reg,
                  RegisterValue(width, rm), x)
<1> DEFINE ext == reg_field(reg)
           b == NumberBytes(width, reg, rm, op, ext, x, n)
           f == Fields(b)
           v == RegisterValue(width, rm)
<1>1. /\ n \in 1 .. 8 /\ ext \in 0 .. 7 /\ width # 8 /\ valid_integer_width(width)
      /\ reg \in 0 .. 79
    BY FieldFact, RegisterRange DEF Within, Wider, valid_integer_width
<1>2. Started(f, width, reg, rm, Single, op) /\ HasRm(b, f, width, ext, v, Low(x, n))
    <2> HIDE DEF ext
    <2>1. QED
        BY <1>1, NumberRm
<1> HIDE DEF b, f, v
<1>3. NumberAfter(b, f, width, n, v, x)
    BY <1>1, <1>2, NumberAfterRm
<1>4. ~f.two /\ f.opcode = op /\ Wide(f) = width /\ Placed(f, reg, rm)
    BY <1>1, <1>2 DEF Started, Single
<1>5. Known(f, width, reg) /\ f.r = 8 * Hi(reg) /\ Extension(b, f) = reg_field(reg)
    BY <1>1, <1>2, <1>4, KnownWide DEF Placed, HasRm
<1>6. RegOperand(b, f, width) = RegisterValue(width, reg)
    BY <1>1, <1>5, MiddleRead
<1>7. RegRmImm(b, f, "IMUL", width, n) =
         Is("IMUL", <<RegisterValue(width, reg), v, Imm(x, width \div 8)>>, Count(b) + 1)
    BY <1>3, <1>6, TripleRead
<1>8. Triple(b, op, width, n, reg, v, x)
    BY <1>4, <1>7, Zenon DEF Triple, f
<1>9. QED
    BY <1>8 DEF b, v

LEMMA TripleTells ==
    ASSUME NEW b, NEW width, Wider(width), NEW reg, NEW v, NEW x
    PROVE  LET list == <<RegisterValue(width, reg), v, Imm(x, width \div 8)>> IN
           /\ Triple(b, 107, width, 1, reg, v, x) => Tells(b, "IMUL", list)
           /\ Triple(b, 105, width, ImmBytes(width), reg, v, x) => Tells(b, "IMUL", list)
<1> DEFINE f == Fields(b)
           d == Is("IMUL", <<RegisterValue(width, reg), v, Imm(x, width \div 8)>>, Count(b) + 1)
<1>1. ASSUME NEW op, NEW n, Triple(b, op, width, n, reg, v, x)
      PROVE  ~f.two /\ f.opcode = op /\ Wide(f) = width /\ d = RegRmImm(b, f, "IMUL", width, n)
    BY <1>1, Zenon DEF Triple
<1>2. LongImm(width) = ImmBytes(width)
    BY DEF LongImm, ImmBytes
<1> HIDE DEF d, f
<1>3. ASSUME Triple(b, 107, width, 1, reg, v, x) PROVE Reads(b, d)
    <2>1. ~f.two /\ f.opcode = 107 /\ d = RegRmImm(b, f, "IMUL", Wide(f), 1)
        BY <1>1, <1>3
    <2>2. QED
        BY <2>1, OneArms DEF f
<1>4. ASSUME Triple(b, 105, width, ImmBytes(width), reg, v, x) PROVE Reads(b, d)
    <2>1. ~f.two /\ f.opcode = 105 /\ d = RegRmImm(b, f, "IMUL", Wide(f), LongImm(Wide(f)))
        BY <1>1, <1>2, <1>4
    <2>2. QED
        BY <2>1, OneArms DEF f
<1>5. QED
    BY <1>3, <1>4, Zenon DEF d, Tells

LEMMA ThreeRight ==
    ASSUME NEW ops \in Seq(Operand), NEW t, NEW b, Kinds(ops) = <<"REG", "REG", "IMM">>,
           NEW width, HasWidth(ops[1].reg, width), HasWidth(ops[2].reg, width),
           Tells(b, "IMUL", <<RegisterValue(width, ops[1].reg), RegisterValue(width, ops[2].reg),
                              Imm(ops[3].imm, width \div 8)>>)
    PROVE  Right("IMUL", ops, t, b)
<1> DEFINE k == 3
           list == <<RegisterValue(width, ops[1].reg), RegisterValue(width, ops[2].reg),
                     Imm(ops[3].imm, width \div 8)>>
<1>1. ops[1].kind = "REG" /\ ops[2].kind = "REG" /\ ops[k].kind = "IMM"
    <2>1. DOMAIN ops = {1, 2, 3} /\ Kinds(ops)[1] = "REG" /\ Kinds(ops)[2] = "REG"
          /\ Kinds(ops)[3] = "IMM"
        BY ThreeKinds
    <2>2. QED
        BY <2>1 DEF Kinds
<1>2. "IMUL" \notin Shift /\ Canonical("IMUL") = "IMUL"
    BY CanonicalFact DEF Shift
<1>3. /\ Denotes("IMUL", ops, t, 1) = RegisterValue(width, ops[1].reg)
      /\ Denotes("IMUL", ops, t, 2) = RegisterValue(width, ops[2].reg)
    BY <1>1, <1>2, RegisterDenotes DEF HasWidth, Width
<1>4. Denotes("IMUL", ops, t, k) = Imm(ops[k].imm, width \div 8)
    <2>1. ImmediateWidth("IMUL", ops) = width \div 8
        BY DEF ImmediateWidth, HasWidth, Width, ShiftExt
    <2> HIDE DEF k
    <2>2. Denotes("IMUL", ops, t, k) = <<"imm", Low(ops[k].imm, ImmediateWidth("IMUL", ops))>>
        BY <1>1, OthersDenote
    <2>3. QED
        BY <2>1, <2>2 DEF Imm
<1>5. Denoted("IMUL", ops, t) = list
    BY <1>3, <1>4, ThreeDenoted
<1> HIDE DEF list
<1>6. Tells(b, "IMUL", list)
    BY DEF list
<1>7. QED
    BY <1>2, <1>5, <1>6, Zenon DEF Right

LEMMA ImulPairRight ==
    ASSUME NEW ops \in Seq(Operand), NEW t, NEW width, HasWidth(ops[1].reg, width), NEW b
    PROVE  /\ Kinds(ops) = <<"REG", "REG">> /\ HasWidth(ops[2].reg, width)
                /\ Multiplies(b, width, ops[1].reg, RegisterValue(width, ops[2].reg))
              => Right("IMUL", ops, t, b)
           /\ Kinds(ops) = <<"REG", "MEM">>
                /\ Multiplies(b, width, ops[1].reg, <<"mem", reg_index(ops[2].reg), ops[2].imm>>)
              => Right("IMUL", ops, t, b)
<1> DEFINE reg == ops[1].reg
           rm == ops[2].reg
           v == <<"mem", reg_index(rm), ops[2].imm>>
<1>1. Straight("IMUL")
    BY CanonicalFact DEF Straight, Shift
<1>2. Register(ops[1]) = RegisterValue(width, reg)
    BY DEF Register, Width, HasWidth
<1>3. ASSUME Kinds(ops) = <<"REG", "REG">>, HasWidth(rm, width),
             Multiplies(b, width, reg, RegisterValue(width, rm))
      PROVE  Right("IMUL", ops, t, b)
    <2>1. Register(ops[2]) = RegisterValue(width, rm)
        BY <1>3 DEF Register, Width, HasWidth
    <2>2. Tells(b, "IMUL", <<RegisterValue(width, reg), RegisterValue(width, rm)>>)
        BY <1>3, MultipliesTells
    <2>3. QED
        BY <1>1, <1>2, <1>3, <2>1, <2>2, TwoRegistersRight
<1>4. ASSUME Kinds(ops) = <<"REG", "MEM">>, Multiplies(b, width, reg, v)
      PROVE  Right("IMUL", ops, t, b)
    <2>1. Denoted("IMUL", ops, t) = <<Register(ops[1]), v>>
        BY <1>4, RegOtherDenoted, Zenon
    <2> HIDE DEF v, reg
    <2>2. Tells(b, "IMUL", <<RegisterValue(width, reg), v>>)
        BY <1>4, MultipliesTells
    <2>3. QED
        BY <1>1, <1>2, <2>1, <2>2, Zenon DEF Right, Straight
<1>5. QED
    BY <1>3, <1>4, Zenon

LEMMA ImulSays ==
    ASSUME NEW ops \in Seq(Operand), NEW t, Addressed(ops)
    PROVE  Says("IMUL", ops, t, enc_imul(ops))
<1> DEFINE e == enc_imul(ops)
           w == Width(ops[1])
           r == ops[1].reg
           rm == ops[2].reg
           valid == w # 8 /\ valid_integer_width(w)
           ext == reg_field(r)
           head == ImulHead(w, r, rm)
<1>1. valid => Wider(w) /\ HasWidth(r, w)
    BY CheckedWidth DEF Wider, valid_integer_width
<1>2. head = Start(w, r, rm, <<15, 175>>)
    BY DEF ImulHead, Opcode, Double
<1>3. CASE Kinds(ops) = <<"REG", "REG">>
    <2> DEFINE ok == valid /\ same_register_width(r, rm)
               code == head \o RegRm(ext, rm)
    <2>1. e = EncodeIf(ok, code)
        BY <1>2, <1>3 DEF enc_imul
    <2>2. ASSUME ok PROVE Right("IMUL", ops, t, from_buf(code).bytes)
        <3>1. Wider(w) /\ HasWidth(r, w) /\ HasWidth(rm, w)
            BY <1>1, <2>2, CheckedWidth
        <3> HIDE DEF w, r, rm
        <3>2. Multiplies(from_buf(code).bytes, w, r, RegisterValue(w, rm))
            BY <3>1, MultipliesFact, Zenon
        <3> HIDE DEF code
        <3>3. QED
            BY <1>3, <3>1, <3>2, ImulPairRight, Zenon DEF r, rm
    <2> HIDE DEF code, ok, e
    <2>3. Says("IMUL", ops, t, e)
        BY <2>1, <2>2, SaysIf
    <2>4. QED
        BY <2>3 DEF e
<1>4. CASE Kinds(ops) = <<"REG", "MEM">>
    <2> DEFINE x == ops[2].imm
               ok == valid /\ IsBase(ops[2])
               code == head \o emit_mem_address(ext, rm, x)
    <2>1. e = EncodeIf(ok, code)
        BY <1>2, <1>4 DEF enc_imul
    <2>2. ASSUME ok PROVE Right("IMUL", ops, t, from_buf(code).bytes)
        <3>1. Wider(w) /\ HasWidth(r, w) /\ HasWidth(rm, 64)
            BY <1>1, <2>2, CheckedWidth
        <3>2. x \in Number /\ immediate_fits_i32(x)
            BY <1>4, TwoKinds, OperandFact DEF Addressed
        <3> HIDE DEF w, r, rm, x
        <3>3. Multiplies(from_buf(code).bytes, w, r, <<"mem", reg_index(rm), x>>)
            BY <3>1, <3>2, MultipliesFact, Zenon
        <3> HIDE DEF code
        <3>4. QED
            BY <1>4, <3>1, <3>3, ImulPairRight, Zenon DEF r, rm, x
    <2> HIDE DEF code, ok, e
    <2>3. Says("IMUL", ops, t, e)
        BY <2>1, <2>2, SaysIf
    <2>4. QED
        BY <2>3 DEF e
<1>5. CASE Kinds(ops) = <<"REG", "REG", "IMM">>
    <2> DEFINE x == ops[3].imm
               short == immediate_fits_i8(x)
               op == IF short THEN 107 ELSE 105
               n == IF short THEN 1 ELSE ImmBytes(w)
               ok == /\ valid /\ same_register_width(r, rm)
                     /\ FitsOperand(x, w)
               code == Start(w, r, rm, <<op>>) \o RegRm(ext, rm)
                          \o Low(x, n)
               b == NumberBytes(w, r, rm, op, ext, x, n)
    <2>1. e = EncodeIf(ok, code)
        BY <1>5 DEF enc_imul
    <2>2. from_buf(code).bytes = b
        BY DEF NumberBytes
    <2>3. x \in Number
        BY <1>5, ThreeKinds, OperandFact
    <2>4. Escaped(Single, op)
        <3>1. Escaped(Single, 107) /\ Escaped(Single, 105)
            BY DEF Escaped, Single, Ordinary
        <3>2. QED
            BY <3>1
    <2>5. ASSUME ok PROVE Right("IMUL", ops, t, b)
        <3>1. Wider(w) /\ HasWidth(r, w) /\ HasWidth(rm, w) /\ w \in {8, 16, 32, 64}
            BY <1>1, <2>5, CheckedWidth DEF Wider
        <3>2. Within(x, n, w)
            <4>1. (short => Within(x, 1, w)) /\ Within(x, ImmBytes(w), w)
                <5> HIDE DEF w, x
                <5>1. QED
                    BY <2>5, <3>1, WithinFacts
            <4>2. QED
                BY <4>1
        <3>3. \/ op = 107 /\ n = 1
              \/ op = 105 /\ n = ImmBytes(w)
            OBVIOUS
        <3> DEFINE v == RegisterValue(w, rm)
        <3> HIDE DEF op, n, w, x, r, rm
        <3>4. Triple(b, op, w, n, r, v, x)
            BY <2>3, <2>4, <3>1, <3>2, TripleFact, Zenon
        <3>5. Tells(b, "IMUL", <<RegisterValue(w, r), v, Imm(x, w \div 8)>>)
            <4> HIDE DEF b, v
            <4>1. CASE op = 107 /\ n = 1
                BY <3>1, <3>4, <4>1, TripleTells
            <4>2. CASE op = 105 /\ n = ImmBytes(w)
                BY <3>1, <3>4, <4>2, TripleTells
            <4>3. QED
                BY <3>3, <4>1, <4>2
        <3> HIDE DEF b
        <3>6. QED
            BY <1>5, <3>1, <3>5, ThreeRight, Zenon DEF r, rm, x
    <2> HIDE DEF code, ok, e, b
    <2>6. Says("IMUL", ops, t, e)
        BY <2>1, <2>2, <2>5, SaysIf
    <2>7. QED
        BY <2>6 DEF e
<1>6. CASE Kinds(ops) \notin {<<"REG", "REG">>, <<"REG", "MEM">>, <<"REG", "REG", "IMM">>}
    <2>1. e = make_error
        BY <1>6 DEF enc_imul
    <2>2. QED
        BY <2>1, SaysError
<1>7. QED
    BY <1>3, <1>4, <1>5, <1>6

-----------------------------------------------------------------------------
(* setcc *)

\* 0F 9x with v in ModRM.
Sets(b, n, v) == LET f == Fields(b) IN f.two /\ f.opcode = n /\ Last(b, f, 8, v)

SetccHead(r, n) == Start(8, REG_INVALID, r, Opcode(Double, n))

LEMMA SetsFact ==
    ASSUME NEW r, NEW n \in 144 .. 159
    PROVE  /\ HasWidth(r, 8)
              => Sets(from_buf(SetccHead(r, n) \o RegRm(0, r)).bytes, n, RegisterValue(8, r))
           /\ HasWidth(r, 64)
              => \A x \in Number : immediate_fits_i32(x) =>
                    Sets(from_buf(SetccHead(r, n) \o emit_mem_address(0, r, x)).bytes, n,
                         <<"mem", reg_index(r), x>>)
<1> DEFINE two == Double
           ext == 0
           width == 8
           reg == REG_INVALID
           head == Start(width, reg, r, Opcode(two, n))
<1>1. Escaped(two, n) /\ ext \in 0 .. 7 /\ width \in {8, 16, 32, 64}
    BY DEF Escaped, Double
<1>2. head = SetccHead(r, n)
    BY DEF SetccHead
<1>3. ASSUME NEW b, NEW v, Started(Fields(b), width, reg, r, two, n),
             HasRm(b, Fields(b), width, ext, v, <<>>)
      PROVE  Sets(b, n, v)
    <2>1. Last(b, Fields(b), width, v)
        BY <1>3, RmAlone
    <2>2. QED
        BY <1>3, <2>1 DEF Sets, Started, Double
<1> HIDE DEF two, ext, width, reg
<1>4. ASSUME HasWidth(r, width)
      PROVE  Sets(from_buf(head \o RegRm(ext, r)).bytes, n, RegisterValue(width, r))
    <2> DEFINE b == from_buf(head \o RegRm(ext, r)).bytes
               f == Fields(b)
    <2>1. Started(f, width, reg, r, two, n) /\ Shaped(b, f, RegRm(ext, r))
        BY <1>1, RegisterCode
    <2> HIDE DEF b, f, head
    <2>2. HasRm(b, f, width, ext, RegisterValue(width, r), <<>>)
        BY <1>1, <1>4, <2>1, RegisterAlone
    <2>3. Sets(b, n, RegisterValue(width, r))
        BY <1>3, <2>1, <2>2 DEF f
    <2>4. QED
        BY <2>3 DEF b
<1>5. ASSUME HasWidth(r, 64), NEW x \in Number, immediate_fits_i32(x)
      PROVE  Sets(from_buf(head \o emit_mem_address(ext, r, x)).bytes, n,
                  <<"mem", reg_index(r), x>>)
    <2> DEFINE b == from_buf(head \o emit_mem_address(ext, r, x)).bytes
               f == Fields(b)
               v == <<"mem", reg_index(r), x>>
    <2>1. Started(f, width, reg, r, two, n) /\ Shaped(b, f, emit_mem_address(ext, r, x))
        BY <1>1, AddressCode
    <2> HIDE DEF b, f, head
    <2>2. HasRm(b, f, width, ext, v, <<>>)
        BY <1>1, <1>5, <2>1, AddressAlone, Zenon
    <2> HIDE DEF v
    <2>3. Sets(b, n, v)
        BY <1>3, <2>1, <2>2 DEF f
    <2>4. QED
        BY <2>3 DEF b, v
<1> HIDE DEF head
<1>6. QED
    BY <1>2, <1>4, <1>5 DEF ext, width

LEMMA SetsTells ==
    ASSUME NEW b, NEW n \in 144 .. 159, NEW v, Sets(b, n, v)
    PROVE  Tells(b, SetccName[n - 143], <<v>>)
<1> DEFINE f == Fields(b)
           name == SetccName[f.opcode - 143]
           d == Is(name, <<v>>, Count(b) + 1)
<1>1. f.two /\ f.opcode = n /\ Last(b, f, 8, v)
    BY DEF Sets
<1>2. d = RmOnly(b, f, name, 8)
    BY <1>1, Zenon DEF Last, RmOnly
<1>3. f.opcode \in 144 .. 159
    BY <1>1
<1> HIDE DEF f, d
<1>4. Reads(b, d)
    BY <1>1, <1>2, <1>3, TwoArms DEF f
<1>5. QED
    BY <1>1, <1>4 DEF d, Tells

LEMMA SetccTable ==
    ASSUME NEW o \in Setcc
    PROVE  /\ SetccOp[o] \in 144 .. 159 /\ SetccName[SetccOp[o] - 143] = o /\ Straight(o)
           /\ o # "MOV"
<1>0. Straight(o) /\ o # "MOV"
    BY CanonicalFact DEF Straight, Setcc, Shift
<1>1. CASE o = "SETE" BY <1>0, <1>1 DEF SetccOp, SetccName
<1>2. CASE o = "SETNE" BY <1>0, <1>2 DEF SetccOp, SetccName
<1>3. CASE o = "SETG" BY <1>0, <1>3 DEF SetccOp, SetccName
<1>4. CASE o = "SETL" BY <1>0, <1>4 DEF SetccOp, SetccName
<1>5. CASE o = "SETGE" BY <1>0, <1>5 DEF SetccOp, SetccName
<1>6. CASE o = "SETLE" BY <1>0, <1>6 DEF SetccOp, SetccName
<1>7. CASE o = "SETA" BY <1>0, <1>7 DEF SetccOp, SetccName
<1>8. CASE o = "SETB" BY <1>0, <1>8 DEF SetccOp, SetccName
<1>9. CASE o = "SETAE" BY <1>0, <1>9 DEF SetccOp, SetccName
<1>10. CASE o = "SETBE" BY <1>0, <1>10 DEF SetccOp, SetccName
<1>11. CASE o = "SETP" BY <1>0, <1>11 DEF SetccOp, SetccName
<1>12. CASE o = "SETNP" BY <1>0, <1>12 DEF SetccOp, SetccName
<1>13. QED
    BY <1>1, <1>2, <1>3, <1>4, <1>5, <1>6, <1>7, <1>8, <1>9, <1>10, <1>11, <1>12 DEF Setcc

LEMMA MemRight ==
    ASSUME NEW o, NEW ops \in Seq(Operand), NEW t, NEW b, Straight(o), Kinds(ops) = <<"MEM">>,
           Tells(b, o, <<<<"mem", reg_index(ops[1].reg), ops[1].imm>>>>)
    PROVE  Right(o, ops, t, b)
<1> DEFINE k == 1
           v == <<"mem", reg_index(ops[k].reg), ops[k].imm>>
<1>1. ops[k].kind = "MEM"
    BY OneKind
<1>2. Tells(b, o, <<v>>) /\ Canonical(o) = o
    BY DEF Straight
<1>3. Denoted(o, ops, t) = <<Denotes(o, ops, t, k)>>
    BY OneDenoted
<1> HIDE DEF k
<1>4. Denotes(o, ops, t, k) = v
    BY <1>1, OthersDenote
<1> HIDE DEF v
<1>5. QED
    BY <1>2, <1>3, <1>4, Zenon DEF Right

LEMMA SetccSays ==
    ASSUME NEW o \in Setcc, NEW ops \in Seq(Operand), NEW t, Addressed(ops)
    PROVE  Says(o, ops, t, enc_setcc(ops, SetccOp[o]))
<1> DEFINE n == SetccOp[o]
           e == enc_setcc(ops, n)
           r == ops[1].reg
           x == ops[1].imm
           w == 8
           head == SetccHead(r, n)
<1>1. n \in 144 .. 159 /\ SetccName[n - 143] = o /\ Straight(o)
    BY SetccTable
<1>2. head = Start(8, REG_INVALID, r, <<15, n>>)
    BY DEF SetccHead, Opcode, Double
<1> HIDE DEF n
<1>3. CASE Kinds(ops) = <<"REG">>
    <2> DEFINE ok == Width(ops[1]) = 8
               code == head \o RegRm(0, r)
               b == from_buf(code).bytes
    <2>1. e = EncodeIf(ok, code)
        BY <1>2, <1>3 DEF enc_setcc
    <2>2. ASSUME ok PROVE Right(o, ops, t, b)
        <3>1. HasWidth(r, w)
            BY <2>2 DEF HasWidth, Width
        <3>2. Sets(b, n, RegisterValue(w, r))
            <4> HIDE DEF r
            <4>1. QED
                BY <1>1, <3>1, SetsFact
        <3> HIDE DEF b, w, r
        <3>3. Tells(b, SetccName[n - 143], <<RegisterValue(w, r)>>)
            BY <1>1, <3>2, SetsTells
        <3>4. Tells(b, o, <<RegisterValue(w, r)>>)
            BY <1>1, <3>3
        <3>5. QED
            BY <1>1, <1>3, <3>1, <3>4, RegRight, Zenon DEF r
    <2> HIDE DEF code, ok, e
    <2>3. Says(o, ops, t, e)
        BY <2>1, <2>2, SaysIf
    <2>4. QED
        BY <2>3 DEF e, n
<1>4. CASE Kinds(ops) = <<"MEM">>
    <2> DEFINE ok == IsBase(ops[1])
               code == head \o emit_mem_address(0, r, x)
               b == from_buf(code).bytes
               v == <<"mem", reg_index(r), x>>
    <2>1. e = EncodeIf(ok, code)
        BY <1>2, <1>4 DEF enc_setcc
    <2>2. ASSUME ok PROVE Right(o, ops, t, b)
        <3>1. HasWidth(r, 64)
            BY <2>2, CheckedWidth
        <3>2. x \in Number /\ immediate_fits_i32(x)
            BY <1>4, OneKind, OperandFact DEF Addressed
        <3>3. Sets(b, n, v)
            <4> HIDE DEF r, x
            <4>1. QED
                BY <1>1, <3>1, <3>2, SetsFact
        <3> HIDE DEF b, v
        <3>4. Tells(b, SetccName[n - 143], <<v>>)
            BY <1>1, <3>3, SetsTells
        <3>5. Tells(b, o, <<v>>)
            BY <1>1, <3>4
        <3>6. QED
            BY <1>1, <1>4, <3>5, MemRight, Zenon DEF v
    <2> HIDE DEF code, ok, e
    <2>3. Says(o, ops, t, e)
        BY <2>1, <2>2, SaysIf
    <2>4. QED
        BY <2>3 DEF e, n
<1>5. CASE Kinds(ops) \notin {<<"REG">>, <<"MEM">>}
    <2>1. e = make_error
        BY <1>5 DEF enc_setcc
    <2>2. QED
        BY <2>1, SaysError DEF n
<1>6. QED
    BY <1>3, <1>4, <1>5

-----------------------------------------------------------------------------
(* Scalar SSE2 *)

Mandatory(prefix) == prefix \in {102, 242, 243}

\* prefix, 0F op with a register and v in ModRM.
SseRead(b, prefix, w, op, width, other, reg, v) ==
    LET f == Fields(b)
    IN  /\ f.two /\ f.opcode = op /\ f.prefix = prefix /\ f.w = w
        /\ RegAndRm(b, f, width, other, reg, v)

SseBytes(prefix, w, reg, rm, op, u) == from_buf(SseHead(prefix, w, reg, rm, op) \o u).bytes

LEMMA SseCode ==
    ASSUME NEW prefix, Mandatory(prefix), NEW w \in BOOLEAN, NEW reg, NEW rm, NEW op \in Int,
           NEW u \in Bytes, Count(u) <= 11
    PROVE  LET b == SseBytes(prefix, w, reg, rm, op, u)
               f == Fields(b)
           IN  /\ f.two /\ f.opcode = op /\ f.prefix = prefix /\ f.w = w
               /\ Placed(f, reg, rm) /\ Shaped(b, f, u)
<1> DEFINE pre == <<prefix>>
           two == Double
           b == from_buf(Opening(pre, w, reg, rm, Single, Opcode(two, op)) \o u).bytes
           f == Fields(b)
<1>1. pre \in Prefixes /\ Single \in BOOLEAN /\ Escaped(two, op)
    <2>1. pre \in Prefixes
        BY DEF Prefixes, Mandatory
    <2>2. QED
        BY <2>1 DEF Single, Double, Escaped
<1>2. PrefixByte(pre) = prefix
    BY DEF PrefixByte
<1>3. b = SseBytes(prefix, w, reg, rm, op, u)
    BY DEF SseBytes, SseHead, Opening, Opcode, Single, Double
<1> HIDE DEF pre, two
<1>4. Opened(f, pre, w, reg, rm, Single, two, op) /\ Shaped(b, f, u)
    BY <1>1, EmittedRead
<1> HIDE DEF b
<1>5. f.two /\ f.opcode = op /\ f.prefix = prefix /\ f.w = w /\ Placed(f, reg, rm)
    BY <1>2, <1>4 DEF Opened, two, Double
<1>6. QED
    BY <1>3, <1>4, <1>5

NotByte(width) == width # 8

LEMMA SseRegisterRead ==
    ASSUME NEW prefix, Mandatory(prefix), NEW w \in BOOLEAN, NEW reg \in 0 .. 79,
           NEW rm \in 0 .. 79, NEW op \in Int,
           NEW width, NotByte(width), NEW other, NotByte(other)
    PROVE  SseRead(SseReg(prefix, w, reg, rm, op).bytes, prefix, w, op, width, other, reg,
                   RegisterValue(width, rm))
<1> DEFINE ext == reg_field(reg)
           u == RegRm(ext, rm)
           b == SseBytes(prefix, w, reg, rm, op, u)
           f == Fields(b)
           v == RegisterValue(width, rm)
<1>1. ext \in 0 .. 7 /\ ext \in Int
    <2>1. ext \in 0 .. 7
        BY FieldFact
    <2>2. QED
        BY <2>1
<1>2. u \in Bytes /\ Count(u) <= 11
    <2>1. u \in Bytes /\ Count(u) = 1
        BY <1>1, RegRmFact
    <2> HIDE DEF u
    <2>2. QED
        BY <2>1
<1>3. b = SseReg(prefix, w, reg, rm, op).bytes
    BY DEF SseBytes, SseReg
<1>4. /\ f.two /\ f.opcode = op /\ f.prefix = prefix /\ f.w = w
      /\ Placed(f, reg, rm) /\ Shaped(b, f, u)
    <2> HIDE DEF u
    <2>1. QED
        BY <1>2, SseCode
<1> HIDE DEF b, f
<1>5. Known(f, width, rm) /\ Known(f, other, reg)
    BY KnownWide DEF NotByte
<1>6. Shaped(b, f, RegRm(ext, rm) \o <<>>) /\ <<>> \in Bytes
    BY <1>4, ShapedWhole, NoBytes
<1>7. HasRm(b, f, width, ext, v, <<>>)
    <2> HIDE DEF ext
    <2>1. QED
        BY <1>1, <1>4, <1>5, <1>6, RegisterRm, Zenon
<1> HIDE DEF v
<1>8. RegAndRm(b, f, width, other, reg, v)
    BY <1>4, <1>5, <1>7, RmWithRegister, Zenon DEF ext
<1>9. QED
    BY <1>3, <1>4, <1>8 DEF SseRead, f, v

LEMMA SseAddressRead ==
    ASSUME NEW prefix, Mandatory(prefix), NEW reg \in 0 .. 79, NEW op \in Int,
           NEW mem, mem.reg \in 0 .. 79, mem.imm \in Number, immediate_fits_i32(mem.imm)
    PROVE  SseRead(SseMem(prefix, reg, mem, op).bytes, prefix, Single, op, 128, 128, reg,
                   <<"mem", reg_index(mem.reg), mem.imm>>)
<1> DEFINE ext == reg_field(reg)
           base == mem.reg
           x == mem.imm
           w == Single
           width == 128
           u == emit_mem_address(ext, base, x)
           b == SseBytes(prefix, w, reg, base, op, u)
           f == Fields(b)
           v == <<"mem", reg_index(base), x>>
<1>1. ext \in 0 .. 7 /\ w \in BOOLEAN /\ base \in 0 .. 79 /\ x \in Number /\ immediate_fits_i32(x)
    BY FieldFact DEF Single
<1>2. u \in Bytes /\ Count(u) <= 11
    <2> HIDE DEF ext, base, x
    <2>1. u \in Bytes /\ Count(u) \in 1 .. 6
        BY <1>1, AddressFact
    <2> HIDE DEF u
    <2>2. QED
        BY <2>1
<1>3. b = SseMem(prefix, reg, mem, op).bytes
    BY DEF SseBytes, SseMem, Single
<1> HIDE DEF w
<1>4. /\ f.two /\ f.opcode = op /\ f.prefix = prefix /\ f.w = w
      /\ Placed(f, reg, base) /\ Shaped(b, f, u)
    <2> HIDE DEF u, base
    <2>1. QED
        BY <1>1, <1>2, SseCode
<1>5. Known(f, width, reg)
    BY KnownWide
<1> HIDE DEF b, f, width, base, x
<1>6. HasRm(b, f, width, ext, v, <<>>)
    <2> HIDE DEF ext
    <2>1. QED
        BY <1>1, <1>4, AddressRm, Zenon
<1> HIDE DEF v
<1>7. RegAndRm(b, f, width, width, reg, v)
    BY <1>4, <1>5, <1>6, RmWithRegister, Zenon DEF ext
<1>8. SseRead(b, prefix, w, op, width, width, reg, v)
    BY <1>4, <1>7 DEF SseRead, f
<1>9. QED
    BY <1>3, <1>8 DEF v, w, width, base, x

LEMMA SseMoveTells ==
    ASSUME NEW b, NEW w, NEW reg, NEW v
    PROVE  /\ SseRead(b, 243, w, 126, 128, 128, reg, v)
              => Tells(b, "MOV", <<RegisterValue(128, reg), v>>)
           /\ SseRead(b, 102, Double, 110, 64, 128, reg, v)
              => Tells(b, "MOV", <<RegisterValue(128, reg), v>>)
           /\ SseRead(b, 102, Double, 126, 64, 128, reg, v)
              => Tells(b, "MOV", <<v, RegisterValue(128, reg)>>)
           /\ SseRead(b, 102, Single, 214, 128, 128, reg, v)
              => Tells(b, "MOV", <<v, RegisterValue(128, reg)>>)
<1> DEFINE f == Fields(b)
           d == Is("MOV", <<RegisterValue(128, reg), v>>, Count(b) + 1)
           s == Is("MOV", <<v, RegisterValue(128, reg)>>, Count(b) + 1)
           other == 128
<1>1. ASSUME NEW prefix, NEW wide, NEW op, NEW width,
             SseRead(b, prefix, wide, op, width, other, reg, v)
      PROVE  /\ f.two /\ f.opcode = op /\ f.prefix = prefix /\ f.w = wide
             /\ s = RmReg(b, f, "MOV", width, other) /\ d = ToReg(b, f, "MOV", other, width)
    <2> HIDE DEF other
    <2>1. /\ f.two /\ f.opcode = op /\ f.prefix = prefix /\ f.w = wide
          /\ Is("MOV", <<v, RegisterValue(other, reg)>>, Count(b) + 1)
                = RmReg(b, f, "MOV", width, other)
          /\ Is("MOV", <<RegisterValue(other, reg), v>>, Count(b) + 1)
                = ToReg(b, f, "MOV", other, width)
        BY <1>1, Zenon DEF SseRead, RegAndRm
    <2>2. QED
        BY <2>1 DEF other
<1> HIDE DEF f, d, s
<1>2. ASSUME SseRead(b, 243, w, 126, 128, 128, reg, v) PROVE Reads(b, d)
    <2>1. f.two /\ f.opcode = 126 /\ f.prefix = 243 /\ d = ToReg(b, f, "MOV", 128, 128)
        BY <1>1, <1>2
    <2>2. QED
        BY <2>1, TwoArms DEF f
<1>3. ASSUME SseRead(b, 102, Double, 110, 64, 128, reg, v) PROVE Reads(b, d)
    <2>1. f.two /\ f.opcode = 110 /\ f.prefix = 102 /\ f.w = Double
          /\ d = ToReg(b, f, "MOV", 128, 64)
        BY <1>1, <1>3
    <2>2. d = ToReg(b, f, "MOV", 128, Full(f))
        BY <2>1 DEF Full, Double
    <2>3. QED
        BY <2>1, <2>2, TwoArms DEF f
<1>4. ASSUME SseRead(b, 102, Double, 126, 64, 128, reg, v) PROVE Reads(b, s)
    <2>1. f.two /\ f.opcode = 126 /\ f.prefix = 102 /\ f.w = Double
          /\ s = RmReg(b, f, "MOV", 64, 128)
        BY <1>1, <1>4
    <2>2. s = RmReg(b, f, "MOV", Full(f), 128)
        BY <2>1 DEF Full, Double
    <2>3. QED
        BY <2>1, <2>2, TwoArms DEF f
<1>5. ASSUME SseRead(b, 102, Single, 214, 128, 128, reg, v) PROVE Reads(b, s)
    <2>1. f.two /\ f.opcode = 214 /\ f.prefix = 102 /\ s = RmReg(b, f, "MOV", 128, 128)
        BY <1>1, <1>5
    <2>2. QED
        BY <2>1, TwoArms DEF f
<1>6. QED
    BY <1>2, <1>3, <1>4, <1>5, Zenon DEF d, s, Tells

\* The width of the general register of a conversion.
FullWidth(w) == IF w THEN 64 ELSE 32

LEMMA ConvertTells ==
    ASSUME NEW b, NEW w, NEW reg, NEW v
    PROVE  /\ SseRead(b, 242, w, 42, FullWidth(w), 128, reg, v)
              => Tells(b, "CVTSI2SD", <<RegisterValue(128, reg), v>>)
           /\ SseRead(b, 242, w, 44, 128, FullWidth(w), reg, v)
              => Tells(b, "CVTTSD2SI", <<RegisterValue(FullWidth(w), reg), v>>)
<1> DEFINE f == Fields(b)
           full == FullWidth(w)
           xmm == 128
           d(name, other) == Is(name, <<RegisterValue(other, reg), v>>, Count(b) + 1)
<1>1. ASSUME NEW op, NEW width, NEW other, SseRead(b, 242, w, op, width, other, reg, v)
      PROVE  /\ f.two /\ f.opcode = op /\ f.prefix = 242 /\ f.w = w
             /\ \A name : d(name, other) = ToReg(b, f, name, other, width)
    BY <1>1, Zenon DEF SseRead, RegAndRm
<1>2. f.w = w => Full(f) = full
    BY DEF Full, FullWidth
<1> HIDE DEF f, d, full, xmm
<1>3. ASSUME SseRead(b, 242, w, 42, full, xmm, reg, v) PROVE Reads(b, d("CVTSI2SD", xmm))
    <2>1. f.two /\ f.opcode = 42 /\ f.prefix = 242
          /\ d("CVTSI2SD", xmm) = ToReg(b, f, "CVTSI2SD", 128, Full(f))
        BY <1>1, <1>2, <1>3 DEF xmm
    <2>2. QED
        BY <2>1, TwoArms DEF f
<1>4. ASSUME SseRead(b, 242, w, 44, xmm, full, reg, v) PROVE Reads(b, d("CVTTSD2SI", full))
    <2>1. f.two /\ f.opcode = 44 /\ f.prefix = 242
          /\ d("CVTTSD2SI", full) = ToReg(b, f, "CVTTSD2SI", Full(f), 128)
        BY <1>1, <1>2, <1>4 DEF xmm
    <2>2. QED
        BY <2>1, TwoArms DEF f
<1>5. QED
    BY <1>3, <1>4, Zenon DEF d, full, xmm, Tells

LEMMA SseTable ==
    ASSUME NEW o \in Sse
    PROVE  /\ Mandatory(SseOp[o][1]) /\ SseOp[o][2] \in Int /\ Straight(o)
<1>1. Straight(o)
    BY CanonicalFact DEF Straight, Sse, Shift
<1>2. CASE o = "ADDSD" BY <1>1, <1>2 DEF SseOp, Mandatory
<1>3. CASE o = "SUBSD" BY <1>1, <1>3 DEF SseOp, Mandatory
<1>4. CASE o = "MULSD" BY <1>1, <1>4 DEF SseOp, Mandatory
<1>5. CASE o = "DIVSD" BY <1>1, <1>5 DEF SseOp, Mandatory
<1>6. CASE o = "UCOMISD" BY <1>1, <1>6 DEF SseOp, Mandatory
<1>7. CASE o = "XORPD" BY <1>1, <1>7 DEF SseOp, Mandatory
<1>8. QED
    BY <1>2, <1>3, <1>4, <1>5, <1>6, <1>7 DEF Sse

LEMMA SseTells ==
    ASSUME NEW o \in Sse, NEW b, NEW w, NEW reg, NEW v,
           SseRead(b, SseOp[o][1], w, SseOp[o][2], 128, 128, reg, v)
    PROVE  Tells(b, o, <<RegisterValue(128, reg), v>>)
<1> DEFINE f == Fields(b)
           xmm == 128
           d == Is(o, <<RegisterValue(xmm, reg), v>>, Count(b) + 1)
<1>1. /\ f.two /\ f.opcode = SseOp[o][2] /\ f.prefix = SseOp[o][1]
      /\ d = ToReg(b, f, o, xmm, xmm)
    <2> HIDE DEF xmm
    <2>1. SseRead(b, SseOp[o][1], w, SseOp[o][2], xmm, xmm, reg, v)
        BY DEF xmm
    <2>2. QED
        BY <2>1, Zenon DEF SseRead, RegAndRm
<1> HIDE DEF f, d
<1>2. CASE o = "ADDSD"
    <2>1. f.opcode = 88 /\ f.prefix = 242 /\ d = ToReg(b, f, "ADDSD", 128, 128)
        BY <1>1, <1>2 DEF SseOp
    <2>2. Reads(b, d)
        BY <1>1, <2>1, TwoArms DEF f
    <2>3. QED
        BY <2>2 DEF d, Tells
<1>3. CASE o = "SUBSD"
    <2>1. f.opcode = 92 /\ f.prefix = 242 /\ d = ToReg(b, f, "SUBSD", 128, 128)
        BY <1>1, <1>3 DEF SseOp
    <2>2. Reads(b, d)
        BY <1>1, <2>1, TwoArms DEF f
    <2>3. QED
        BY <2>2 DEF d, Tells
<1>4. CASE o = "MULSD"
    <2>1. f.opcode = 89 /\ f.prefix = 242 /\ d = ToReg(b, f, "MULSD", 128, 128)
        BY <1>1, <1>4 DEF SseOp
    <2>2. Reads(b, d)
        BY <1>1, <2>1, TwoArms DEF f
    <2>3. QED
        BY <2>2 DEF d, Tells
<1>5. CASE o = "DIVSD"
    <2>1. f.opcode = 94 /\ f.prefix = 242 /\ d = ToReg(b, f, "DIVSD", 128, 128)
        BY <1>1, <1>5 DEF SseOp
    <2>2. Reads(b, d)
        BY <1>1, <2>1, TwoArms DEF f
    <2>3. QED
        BY <2>2 DEF d, Tells
<1>6. CASE o = "UCOMISD"
    <2>1. f.opcode = 46 /\ f.prefix = 102 /\ d = ToReg(b, f, "UCOMISD", 128, 128)
        BY <1>1, <1>6 DEF SseOp
    <2>2. Reads(b, d)
        BY <1>1, <2>1, TwoArms DEF f
    <2>3. QED
        BY <2>2 DEF d, Tells
<1>7. CASE o = "XORPD"
    <2>1. f.opcode = 87 /\ f.prefix = 102 /\ d = ToReg(b, f, "XORPD", 128, 128)
        BY <1>1, <1>7 DEF SseOp
    <2>2. Reads(b, d)
        BY <1>1, <2>1, TwoArms DEF f
    <2>3. QED
        BY <2>2 DEF d, Tells
<1>8. QED
    BY <1>2, <1>3, <1>4, <1>5, <1>6, <1>7 DEF Sse

LEMMA PairKinds ==
    ASSUME NEW ops \in Seq(Operand), Len(ops) = 2
    PROVE  Kinds(ops) = <<ops[1].kind, ops[2].kind>>
<1>1. DOMAIN ops = 1 .. 2
    BY LenProperties
<1>2. DOMAIN ops = {1, 2}
    BY <1>1
<1>3. Kinds(ops) = [k \in {1, 2} |-> ops[k].kind]
    BY <1>2 DEF Kinds
<1>4. QED
    BY <1>3

LEMMA XmmFacts ==
    ASSUME NEW op
    PROVE  /\ Xmm(op) => op.kind = "REG" /\ op.reg \in 0 .. 79
                         /\ Register(op) = RegisterValue(128, op.reg)
           /\ Gpr64(op) => op.kind = "REG" /\ op.reg \in 0 .. 79
                           /\ Register(op) = RegisterValue(64, op.reg)
           /\ valid_memory_base(op) => op.kind = "MEM" /\ op.reg \in 0 .. 79
<1>1. ASSUME Xmm(op)
      PROVE  op.kind = "REG" /\ op.reg \in 0 .. 79 /\ Register(op) = RegisterValue(128, op.reg)
    <2>1. op.kind = "REG" /\ reg_width_bits(op.reg) = 128
        BY <1>1, WidthRange DEF Xmm
    <2>2. QED
        BY <2>1, WidthRange DEF Register, Width
<1>2. ASSUME Gpr64(op)
      PROVE  op.kind = "REG" /\ op.reg \in 0 .. 79 /\ Register(op) = RegisterValue(64, op.reg)
    <2>1. op.kind = "REG" /\ reg_width_bits(op.reg) = 64
        BY <1>2 DEF Gpr64, Width
    <2>2. QED
        BY <2>1, WidthRange DEF Register, Width
<1>3. ASSUME valid_memory_base(op) PROVE op.kind = "MEM" /\ op.reg \in 0 .. 79
    BY <1>3 DEF valid_memory_base, reg_is_gpr
<1>4. QED
    BY <1>1, <1>2, <1>3

LEMMA SaysBytes ==
    ASSUME NEW o, NEW ops, NEW t, NEW e, Right(o, ops, t, e.bytes)
    PROVE  Says(o, ops, t, e)
    BY DEF Says

LEMMA XmmBinarySays ==
    ASSUME NEW o \in Sse, NEW ops \in Seq(Operand), NEW t
    PROVE  Says(o, ops, t, encode_xmm_binary(ops, SseOp[o][1], SseOp[o][2]))
<1> DEFINE prefix == SseOp[o][1]
           op == SseOp[o][2]
           reg == ops[1].reg
           rm == ops[2].reg
           w == FALSE
           xmm == 128
           e == SseReg(prefix, w, reg, rm, op)
           all == encode_xmm_binary(ops, prefix, op)
           b == e.bytes
           ok == Len(ops) = 2 /\ Xmm(ops[1]) /\ Xmm(ops[2])
<1>1. Mandatory(prefix) /\ op \in Int /\ Straight(o)
    BY SseTable
<1>2. ASSUME ok PROVE Right(o, ops, t, b)
    <2>1. /\ reg \in 0 .. 79 /\ rm \in 0 .. 79
          /\ Register(ops[1]) = RegisterValue(xmm, reg)
          /\ Register(ops[2]) = RegisterValue(xmm, rm)
          /\ ops[1].kind = "REG" /\ ops[2].kind = "REG"
        BY <1>2, XmmFacts
    <2>2. Kinds(ops) = <<"REG", "REG">>
        BY <1>2, <2>1, PairKinds
    <2>3. w \in BOOLEAN /\ NotByte(xmm)
        BY DEF NotByte
    <2> HIDE DEF prefix, op, reg, rm, w, xmm
    <2>4. SseRead(b, prefix, w, op, xmm, xmm, reg, RegisterValue(xmm, rm))
        BY <1>1, <2>1, <2>3, SseRegisterRead, Zenon
    <2> HIDE DEF b
    <2> DEFINE v == RegisterValue(xmm, rm)
    <2> HIDE DEF v
    <2>5. SseRead(b, SseOp[o][1], w, SseOp[o][2], 128, 128, reg, v)
        BY <2>4 DEF prefix, op, xmm, v
    <2>6. Tells(b, o, <<RegisterValue(128, reg), v>>)
        BY <2>5, SseTells
    <2>7. Tells(b, o, <<Register(ops[1]), Register(ops[2])>>)
        BY <2>1, <2>6 DEF xmm, v
    <2>8. QED
        BY <1>1, <2>2, <2>7, TwoRegistersRight
<1>3. all = IF ok THEN e ELSE make_error
    BY DEF encode_xmm_binary
<1> HIDE DEF all, ok, e
<1>4. Says(o, ops, t, all)
    <2>1. CASE ok
        BY <1>2, <1>3, <2>1, SaysBytes
    <2>2. CASE ~ok
        BY <1>3, <2>2, SaysError
    <2>3. QED
        BY <2>1, <2>2
<1>5. QED
    BY <1>4 DEF all, prefix, op

\* The general register of a conversion is 32 or 64 bits wide.
Whole(op) == reg_is_gpr(op.reg) /\ Width(op) \in {32, 64}

LEMMA WholeFacts ==
    ASSUME NEW op, Whole(op)
    PROVE  /\ op.reg \in 0 .. 79 /\ NotByte(FullWidth(Width(op) = 64))
           /\ Register(op) = RegisterValue(FullWidth(Width(op) = 64), op.reg)
<1>1. Width(op) \in {32, 64} /\ FullWidth(Width(op) = 64) = Width(op)
    BY DEF Whole, FullWidth
<1>2. op.reg \in 0 .. 79
    BY DEF Whole, reg_is_gpr
<1>3. QED
    BY <1>1, <1>2 DEF Register, NotByte

LEMMA ConvertSays ==
    ASSUME NEW ops \in Seq(Operand), NEW t
    PROVE  /\ Says("CVTSI2SD", ops, t, Convert(ops, 2, 42))
           /\ Says("CVTTSD2SI", ops, t, Convert(ops, 1, 44))
<1> DEFINE reg == ops[1].reg
           rm == ops[2].reg
           prefix == 242
           xmm == 128
           to == 42
           from == 44
           pair == Kinds(ops) = <<"REG", "REG">>
<1>1. Straight("CVTSI2SD") /\ Straight("CVTTSD2SI")
    BY CanonicalFact DEF Straight, Shift
<1>2. pair => ops[1].kind = "REG" /\ ops[2].kind = "REG"
    BY TwoKinds
<1>3. Mandatory(prefix) /\ to \in Int /\ from \in Int /\ NotByte(xmm)
    BY DEF Mandatory, NotByte
<1>4. Says("CVTSI2SD", ops, t, Convert(ops, 2, 42))
    <2> DEFINE w == Width(ops[2]) = 64
               full == FullWidth(w)
               e == SseReg(prefix, w, reg, rm, to)
               b == e.bytes
               v == RegisterValue(full, rm)
               ok == pair /\ reg_is_xmm(reg) /\ Whole(ops[2])
    <2>1. Convert(ops, 2, 42) = IF ok THEN e ELSE make_error
        BY DEF Convert, Whole
    <2>2. ASSUME ok PROVE Right("CVTSI2SD", ops, t, b)
        <3>1. Xmm(ops[1])
            BY <1>2, <2>2 DEF Xmm
        <3>2. /\ reg \in 0 .. 79 /\ rm \in 0 .. 79 /\ NotByte(full) /\ w \in BOOLEAN
              /\ Register(ops[1]) = RegisterValue(xmm, reg) /\ Register(ops[2]) = v
            BY <2>2, <3>1, XmmFacts, WholeFacts
        <3> HIDE DEF prefix, xmm, to, reg, rm, w
        <3>3. SseRead(b, prefix, w, to, full, xmm, reg, v)
            <4> HIDE DEF full
            <4>1. QED
                BY <1>3, <3>2, SseRegisterRead, Zenon
        <3> HIDE DEF b, v
        <3>4. SseRead(b, 242, w, 42, FullWidth(w), 128, reg, v)
            BY <3>3 DEF prefix, to, xmm
        <3>5. Tells(b, "CVTSI2SD", <<RegisterValue(128, reg), v>>)
            BY <3>4, ConvertTells
        <3>6. Tells(b, "CVTSI2SD", <<Register(ops[1]), Register(ops[2])>>)
            BY <3>2, <3>5 DEF xmm
        <3>7. QED
            BY <1>1, <2>2, <3>6, TwoRegistersRight
    <2> HIDE DEF ok, e
    <2>3. CASE ok
        BY <2>1, <2>2, <2>3, SaysBytes
    <2>4. CASE ~ok
        BY <2>1, <2>4, SaysError
    <2>5. QED
        BY <2>3, <2>4
<1>5. Says("CVTTSD2SI", ops, t, Convert(ops, 1, 44))
    <2> DEFINE w == Width(ops[1]) = 64
               full == FullWidth(w)
               e == SseReg(prefix, w, reg, rm, from)
               b == e.bytes
               v == RegisterValue(xmm, rm)
               ok == pair /\ reg_is_xmm(rm) /\ Whole(ops[1])
    <2>1. Convert(ops, 1, 44) = IF ok THEN e ELSE make_error
        BY DEF Convert, Whole
    <2>2. ASSUME ok PROVE Right("CVTTSD2SI", ops, t, b)
        <3>1. Xmm(ops[2])
            BY <1>2, <2>2 DEF Xmm
        <3>2. /\ reg \in 0 .. 79 /\ rm \in 0 .. 79 /\ NotByte(full) /\ w \in BOOLEAN
              /\ Register(ops[1]) = RegisterValue(full, reg) /\ Register(ops[2]) = v
            BY <2>2, <3>1, XmmFacts, WholeFacts
        <3> HIDE DEF prefix, xmm, from, reg, rm, w
        <3>3. SseRead(b, prefix, w, from, xmm, full, reg, v)
            <4> HIDE DEF full
            <4>1. QED
                BY <1>3, <3>2, SseRegisterRead, Zenon
        <3> HIDE DEF b, v
        <3>4. SseRead(b, 242, w, 44, 128, FullWidth(w), reg, v)
            BY <3>3 DEF prefix, from, xmm
        <3>5. Tells(b, "CVTTSD2SI", <<RegisterValue(FullWidth(w), reg), v>>)
            BY <3>4, ConvertTells
        <3>6. Tells(b, "CVTTSD2SI", <<Register(ops[1]), Register(ops[2])>>)
            BY <3>2, <3>5
        <3>7. QED
            BY <1>1, <2>2, <3>6, TwoRegistersRight
    <2> HIDE DEF ok, e
    <2>3. CASE ok
        BY <2>1, <2>2, <2>3, SaysBytes
    <2>4. CASE ~ok
        BY <2>1, <2>4, SaysError
    <2>5. QED
        BY <2>3, <2>4
<1>6. QED
    BY <1>4, <1>5

\* The five moves, by what they read as.
LEMMA SseMoveRight ==
    ASSUME NEW ops \in Seq(Operand), NEW t, Len(ops) = 2, NEW b, Addressed(ops), NEW w
    PROVE  LET dst == ops[1]
               src == ops[2]
           IN  /\ Xmm(dst) /\ Xmm(src)
                    /\ SseRead(b, 243, w, 126, 128, 128, dst.reg, RegisterValue(128, src.reg))
                  => Right("MOV", ops, t, b)
               /\ Xmm(dst) /\ Gpr64(src)
                    /\ SseRead(b, 102, Double, 110, 64, 128, dst.reg, RegisterValue(64, src.reg))
                  => Right("MOV", ops, t, b)
               /\ Gpr64(dst) /\ Xmm(src)
                    /\ SseRead(b, 102, Double, 126, 64, 128, src.reg, RegisterValue(64, dst.reg))
                  => Right("MOV", ops, t, b)
               /\ Xmm(dst) /\ valid_memory_base(src)
                    /\ SseRead(b, 243, w, 126, 128, 128, dst.reg,
                               <<"mem", reg_index(src.reg), src.imm>>)
                  => Right("MOV", ops, t, b)
               /\ valid_memory_base(dst) /\ Xmm(src)
                    /\ SseRead(b, 102, Single, 214, 128, 128, src.reg,
                               <<"mem", reg_index(dst.reg), dst.imm>>)
                  => Right("MOV", ops, t, b)
<1> DEFINE dst == ops[1]
           src == ops[2]
           d == dst.reg
           s == src.reg
           o == "MOV"
           xmm == 128
           At(op) == <<"mem", reg_index(op.reg), op.imm>>
<1>1. Straight(o)
    BY CanonicalFact DEF Straight, Shift
<1>2. Kinds(ops) = <<dst.kind, src.kind>>
    BY PairKinds
<1>3. /\ Xmm(dst) => dst.kind = "REG" /\ Register(dst) = RegisterValue(xmm, d)
      /\ Xmm(src) => src.kind = "REG" /\ Register(src) = RegisterValue(xmm, s)
      /\ Gpr64(dst) => dst.kind = "REG" /\ Register(dst) = RegisterValue(64, d)
      /\ Gpr64(src) => src.kind = "REG" /\ Register(src) = RegisterValue(64, s)
      /\ valid_memory_base(dst) => dst.kind = "MEM"
      /\ valid_memory_base(src) => src.kind = "MEM"
    BY XmmFacts
<1>4. ASSUME dst.kind = "REG", src.kind = "REG", Tells(b, o, <<Register(dst), Register(src)>>)
      PROVE  Right(o, ops, t, b)
    <2>1. Kinds(ops) = <<"REG", "REG">>
        BY <1>2, <1>4
    <2> HIDE DEF o
    <2>2. QED
        BY <1>1, <1>4, <2>1, TwoRegistersRight
<1>5. ASSUME dst.kind = "REG", src.kind = "MEM", Tells(b, o, <<Register(dst), At(src)>>)
      PROVE  Right(o, ops, t, b)
    <2>1. Kinds(ops) = <<"REG", "MEM">>
        BY <1>2, <1>5
    <2>2. Denoted(o, ops, t) = <<Register(dst), At(src)>>
        BY <2>1, RegOtherDenoted, Zenon
    <2> HIDE DEF o, At, dst, src
    <2>3. QED
        BY <1>1, <1>5, <2>2, Zenon DEF Right, Straight
<1>6. ASSUME dst.kind = "MEM", src.kind = "REG", Tells(b, o, <<At(dst), Register(src)>>)
      PROVE  Right(o, ops, t, b)
    <2>1. Kinds(ops) = <<"MEM", "REG">>
        BY <1>2, <1>6
    <2>2. Denoted(o, ops, t) = <<At(dst), Register(src)>>
        BY <1>1, <2>1, OtherRegDenoted, Zenon
    <2> HIDE DEF o, At, dst, src
    <2>3. QED
        BY <1>1, <1>6, <2>2, Zenon DEF Right, Straight
<1> HIDE DEF At, dst, src
<1>7. ASSUME NEW reg, NEW v
      PROVE  /\ SseRead(b, 243, w, 126, 128, 128, reg, v)
                => Tells(b, o, <<RegisterValue(xmm, reg), v>>)
             /\ SseRead(b, 102, Double, 110, 64, 128, reg, v)
                => Tells(b, o, <<RegisterValue(xmm, reg), v>>)
             /\ SseRead(b, 102, Double, 126, 64, 128, reg, v)
                => Tells(b, o, <<v, RegisterValue(xmm, reg)>>)
             /\ SseRead(b, 102, Single, 214, 128, 128, reg, v)
                => Tells(b, o, <<v, RegisterValue(xmm, reg)>>)
    BY SseMoveTells
<1> HIDE DEF o
<1>8. ASSUME Xmm(dst), Xmm(src), SseRead(b, 243, w, 126, 128, 128, d, RegisterValue(xmm, s))
      PROVE  Right(o, ops, t, b)
    <2>1. Tells(b, o, <<RegisterValue(xmm, d), RegisterValue(xmm, s)>>)
        BY <1>7, <1>8
    <2>2. QED
        BY <1>3, <1>4, <1>8, <2>1
<1>9. ASSUME Xmm(dst), Gpr64(src),
             SseRead(b, 102, Double, 110, 64, 128, d, RegisterValue(64, s))
      PROVE  Right(o, ops, t, b)
    <2>1. Tells(b, o, <<RegisterValue(xmm, d), RegisterValue(64, s)>>)
        BY <1>7, <1>9
    <2>2. QED
        BY <1>3, <1>4, <1>9, <2>1
<1>10. ASSUME Gpr64(dst), Xmm(src),
             SseRead(b, 102, Double, 126, 64, 128, s, RegisterValue(64, d))
      PROVE  Right(o, ops, t, b)
    <2>1. Tells(b, o, <<RegisterValue(64, d), RegisterValue(xmm, s)>>)
        BY <1>7, <1>10
    <2>2. QED
        BY <1>3, <1>4, <1>10, <2>1
<1>11. ASSUME Xmm(dst), valid_memory_base(src), SseRead(b, 243, w, 126, 128, 128, d, At(src))
      PROVE  Right(o, ops, t, b)
    <2>1. Tells(b, o, <<RegisterValue(xmm, d), At(src)>>)
        BY <1>7, <1>11
    <2>2. QED
        BY <1>3, <1>5, <1>11, <2>1
<1>12. ASSUME valid_memory_base(dst), Xmm(src),
             SseRead(b, 102, Single, 214, 128, 128, s, At(dst))
      PROVE  Right(o, ops, t, b)
    <2>1. Tells(b, o, <<At(dst), RegisterValue(xmm, s)>>)
        BY <1>7, <1>12
    <2>2. QED
        BY <1>3, <1>6, <1>12, <2>1
<1>13. QED
    BY <1>8, <1>9, <1>10, <1>11, <1>12, Zenon DEF dst, src, At, xmm, o

LEMMA SseMoveSays ==
    ASSUME NEW ops \in Seq(Operand), NEW t, Addressed(ops)
    PROVE  Says("MOV", ops, t, sse2_encode_move(ops))
<1> DEFINE dst == ops[1]
           src == ops[2]
           e == sse2_encode_move(ops)
           load == 243
           store == 102
           e1 == SseReg(load, Single, dst.reg, src.reg, 126)
           e2 == SseReg(store, Double, dst.reg, src.reg, 110)
           e3 == SseMem(load, dst.reg, src, 126)
           e4 == SseReg(store, Double, src.reg, dst.reg, 126)
           e5 == SseMem(store, src.reg, dst, 214)
           S(x) == Says("MOV", ops, t, x)
<1>1. CASE Len(ops) # 2
    BY <1>1, SaysError DEF sse2_encode_move
<1>2. CASE Len(ops) = 2
    <2>1. e = CASE Xmm(dst) /\ Xmm(src)   -> e1
                [] Xmm(dst) /\ Gpr64(src) -> e2
                [] Xmm(dst) /\ valid_memory_base(src) -> e3
                [] Gpr64(dst) /\ Xmm(src) -> e4
                [] valid_memory_base(dst) /\ Xmm(src) -> e5
                [] OTHER -> make_error
        BY <1>2, Zenon DEF sse2_encode_move, Single, Double
    <2>2. /\ dst \in Operand /\ src \in Operand /\ src.imm \in Number /\ dst.imm \in Number
          /\ valid_memory_base(dst) => immediate_fits_i32(dst.imm)
          /\ valid_memory_base(src) => immediate_fits_i32(src.imm)
        <3>1. 1 \in DOMAIN ops /\ 2 \in DOMAIN ops
            BY <1>2, LenProperties
        <3>2. dst \in Operand /\ src \in Operand
            BY <3>1, LenProperties
        <3>3. QED
            BY <3>1, <3>2, OperandFact, XmmFacts DEF Addressed
    <2>3. /\ Mandatory(load) /\ Mandatory(store) /\ Single \in BOOLEAN /\ Double \in BOOLEAN
          /\ NotByte(128) /\ NotByte(64)
        BY DEF Mandatory, Single, Double, NotByte
    <2>4. \A op \in {dst, src} :
             Xmm(op) \/ Gpr64(op) \/ valid_memory_base(op) => op.reg \in 0 .. 79
        BY XmmFacts
    <2> DEFINE o1 == 126
               o2 == 110
               o3 == 214
               xmm == 128
               gpr == 64
    <2>5. o1 \in Int /\ o2 \in Int /\ o3 \in Int
        OBVIOUS
    <2>6. Xmm(dst) /\ Xmm(src) => S(e1)
        <3>1. SUFFICES ASSUME Xmm(dst), Xmm(src) PROVE S(e1)
            OBVIOUS
        <3> HIDE DEF load, o1, xmm
        <3>2. SseRead(e1.bytes, load, Single, o1, xmm, xmm, dst.reg, RegisterValue(xmm, src.reg))
            <4>1. dst.reg \in 0 .. 79 /\ src.reg \in 0 .. 79 /\ NotByte(xmm)
                BY <2>3, <2>4, <3>1 DEF xmm
            <4>2. e1 = SseReg(load, Single, dst.reg, src.reg, o1)
                BY DEF o1
            <4> HIDE DEF e1, dst, src
            <4>3. QED
                BY <2>3, <2>5, <4>1, <4>2, SseRegisterRead
        <3> HIDE DEF e1
        <3>3. Right("MOV", ops, t, e1.bytes)
            BY <1>2, <3>1, <3>2, SseMoveRight DEF load, o1, xmm
        <3>4. QED
            BY <3>3, SaysBytes
    <2>7. Xmm(dst) /\ Gpr64(src) => S(e2)
        <3>1. SUFFICES ASSUME Xmm(dst), Gpr64(src) PROVE S(e2)
            OBVIOUS
        <3> HIDE DEF store, o2, xmm, gpr
        <3>2. SseRead(e2.bytes, store, Double, o2, gpr, xmm, dst.reg, RegisterValue(gpr, src.reg))
            <4>1. dst.reg \in 0 .. 79 /\ src.reg \in 0 .. 79 /\ NotByte(xmm) /\ NotByte(gpr)
                BY <2>3, <2>4, <3>1 DEF xmm, gpr
            <4>2. e2 = SseReg(store, Double, dst.reg, src.reg, o2)
                BY DEF o2
            <4> HIDE DEF e2, dst, src
            <4>3. QED
                BY <2>3, <2>5, <4>1, <4>2, SseRegisterRead
        <3> HIDE DEF e2
        <3>3. Right("MOV", ops, t, e2.bytes)
            BY <1>2, <3>1, <3>2, SseMoveRight DEF store, o2, xmm, gpr
        <3>4. QED
            BY <3>3, SaysBytes
    <2>8. Gpr64(dst) /\ Xmm(src) => S(e4)
        <3>1. SUFFICES ASSUME Gpr64(dst), Xmm(src) PROVE S(e4)
            OBVIOUS
        <3> HIDE DEF store, o1, xmm, gpr
        <3>2. SseRead(e4.bytes, store, Double, o1, gpr, xmm, src.reg, RegisterValue(gpr, dst.reg))
            <4>1. dst.reg \in 0 .. 79 /\ src.reg \in 0 .. 79 /\ NotByte(xmm) /\ NotByte(gpr)
                BY <2>3, <2>4, <3>1 DEF xmm, gpr
            <4>2. e4 = SseReg(store, Double, src.reg, dst.reg, o1)
                BY DEF o1
            <4> HIDE DEF e4, dst, src
            <4>3. QED
                BY <2>3, <2>5, <4>1, <4>2, SseRegisterRead
        <3> HIDE DEF e4
        <3>3. Right("MOV", ops, t, e4.bytes)
            BY <1>2, <3>1, <3>2, SseMoveRight DEF store, o1, xmm, gpr
        <3>4. QED
            BY <3>3, SaysBytes
    <2>9. Xmm(dst) /\ valid_memory_base(src) => S(e3)
        <3>1. SUFFICES ASSUME Xmm(dst), valid_memory_base(src) PROVE S(e3)
            OBVIOUS
        <3> HIDE DEF load, o1
        <3> DEFINE v == <<"mem", reg_index(src.reg), src.imm>>
        <3>2. SseRead(e3.bytes, load, Single, o1, 128, 128, dst.reg, v)
            <4>1. dst.reg \in 0 .. 79 /\ src.reg \in 0 .. 79 /\ src.imm \in Number
                  /\ immediate_fits_i32(src.imm)
                BY <2>2, <2>4, <3>1
            <4>2. e3 = SseMem(load, dst.reg, src, o1)
                BY DEF o1
            <4> HIDE DEF e3, dst, src
            <4>3. QED
                BY <2>3, <2>5, <4>1, <4>2, SseAddressRead
        <3> HIDE DEF e3
        <3>3. Right("MOV", ops, t, e3.bytes)
            BY <1>2, <3>1, <3>2, SseMoveRight DEF load, o1
        <3>4. QED
            BY <3>3, SaysBytes
    <2>10. valid_memory_base(dst) /\ Xmm(src) => S(e5)
        <3>1. SUFFICES ASSUME valid_memory_base(dst), Xmm(src) PROVE S(e5)
            OBVIOUS
        <3> HIDE DEF store, o3
        <3> DEFINE v == <<"mem", reg_index(dst.reg), dst.imm>>
        <3>2. SseRead(e5.bytes, store, Single, o3, 128, 128, src.reg, v)
            <4>1. dst.reg \in 0 .. 79 /\ src.reg \in 0 .. 79 /\ dst.imm \in Number
                  /\ immediate_fits_i32(dst.imm)
                BY <2>2, <2>4, <3>1
            <4>2. e5 = SseMem(store, src.reg, dst, o3)
                BY DEF o3
            <4> HIDE DEF e5, dst, src
            <4>3. QED
                BY <2>3, <2>5, <4>1, <4>2, SseAddressRead
        <3> HIDE DEF e5
        <3>3. Right("MOV", ops, t, e5.bytes)
            BY <1>2, <3>1, <3>2, SseMoveRight DEF store, o3
        <3>4. QED
            BY <3>3, SaysBytes
    <2>11. S(make_error)
        BY SaysError
    <2> HIDE DEF e, e1, e2, e3, e4, e5, S, dst, src
    <2>12. \/ e = make_error
           \/ e = e1 /\ Xmm(dst) /\ Xmm(src)
           \/ e = e2 /\ Xmm(dst) /\ Gpr64(src)
           \/ e = e3 /\ Xmm(dst) /\ valid_memory_base(src)
           \/ e = e4 /\ Gpr64(dst) /\ Xmm(src)
           \/ e = e5 /\ valid_memory_base(dst) /\ Xmm(src)
        BY <2>1
    <2>13. S(e)
        BY <2>6, <2>7, <2>8, <2>9, <2>10, <2>11, <2>12
    <2>14. QED
        BY <2>13 DEF S, e
<1>3. QED
    BY <1>1, <1>2

-----------------------------------------------------------------------------
(* The theorem *)

LEMMA EverySays ==
    ASSUME NEW o, NEW ops \in Seq(Operand), NEW t \in Number, Addressed(ops),
           o \in Fixed => ops = <<>>
    PROVE  Says(o, ops, t, encoder_encode(o, ops, t))
<1> DEFINE e == encoder_encode(o, ops, t)
<1> SUFFICES Says(o, ops, t, e)
    OBVIOUS
<1>1. CASE o = "MOV"
    <2>1. e = IF sse2_operands_use_xmm(ops) THEN sse2_encode_move(ops) ELSE enc_mov(ops)
        BY <1>1, DispatchFact
    <2>2. Says("MOV", ops, t, sse2_encode_move(ops)) /\ Says("MOV", ops, t, enc_mov(ops))
        BY SseMoveSays, MovSays
    <2>3. QED
        BY <1>1, <2>1, <2>2
<1>2. CASE o \in {"PUSH", "POP"}
    <2>1. o = "PUSH" => e = PushPop(ops, 80)
        BY DispatchFact
    <2>2. o = "POP" => e = PushPop(ops, 88)
        BY DispatchFact
    <2>3. Says("PUSH", ops, t, PushPop(ops, 80)) /\ Says("POP", ops, t, PushPop(ops, 88))
        BY PushPopSays
    <2>4. QED
        BY <1>2, <2>1, <2>2, <2>3
<1>3. CASE o \in {"LEA", "IMUL", "TEST"}
    <2>1. Says("LEA", ops, t, enc_lea(ops)) /\ Says("IMUL", ops, t, enc_imul(ops))
          /\ Says("TEST", ops, t, enc_test(ops))
        BY LeaSays, ImulSays, TestSays
    <2>2. /\ o = "LEA" => e = enc_lea(ops)
          /\ o = "IMUL" => e = enc_imul(ops)
          /\ o = "TEST" => e = enc_test(ops)
        BY DispatchFact
    <2>3. QED
        BY <1>3, <2>1, <2>2
<1>4. CASE o \in {"MOVZX", "MOVSX"}
    <2>1. e = enc_movx(ops, o = "MOVSX")
        BY <1>4, DispatchFact
    <2>2. QED
        BY <1>4, <2>1, MovxSays
<1>5. CASE o \in Alu
    <2>1. e = enc_alu(ops, AluOp[o][1], AluOp[o][2])
        BY <1>5, DispatchFact
    <2>2. QED
        BY <1>5, <2>1, AluSays
<1>6. CASE o \in Divide \union Unary
    <2>1. /\ o \in Divide => e = enc_divide(ops, DivideExt[o])
          /\ o \in Unary => e = enc_unary(ops, UnaryExt[o])
        BY DispatchFact
    <2>2. QED
        BY <1>6, <2>1, UnarySays
<1>7. CASE o \in Sse
    <2>1. e = encode_xmm_binary(ops, SseOp[o][1], SseOp[o][2])
        BY <1>7, DispatchFact
    <2>2. QED
        BY <1>7, <2>1, XmmBinarySays
<1>8. CASE o \in {"CVTSI2SD", "CVTTSD2SI"}
    <2>1. /\ o = "CVTSI2SD" => e = Convert(ops, 2, 42)
          /\ o = "CVTTSD2SI" => e = Convert(ops, 1, 44)
        BY DispatchFact
    <2>2. Says("CVTSI2SD", ops, t, Convert(ops, 2, 42))
          /\ Says("CVTTSD2SI", ops, t, Convert(ops, 1, 44))
        BY ConvertSays
    <2>3. QED
        BY <1>8, <2>1, <2>2
<1>9. CASE o \in Setcc
    <2>1. e = enc_setcc(ops, SetccOp[o])
        BY <1>9, DispatchFact
    <2>2. QED
        BY <1>9, <2>1, SetccSays
<1>10. CASE o \in Shift
    <2>1. e = enc_shift(ops, ShiftExt[o])
        BY <1>10, DispatchFact
    <2>2. QED
        BY <1>10, <2>1, ShiftSays
<1>11. CASE o \in {"JMP", "CALL"}
    <2>1. /\ o = "JMP" => e = JmpCall(ops, 4, 233, t)
          /\ o = "CALL" => e = JmpCall(ops, 2, 232, t)
        BY DispatchFact
    <2>2. Says("JMP", ops, t, JmpCall(ops, 4, 233, t))
          /\ Says("CALL", ops, t, JmpCall(ops, 2, 232, t))
        BY JmpCallSays
    <2>3. QED
        BY <1>11, <2>1, <2>2
<1>12. CASE o \in Jcc
    <2>1. e = enc_jcc(ops, t, JccOp[o])
        BY <1>12, DispatchFact
    <2>2. QED
        BY <1>12, <2>1, JccSays
<1>13. CASE o \in Fixed
    <2>1. e = from_buf(FixedBytes[o]) /\ ops = <<>>
        BY <1>13, DispatchFact
    <2>2. QED
        BY <1>13, <2>1, FixedSays
<1>14. CASE o \in {"INT", "CQO"}
    <2>1. o = "INT" => e = enc_int(ops)
        BY DispatchFact
    <2>2. o = "CQO" => e = enc_cqo(ops)
        BY DispatchFact
    <2>3. Says("INT", ops, t, enc_int(ops)) /\ Says("CQO", ops, t, enc_cqo(ops))
        BY IntSays, CqoSays
    <2>4. QED
        BY <1>14, <2>1, <2>2, <2>3
<1>15. CASE o \notin {"MOV", "PUSH", "POP", "LEA", "MOVZX", "MOVSX", "IMUL", "CQO", "CVTSI2SD",
                      "CVTTSD2SI", "TEST", "JMP", "CALL", "INT"}
               \union Alu \union Divide \union Unary \union Sse \union Setcc \union Shift
               \union Jcc \union Fixed
    <2>1. e = make_error
        BY <1>15, DispatchFact
    <2>2. QED
        BY <2>1, SaysError
<1> HIDE DEF e
<1>16. QED
    BY <1>1, <1>2, <1>3, <1>4, <1>5, <1>6, <1>7, <1>8, <1>9, <1>10, <1>11, <1>12, <1>13, <1>14,
       <1>15

(***************************************************************************)
(* For every instruction the parser can build and every displacement,      *)
(* the bytes encoder_encode emits without an error are, to the processor,  *)
(* that instruction: its operation, its registers at their width, its      *)
(* memory address and its immediate, and nothing is left over or missing.  *)
(***************************************************************************)
THEOREM BytesAlwaysMeanTheInstruction == Spec => []BytesMeanTheInstruction
<1>1. CallInv => BytesMeanTheInstruction
    <2>1. SUFFICES ASSUME CallInv, Encoded
                   PROVE  Reads(enc.bytes,
                                Is(Canonical(instr.opcode),
                                   Denoted(instr.opcode, instr.ops, target),
                                   Len(enc.bytes) + 1))
        BY DEF BytesMeanTheInstruction
    <2> DEFINE o == instr.opcode
               ops == instr.ops
               e == encoder_encode(o, ops, target)
    <2>2. ops \in Seq(Operand) /\ target \in Number /\ Addressed(ops)
        BY <2>1, ShapeFact, InstructionsAssumption DEF CallInv, Addressed
    <2>3. o \in Fixed => ops = <<>>
        <3>1. SUFFICES ASSUME o \in Fixed PROVE ops = <<>>
            OBVIOUS
        <3>2. arity(o) = 0 .. 0
            <4>1. o \notin {"MOV", "LEA", "ADD", "SUB", "AND", "OR", "XOR", "CMP", "TEST",
                    "SHL", "SHR", "SAR", "CVTSI2SD", "CVTTSD2SI"} \union Sse
                BY <3>1 DEF Fixed, Sse
            <4>2. o \notin {"IMUL", "PUSH", "POP", "IDIV", "INC", "DEC", "NEG", "NOT",
                    "JMP", "CALL", "INT"} \union Jcc
                BY <3>1 DEF Fixed, Jcc
            <4>3. QED
                BY <3>1, <4>1, <4>2, DomainFacts DEF arity
        <3>3. Len(ops) = 0
            BY <2>1, <3>2 DEF CallInv
        <3>4. QED
            BY <2>2, <3>3, EmptySeq
    <2>4. Says(o, ops, target, e)
        BY <2>2, <2>3, EverySays
    <2>5. enc = e /\ ~e.error
        BY <2>1 DEF CallInv, Encoded
    <2> HIDE DEF e, o, ops
    <2>6. Right(o, ops, target, enc.bytes)
        BY <2>4, <2>5 DEF Says
    <2>7. QED
        BY <2>6, Zenon DEF Right, Tells, Count, o, ops
<1>2. QED
    BY <1>1, CallInvHolds, PTL

=============================================================================
