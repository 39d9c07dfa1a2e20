---------------------------- MODULE PassesProof -----------------------------
(***************************************************************************)
(* Proof that pass 2 contradicts pass 1 over nothing but a string longer   *)
(* than an int counts, for every program, every set of names and every     *)
(* encoder that keeps its contract, and that what pass 1 has found stays   *)
(* true of its layout.                                                     *)
(***************************************************************************)
EXTENDS Passes, TLAPS

(***************************************************************************)
(* Facts about single statements.                                          *)
(***************************************************************************)

\* A statement of a program is a statement the parser can build.
LEMMA StatementFacts ==
    ASSUME NEW s \in Stmts
    PROVE  /\ s.directive \in Directive
           /\ s.label \in Names \union {NoName}
           /\ s.ops \in Seq(Operand)
           /\ Len(s.ops) \in 0 .. 3
           /\ DOMAIN s.ops = 1 .. Len(s.ops)
           /\ \A k \in DOMAIN s.ops :
                /\ s.ops[k] \in Operand
                /\ s.ops[k].imm \in Int
                /\ s.ops[k].kind \in {"LABEL", "RIP"} => s.ops[k].sym \in Names
                /\ s.ops[k].kind = "STRING" => s.ops[k].imm \in Nat
<1>1. s \in Statement /\ Len(s.ops) <= 3
  BY ParserAssumption DEF MAX_OPERANDS
<1>2. s.ops \in Seq(Operand) /\ s.directive \in Directive /\ s.label \in Names \union {NoName}
  BY <1>1 DEF Statement
<1>3. DOMAIN s.ops = 1 .. Len(s.ops) /\ Len(s.ops) \in 0 .. 3
  <2>1. \A q \in Seq(Operand) : DOMAIN q = 1 .. Len(q) /\ Len(q) \in Nat
    OBVIOUS
  <2>2. DOMAIN s.ops = 1 .. Len(s.ops) /\ Len(s.ops) \in Nat
    BY <1>2, <2>1, Zenon
  <2>3. \A n \in Nat : n <= 3 => n \in 0 .. 3
    OBVIOUS
  <2> QED BY <1>1, <2>2, <2>3, Zenon
<1>4. \A k \in DOMAIN s.ops : s.ops[k] \in Operand
  BY <1>2, <1>3
<1>5. \A k \in DOMAIN s.ops : s.ops[k].imm \in Int
  BY <1>4 DEF Operand
<1> QED BY <1>2, <1>3, <1>4, <1>5, ParserAssumption

\* The padding before a boundary is a number of bytes.
LEMMA PaddingIsNat ==
    ASSUME NEW a \in Nat, a > 0, NEW off \in Nat
    PROVE  Padding(a, off) \in Nat /\ Padding(a, off) < a
<1>1. off % a \in 0 .. a - 1
  OBVIOUS
<1>2. a - (off % a) \in Nat
  BY <1>1
<1> QED BY <1>2 DEF Padding

\* An instruction takes at least one byte.
LEMMA InstructionBytesPositive ==
    ASSUME NEW s \in Stmts
    PROVE  InstructionBytes(s) \in Nat /\ InstructionBytes(s) > 0
BY EncoderAssumption DEF InstructionBytes, MAX_INSTRUCTION_BYTES

\* A statement with exactly one immediate operand.
LEMMA OneImmFacts ==
    ASSUME NEW s \in Stmts, OneImm(s)
    PROVE  Len(s.ops) = 1 /\ s.ops[1].kind = "IMM" /\ Imm(s, 1) \in Int
<1>1. DOMAIN OpKinds(s) = DOMAIN s.ops
  BY DEF OpKinds
<1>2. DOMAIN <<"IMM">> = 1 .. 1
  OBVIOUS
<1>3. 1 .. Len(s.ops) = 1 .. 1
  BY <1>1, <1>2, StatementFacts DEF OneImm
<1>4. Len(s.ops) = 1
  <2>1. Len(s.ops) \in {0, 1, 2, 3}
    BY StatementFacts
  <2>2. 1 \in 1 .. Len(s.ops) /\ 2 \notin 1 .. Len(s.ops)
    BY <1>3
  <2>3. \A n \in {0, 1, 2, 3} : 1 \in 1 .. n /\ 2 \notin 1 .. n => n = 1
    OBVIOUS
  <2> QED BY <2>1, <2>2, <2>3, Zenon
<1>5. s.ops[1].kind = "IMM"
  BY <1>1, <1>2 DEF OneImm, OpKinds
<1> QED BY <1>4, <1>5, StatementFacts DEF Imm

\* The bytes of a string operand, its NUL included.
LEMMA StringBytesIsNat ==
    ASSUME NEW s \in Stmts, NEW k \in Nat
    PROVE  StringBytes(s, k) \in Nat
<1>1. CASE k \in DOMAIN s.ops /\ s.ops[k].kind = "STRING"
  <2>1. s.ops[k].imm \in Nat
    BY <1>1, StatementFacts
  <2> QED BY <1>1, <2>1 DEF StringBytes, IsString, Imm
<1>2. CASE ~(k \in DOMAIN s.ops /\ s.ops[k].kind = "STRING")
  BY <1>2 DEF StringBytes, IsString
<1> QED BY <1>1, <1>2

\* Narrowing to int stays in its range and keeps what is in the range already.
LEMMA AsIntFact ==
    ASSUME NEW n \in Int
    PROVE  /\ AsInt(n) \in Int /\ AsInt(n) <= INT_MAX
           /\ n \in 0 .. INT_MAX => AsInt(n) = n
<1> DEFINE m == 2 * INT_MAX + 2
           x == n + INT_MAX + 1
<1>1. INT_MAX \in Nat /\ m \in Nat /\ m > 0 /\ x \in Int
  BY LimitsAssumption
<1>2. AsInt(n) = (x % m) - INT_MAX - 1
  BY DEF AsInt
<1>3. x % m \in 0 .. m - 1
  <2> HIDE DEF m, x
  <2> QED BY <1>1
<1>4. n \in 0 .. INT_MAX => x % m = x
  <2>1. SUFFICES ASSUME n \in 0 .. INT_MAX PROVE x % m = x
    OBVIOUS
  <2>2. x \in 0 .. m - 1
    BY <1>1, <2>1
  <2> HIDE DEF m, x
  <2> QED BY <1>1, <2>2
<1> QED BY <1>1, <1>2, <1>3, <1>4

\* One turn of the loop of data_directive_size.
LEMMA AddStringFact ==
    ASSUME NEW s \in Stmts, NEW k \in Nat, NEW total \in Int, total <= INT_MAX
    PROVE  /\ AddString(total, s, k) \in Int /\ AddString(total, s, k) <= INT_MAX
           /\ total >= 0 /\ total + StringBytes(s, k) <= INT_MAX =>
                  AddString(total, s, k) = total + StringBytes(s, k)
<1>1. CASE IsString(s, k)
  <2> DEFINE len    == Imm(s, k)
             cast   == AsInt(len)
             narrow == AsInt(cast + 1)
             sum    == AsInt(total + narrow)
  <2>1. len \in Nat /\ INT_MAX \in Nat
    BY <1>1, StatementFacts, LimitsAssumption DEF IsString, Imm
  <2>2. AddString(total, s, k) = sum /\ StringBytes(s, k) = len + 1
    BY <1>1 DEF AddString, StringBytes
  <2> HIDE DEF len
  <2>3. cast \in Int /\ (len <= INT_MAX => cast = len)
    <3>1. len \in Int /\ (len <= INT_MAX => len \in 0 .. INT_MAX)
      BY <2>1
    <3> QED BY <3>1, AsIntFact
  <2> HIDE DEF cast
  <2>4. narrow \in Int /\ (cast + 1 \in 0 .. INT_MAX => narrow = cast + 1)
    <3>1. cast + 1 \in Int
      BY <2>3
    <3> QED BY <3>1, AsIntFact
  <2> HIDE DEF narrow
  <2>5. /\ sum \in Int /\ sum <= INT_MAX
        /\ total + narrow \in 0 .. INT_MAX => sum = total + narrow
    <3>1. total + narrow \in Int
      BY <2>4
    <3> QED BY <3>1, AsIntFact
  <2> HIDE DEF sum
  <2>6. ASSUME total >= 0, total + (len + 1) <= INT_MAX
        PROVE  narrow = len + 1 /\ total + narrow \in 0 .. INT_MAX
    <3>1. len <= INT_MAX /\ len + 1 \in 0 .. INT_MAX
      BY <2>1, <2>6
    <3>2. narrow = len + 1
      BY <2>3, <2>4, <3>1
    <3> QED BY <2>1, <2>6, <3>2
  <2> QED BY <2>2, <2>5, <2>6
<1>2. CASE ~IsString(s, k)
  BY <1>2 DEF AddString, StringBytes
<1> QED BY <1>1, <1>2

\* The bytes of a string directive, and what data_directive_size makes of them.
LEMMA StringsCounted ==
    ASSUME NEW s \in Stmts, s.directive = "NUL_STRING", NEW off \in Nat
    PROVE  /\ BytesWanted(s, off) = BytesUpTo(s, MAX_OPERANDS) /\ BytesWanted(s, off) \in Nat
           /\ data_directive_size_at(s, off) \in Int
           /\ data_directive_size_at(s, off) <= INT_MAX
           /\ BytesWanted(s, off) <= INT_MAX =>
                  data_directive_size_at(s, off) = BytesWanted(s, off)
<1> DEFINE b1 == StringBytes(s, 1)
           b2 == StringBytes(s, 2)
           b3 == StringBytes(s, 3)
           t1 == AddString(0, s, 1)
           t2 == AddString(t1, s, 2)
           t3 == AddString(t2, s, 3)
<1>1. b1 \in Nat /\ b2 \in Nat /\ b3 \in Nat
  BY StringBytesIsNat
<1>2. BytesUpTo(s, MAX_OPERANDS) = b1 + b2 + b3
  <2>1. \A k \in {1, 2, 3} : OperandBytes(s, k) = StringBytes(s, k)
    BY DEF OperandBytes, StringBytes, IsString
  <2> QED BY <2>1 DEF BytesUpTo, MAX_OPERANDS
<1>3. BytesWanted(s, off) = BytesUpTo(s, MAX_OPERANDS)
  BY DEF BytesWanted, WritesPerOperand
<1>4. data_directive_size_at(s, off) = t3
  <2>1. data_directive_size(s) = t3
    BY Zenon DEF data_directive_size, IntDirective
  <2> QED BY <2>1, Zenon DEF data_directive_size_at
<1>5. INT_MAX \in Nat
  BY LimitsAssumption
<1>6. t1 \in Int /\ t1 <= INT_MAX /\ (b1 <= INT_MAX => t1 = b1)
  <2>1. 0 \in Int /\ 0 <= INT_MAX /\ 1 \in Nat
    BY <1>5
  <2>2. t1 \in Int /\ t1 <= INT_MAX /\ (0 >= 0 /\ 0 + b1 <= INT_MAX => t1 = 0 + b1)
    BY <2>1, AddStringFact
  <2> HIDE DEF t1, b1
  <2> QED BY <1>1, <2>2
<1> HIDE DEF b1, t1
<1>7. t2 \in Int /\ t2 <= INT_MAX /\ (t1 >= 0 /\ t1 + b2 <= INT_MAX => t2 = t1 + b2)
  BY <1>6, AddStringFact
<1> HIDE DEF b2, t2
<1>8. t3 \in Int /\ t3 <= INT_MAX /\ (t2 >= 0 /\ t2 + b3 <= INT_MAX => t3 = t2 + b3)
  BY <1>7, AddStringFact
<1> HIDE DEF b3, t3
<1> QED BY <1>1, <1>2, <1>3, <1>4, <1>5, <1>6, <1>7, <1>8

\* Integers and fills are written as they were counted.
LEMMA EmittedEqualsCounted ==
    ASSUME NEW s \in Stmts, NEW off \in Nat, s.directive # "NUL_STRING",
           is_data_directive(s.directive), validate_data_directive(s)
    PROVE  /\ data_directive_size_at(s, off) \in Nat
           /\ BytesWanted(s, off) = data_directive_size_at(s, off)
<1> USE DEF IntDirective, WritesPerOperand
<1>2. CASE s.directive \in IntDirective
  <2> DEFINE e == ElementSize(s.directive)
  <2>1. e \in Nat
    BY <1>2 DEF ElementSize
  <2>2. data_directive_size_at(s, off) = Len(s.ops) * e
    BY <1>2 DEF data_directive_size_at, data_directive_size
  <2>3. BytesWanted(s, off)
          = OperandBytes(s, 1) + OperandBytes(s, 2) + OperandBytes(s, 3)
    BY <1>2 DEF BytesWanted, BytesUpTo, MAX_OPERANDS
  <2>4. \A k \in {1, 2, 3} :
          OperandBytes(s, k) = IF k \in 1 .. Len(s.ops) THEN e ELSE 0
    BY <1>2, StatementFacts DEF OperandBytes
  <2>5. \A n \in 0 .. 3 :
          n * e = (IF 1 \in 1 .. n THEN e ELSE 0) + (IF 2 \in 1 .. n THEN e ELSE 0)
                  + (IF 3 \in 1 .. n THEN e ELSE 0)
    <3> HIDE DEF e
    <3> QED BY <2>1
  <2>6. Len(s.ops) \in 0 .. 3
    BY StatementFacts
  <2>7. \A n \in 0 .. 3 : n * e \in Nat
    <3> HIDE DEF e
    <3> QED BY <2>1
  <2> HIDE DEF e
  <2>8. BytesWanted(s, off) = Len(s.ops) * e
    BY <2>3, <2>4, <2>5, <2>6
  <2> QED BY <2>2, <2>6, <2>7, <2>8, Zenon
<1>3. CASE s.directive = "ALIGNMENT"
  <2>1. OneImm(s) /\ Imm(s, 1) \in AlignmentValues
    BY <1>3 DEF validate_data_directive
  <2>2. Imm(s, 1) \in Nat /\ Imm(s, 1) > 0
    BY <2>1 DEF AlignmentValues
  <2>3. data_directive_size_at(s, off) = Padding(Imm(s, 1), off)
    BY <1>3, <2>1, <2>2 DEF data_directive_size_at
  <2>4. BytesWanted(s, off) = Padding(Imm(s, 1), off)
    BY <1>3, <2>1, <2>2 DEF BytesWanted
  <2> QED BY <2>2, <2>3, <2>4, PaddingIsNat
<1>4. CASE s.directive = "ZERO_SPACE"
  <2>1. OneImm(s) /\ Imm(s, 1) \in 0 .. INT_MAX
    BY <1>4 DEF validate_data_directive
  <2>2. Imm(s, 1) \in Nat
    BY <2>1, LimitsAssumption
  <2>3. Len(s.ops) > 0 /\ s.ops[1].kind = "IMM"
    BY <2>1, OneImmFacts
  <2>4. data_directive_size_at(s, off) = Imm(s, 1)
    BY <1>4, <2>3 DEF data_directive_size_at, data_directive_size
  <2>5. BytesWanted(s, off) = Imm(s, 1)
    BY <1>4, <2>2, <2>3 DEF BytesWanted
  <2> QED BY <2>2, <2>4, <2>5
<1> QED BY <1>2, <1>3, <1>4 DEF is_data_directive

\* pass2.c's emit_data_directive writes what pass1.c's data_directive_size
\* counted: per operand for strings and integers, as a whole for fills.  Strings
\* that overflow are more than was counted, whatever that was.
LEMMA EmittedAgainstCounted ==
    ASSUME NEW s \in Stmts, NEW off \in Nat,
           is_data_directive(s.directive), validate_data_directive(s)
    PROVE  /\ data_directive_size_at(s, off) \in Int /\ BytesWanted(s, off) \in Nat
           /\ Overflows(s) => data_directive_size_at(s, off) < BytesWanted(s, off)
           /\ ~Overflows(s) => /\ data_directive_size_at(s, off) \in Nat
                              /\ BytesWanted(s, off) = data_directive_size_at(s, off)
<1>1. CASE s.directive = "NUL_STRING"
  BY <1>1, StringsCounted, LimitsAssumption DEF Overflows
<1>2. CASE s.directive # "NUL_STRING"
  <2>1. ~Overflows(s)
    BY <1>2 DEF Overflows
  <2> QED BY <1>2, <2>1, EmittedEqualsCounted
<1> QED BY <1>1, <1>2

\* What pass 1 adds to the offset is a number of bytes.
LEMMA CountedFact ==
    ASSUME NEW s \in Stmts, NEW off \in Nat,
           is_data_directive(s.directive), validate_data_directive(s)
    PROVE  /\ Counted(s, off) \in Nat
           /\ ~Overflows(s) => Counted(s, off) = data_directive_size_at(s, off)
<1> DEFINE dsz == data_directive_size_at(s, off)
<1>1. dsz \in Int /\ (~Overflows(s) => dsz \in Nat)
  BY EmittedAgainstCounted
<1>2. Counted(s, off) = IF dsz > 0 THEN dsz ELSE 0
  BY DEF Counted
<1> HIDE DEF dsz
<1>3. Counted(s, off) \in Nat
  BY <1>1, <1>2
<1>4. ~Overflows(s) => Counted(s, off) = dsz
  BY <1>1, <1>2
<1> QED BY <1>3, <1>4 DEF dsz

-----------------------------------------------------------------------------
(* The common part of the steps *)

\* Every step of pass 1 that handles a statement extends the history.
LEMMA Advance1Agrees ==
    ASSUME PassesAgree, phase = "pass1", i <= Len(prog), Advance1,
           section' \in Section, Pass1ResultOK',
           \A s \in Section : offset[s] <= offset'[s],
           errors1' = {} =>
             /\ errors1 = {}
             /\ AcceptedAt(Stmt, section)
             /\ [section |-> section', offset |-> offset']
                   = LayoutAfter(Stmt, [section |-> section, offset |-> offset])
    PROVE  PassesAgree'
<1> USE DEF PassesAgree, TypeOK, Stmt
<1> DEFINE new == [section |-> section', offset |-> offset']
<1>1. /\ i' = i + 1 /\ layout' = Append(layout, new)
      /\ UNCHANGED <<prog, phase, size, emissions, code, relocs, location, lines, errors2>>
  BY DEF Advance1, vars2
<1>2. i \in Nat /\ Len(prog) \in Nat /\ i \in 1 .. Len(prog)
  BY DEF ControlOK
<1>3. ControlOK'
  BY <1>1, <1>2 DEF ControlOK
<1>4. Pass2ResultOK' /\ OnlyOverflowInterrupts' /\ Retraces'
  BY <1>1 DEF Pass2ResultOK, OnlyOverflowInterrupts, Accepted, Retraces
<1>5. layout \in Seq(Layout) /\ Len(layout) = i /\ new \in Layout
  BY DEF LayoutOK, Layout, Pass1ResultOK
<1>6. layout' \in Seq(Layout) /\ Len(layout') = i + 1 /\ layout'[i + 1] = new
      /\ \A k \in 1 .. i : layout'[k] = layout[k]
  <2> HIDE DEF new
  <2> QED BY <1>1, <1>2, <1>5
<1>7. \A k \in 1 .. i + 1 : \A s \in Section : layout'[k].offset[s] <= offset'[s]
  <2> SUFFICES ASSUME NEW k \in 1 .. i + 1, NEW s \in Section
               PROVE  layout'[k].offset[s] <= offset'[s]
    OBVIOUS
  <2>0. offset[s] \in Nat /\ offset'[s] \in Nat
    BY DEF Pass1ResultOK
  <2>1. CASE k = i + 1
    BY <1>6, <2>1, <2>0
  <2>2. CASE k \in 1 .. i
    <3>1. layout[k] \in Layout
      BY <1>5, <2>2
    <3>2. layout[k].offset[s] \in Nat
      BY <3>1 DEF Layout
    <3>3. layout[k].offset[s] <= offset[s]
      BY <2>2, <1>5 DEF LayoutOK
    <3> QED BY <1>6, <2>2, <2>0, <3>2, <3>3
  <2> QED BY <2>1, <2>2, <1>2
<1>8. ASSUME errors1' = {}, NEW k \in 1 .. i
      PROVE  /\ AcceptedAt(prog[k], layout'[k].section)
             /\ layout'[k + 1] = LayoutAfter(prog[k], layout'[k])
  <2>1. CASE k = i
    <3>1. layout[i] = [section |-> section, offset |-> offset]
      <4>1. layout[i] \in Layout
        BY <1>5, <1>2
      <4>2. layout[i].section = section /\ layout[i].offset = offset
        BY <1>5 DEF LayoutOK
      <4> QED BY <4>1, <4>2 DEF Layout
    <3> QED BY <1>6, <1>8, <2>1, <3>1, <1>2
  <2>2. CASE k \in 1 .. i - 1
    <3>1. /\ AcceptedAt(prog[k], layout[k].section)
          /\ layout[k + 1] = LayoutAfter(prog[k], layout[k])
      BY <1>8, <2>2, <1>5 DEF LayoutOK
    <3>2. layout'[k] = layout[k] /\ layout'[k + 1] = layout[k + 1]
      BY <1>6, <2>2, <1>2
    <3> QED BY <3>1, <3>2
  <2> QED BY <2>1, <2>2, <1>2
<1>9. LayoutOK'
  <2>1. layout'[1] = [section |-> "TEXT", offset |-> [s \in Section |-> 0]]
    BY <1>6, <1>2 DEF LayoutOK
  <2> QED BY <1>1, <1>2, <1>6, <1>7, <1>8, <2>1 DEF LayoutOK
<1> QED BY <1>3, <1>4, <1>9

\* Every step of pass 2 that handles a statement follows the history.
LEMMA Proceed2Agrees ==
    ASSUME PassesAgree, phase = "pass2", i <= Len(prog), Proceed2(TRUE),
           section' = layout[i + 1].section, size' = layout[i + 1].offset,
           Pass2ResultOK', ~Interrupted', ~Overflows(Stmt)
    PROVE  PassesAgree'
<1> USE DEF PassesAgree, TypeOK
<1>1. /\ i' = i + 1
      /\ UNCHANGED <<prog, phase, offset, alignment, symtab, files, errors1, layout>>
  BY DEF Proceed2, vars1
<1>2. i \in 1 .. Len(prog) /\ Len(prog) \in Nat
  BY DEF ControlOK
<1>3. Len(layout) = Len(prog) + 1 /\ layout \in Seq(Layout)
  BY DEF LayoutOK
<1>4. layout[i + 1] \in Layout
  BY <1>2, <1>3
<1>5. ControlOK'
  BY <1>1, <1>2, <1>4 DEF ControlOK, Layout
<1>6. Pass1ResultOK'
  BY <1>1 DEF Pass1ResultOK
<1>7. LayoutOK'
  BY <1>1 DEF LayoutOK
<1>8. Retraces'
  <2>1. \A k \in 1 .. i' - 1 : ~Overflows(prog'[k])
    <3> SUFFICES ASSUME NEW k \in 1 .. i' - 1 PROVE ~Overflows(prog[k])
      BY <1>1
    <3>1. k = i \/ k \in 1 .. i - 1
      BY <1>1, <1>2
    <3> QED BY <3>1 DEF Retraces, Stmt
  <2> QED BY <1>1, <2>1 DEF Retraces
<1>9. OnlyOverflowInterrupts'
  BY <1>1 DEF OnlyOverflowInterrupts, Accepted, Interrupted
<1> QED BY <1>5, <1>6, <1>7, <1>8, <1>9

\* An internal error at a string that overflows ends pass 2.
LEMMA InterruptAgrees ==
    ASSUME PassesAgree, phase = "pass2", i <= Len(prog), Proceed2(FALSE),
           section' = section, NEW unresolved, Report2(unresolved, TRUE),
           Pass2ResultOK', Overflows(Stmt)
    PROVE  PassesAgree'
<1> USE DEF PassesAgree, TypeOK
<1>1. /\ phase' = "done"
      /\ UNCHANGED <<prog, i, offset, alignment, symtab, files, errors1, layout>>
  BY DEF Proceed2, vars1
<1>2. ControlOK' /\ Pass1ResultOK' /\ LayoutOK'
  BY <1>1 DEF ControlOK, Pass1ResultOK, LayoutOK
<1>3. Diagnostic("internal").at = i /\ Diagnostic("internal").why = "internal"
  BY DEF Diagnostic
<1>4. Diagnostic("source").why = "source"
  BY DEF Diagnostic
<1>5. Diagnostic("internal") \in errors2'
  BY DEF Report2
<1>6. Interrupted'
  BY <1>3, <1>5 DEF Interrupted
<1>7. Retraces'
  BY <1>1, <1>6 DEF Retraces
<1>8. \A d \in errors2' : d.why = "internal" => d = Diagnostic("internal")
  <2>1. errors2' \subseteq errors2 \union {Diagnostic("source"), Diagnostic("internal")}
    BY DEF Report2
  <2>2. \A d \in errors2 : d.why # "internal"
    BY DEF Retraces, Interrupted
  <2> QED BY <1>4, <2>1, <2>2
<1>9. i \in DOMAIN prog
  BY DEF ControlOK
<1>10. OnlyOverflowInterrupts'
  BY <1>1, <1>3, <1>5, <1>8, <1>9 DEF OnlyOverflowInterrupts, Accepted, Stmt
<1> QED BY <1>2, <1>7, <1>10

\* The statement under the loop index is one the parser built.
LEMMA StmtIsAStatement ==
    ASSUME ControlOK, i <= Len(prog)
    PROVE  Stmt \in Stmts
BY DEF ControlOK, Stmt

\* Appending an element of S to a sequence over S.
LEMMA AppendIsASequence ==
    ASSUME NEW S, NEW q \in Seq(S), NEW e \in S
    PROVE  Append(q, e) \in Seq(S)
OBVIOUS

\* A diagnostic of pass 1 keeps the list typed and makes it nonempty.
LEMMA Report1Facts ==
    ASSUME ControlOK, Pass1ResultOK, NEW bad, NEW why \in Reason,
           Report1(bad, why)
    PROVE  /\ errors1' \subseteq [at : Nat, why : Reason]
           /\ errors1' = {} => errors1 = {} /\ ~bad
<1>1. Diagnostic(why) \in [at : Nat, why : Reason]
  BY DEF ControlOK, Diagnostic
<1>2. errors1 \subseteq [at : Nat, why : Reason]
  BY DEF Pass1ResultOK
<1> QED BY <1>1, <1>2, Zenon DEF Report1

-----------------------------------------------------------------------------
(* One lemma per action of pass 1 *)

LEMMA Pass1SectionAgrees == PassesAgree /\ Pass1Section => PassesAgree'
<1> SUFFICES ASSUME PassesAgree, Pass1Section PROVE PassesAgree'
  OBVIOUS
<1> USE DEF PassesAgree, TypeOK, Pass1Section, InPass1
<1>1. section' \in Section
  BY DEF SectionDirective, Section
<1>2. Pass1ResultOK' /\ \A s \in Section : offset[s] <= offset'[s]
  BY DEF Pass1ResultOK
<1>3. AcceptedAt(Stmt, section)
  BY DEF AcceptedAt, SectionDirective, is_data_directive, IntDirective
<1>4. [section |-> section', offset |-> offset']
        = LayoutAfter(Stmt, [section |-> section, offset |-> offset])
  BY DEF LayoutAfter, SectionDirective, is_data_directive, IntDirective
<1> QED BY <1>1, <1>2, <1>3, <1>4, Advance1Agrees

\* Statements that move nothing: the layout stands still.
LEMMA QuietStatementAgrees ==
    ASSUME PassesAgree, Advance1,
           InPass1({"EXTERNAL", "GLOBAL", "LOCAL", "DEBUG_FILE",
                    "DEBUG_FILE_BYTES", "DEBUG_LOCATION"}),
           UNCHANGED <<section, offset>>, Pass1ResultOK',
           errors1' = {} => errors1 = {}
    PROVE  PassesAgree'
<1>1. phase = "pass1" /\ i <= Len(prog)
  BY DEF InPass1
<1>2. /\ AcceptedAt(Stmt, section)
      /\ [section |-> section, offset |-> offset]
           = LayoutAfter(Stmt, [section |-> section, offset |-> offset])
  BY DEF InPass1, AcceptedAt, LayoutAfter, SectionDirective, is_data_directive,
         IntDirective
<1>3. section' \in Section /\ \A s \in Section : offset[s] <= offset'[s]
  BY DEF PassesAgree, TypeOK, ControlOK, Pass1ResultOK
<1> QED BY <1>1, <1>2, <1>3, Advance1Agrees

LEMMA OneLabelFacts ==
    ASSUME NEW s \in Stmts, OneLabel(s)
    PROVE  s.ops[1].sym \in Names
<1>1. DOMAIN OpKinds(s) = DOMAIN s.ops
  BY DEF OpKinds
<1>2. DOMAIN <<"LABEL">> = 1 .. 1 /\ 1 \in 1 .. 1
  OBVIOUS
<1>3. 1 \in DOMAIN s.ops
  BY <1>1, <1>2 DEF OneLabel
<1>4. s.ops[1].kind = "LABEL"
  BY <1>3 DEF OneLabel, OpKinds
<1> QED BY <1>3, <1>4, StatementFacts

LEMMA Pass1ExternalAgrees == PassesAgree /\ Pass1External => PassesAgree'
<1> SUFFICES ASSUME PassesAgree, Pass1External PROVE PassesAgree'
  OBVIOUS
<1> USE DEF PassesAgree, TypeOK, Pass1External, InPass1
<1> DEFINE sym == Stmt.ops[1].sym
           ok  == OneLabel(Stmt) /\ CanDeclareExternal(symtab[sym])
<1>1. Stmt \in Stmts
  BY StmtIsAStatement
<1>2. symtab' \in [Names -> Entry]
  <2>1. CASE ok
    <3>1. symtab[sym] \in Entry
      BY <1>1, <2>1, OneLabelFacts DEF Pass1ResultOK
    <3>2. DeclareExternal(symtab[sym]) \in Entry
      BY <3>1 DEF DeclareExternal, Entry, Binding
    <3>3. symtab' = [symtab EXCEPT ![sym] = DeclareExternal(@)]
      BY <2>1
    <3> QED BY <3>2, <3>3 DEF Pass1ResultOK
  <2>2. CASE ~ok
    BY <2>2 DEF Pass1ResultOK
  <2> QED BY <2>1, <2>2
<1>3. Report1(~ok, "external")
  OBVIOUS
<1>4. errors1' \subseteq [at : Nat, why : Reason] /\ (errors1' = {} => errors1 = {})
  <2>1. "external" \in Reason
    BY DEF Reason
  <2> HIDE DEF ok
  <2> QED BY <1>3, <2>1, Report1Facts
<1>5. Pass1ResultOK'
  BY <1>2, <1>4 DEF Pass1ResultOK
<1> QED BY <1>4, <1>5, QuietStatementAgrees

LEMMA Pass1VisibilityAgrees == PassesAgree /\ Pass1Visibility => PassesAgree'
<1> SUFFICES ASSUME PassesAgree, Pass1Visibility PROVE PassesAgree'
  OBVIOUS
<1> USE DEF PassesAgree, TypeOK, Pass1Visibility, InPass1
<1> DEFINE sym == Stmt.ops[1].sym
           ok  == OneLabel(Stmt) /\ CanDeclareBinding(symtab[sym], Stmt.directive)
<1>1. Stmt \in Stmts
  BY StmtIsAStatement
<1>2. symtab' \in [Names -> Entry]
  <2>1. CASE ok
    <3>1. symtab[sym] \in Entry
      BY <1>1, <2>1, OneLabelFacts DEF Pass1ResultOK
    <3>2. DeclareBinding(symtab[sym], Stmt.directive) \in Entry
      BY <3>1 DEF DeclareBinding, Entry, Binding
    <3>3. symtab' = [symtab EXCEPT ![sym] = DeclareBinding(@, Stmt.directive)]
      BY <2>1
    <3> QED BY <3>2, <3>3 DEF Pass1ResultOK
  <2>2. CASE ~ok
    BY <2>2 DEF Pass1ResultOK
  <2> QED BY <2>1, <2>2
<1>3. Report1(~ok, "visibility")
  OBVIOUS
<1>4. errors1' \subseteq [at : Nat, why : Reason] /\ (errors1' = {} => errors1 = {})
  <2>1. "visibility" \in Reason
    BY DEF Reason
  <2> HIDE DEF ok
  <2> QED BY <1>3, <2>1, Report1Facts
<1>5. Pass1ResultOK'
  BY <1>2, <1>4 DEF Pass1ResultOK
<1> QED BY <1>4, <1>5, QuietStatementAgrees

LEMMA Pass1DebugFileAgrees == PassesAgree /\ Pass1DebugFile => PassesAgree'
<1> SUFFICES ASSUME PassesAgree, Pass1DebugFile PROVE PassesAgree'
  OBVIOUS
<1> USE DEF PassesAgree, TypeOK, Pass1DebugFile, InPass1
<1> DEFINE ok == ValidDebugFile(Stmt) /\ ~debug_file_find(Imm(Stmt, 1))
<1>1. files' \in Seq(1 .. UINT32_MAX)
  <2>1. files \in Seq(1 .. UINT32_MAX)
    BY DEF Pass1ResultOK
  <2>2. ok => Imm(Stmt, 1) \in 1 .. UINT32_MAX
    BY DEF ValidDebugFile
  <2>3. files' = IF ok THEN Append(files, Imm(Stmt, 1)) ELSE files
    OBVIOUS
  <2> HIDE DEF ok
  <2> QED BY <2>1, <2>2, <2>3, AppendIsASequence, Zenon
<1>2. Report1(~ok, "debug file") /\ "debug file" \in Reason
  BY DEF Reason
<1>3. errors1' \subseteq [at : Nat, why : Reason] /\ (errors1' = {} => errors1 = {})
  <2> HIDE DEF ok
  <2> QED BY <1>2, Report1Facts
<1>4. Pass1ResultOK'
  BY <1>1, <1>3 DEF Pass1ResultOK
<1> QED BY <1>3, <1>4, QuietStatementAgrees

LEMMA Pass1DebugLocationAgrees == PassesAgree /\ Pass1DebugLocation => PassesAgree'
<1> SUFFICES ASSUME PassesAgree, Pass1DebugLocation PROVE PassesAgree'
  OBVIOUS
<1> USE DEF PassesAgree, TypeOK, Pass1DebugLocation, InPass1
<1>1. "debug location" \in Reason
  BY DEF Reason
<1>2. errors1' \subseteq [at : Nat, why : Reason] /\ (errors1' = {} => errors1 = {})
  BY <1>1, Report1Facts
<1>3. Pass1ResultOK'
  BY <1>2 DEF Pass1ResultOK
<1> QED BY <1>2, <1>3, QuietStatementAgrees

LEMMA Pass1RejectedAgrees == PassesAgree /\ Pass1Rejected => PassesAgree'
<1> SUFFICES ASSUME PassesAgree, Pass1Rejected PROVE PassesAgree'
  OBVIOUS
<1> USE DEF PassesAgree, TypeOK, Pass1Rejected, InPass1
<1>1. "directive" \in Reason
  BY DEF Reason
<1>2. errors1' \subseteq [at : Nat, why : Reason] /\ errors1' # {}
  BY <1>1, Report1Facts
<1>3. Pass1ResultOK' /\ section' \in Section /\ \A s \in Section : offset[s] <= offset'[s]
  BY <1>2 DEF Pass1ResultOK, ControlOK
<1> QED BY <1>2, <1>3, Advance1Agrees

\* Registering a label keeps the table typed and reports a refused one.
LEMMA RegisterLabelFacts ==
    ASSUME ControlOK, Pass1ResultOK, NEW name \in Names \union {NoName},
           RegisterLabel(name)
    PROVE  /\ symtab' \in [Names -> Entry]
           /\ errors1' \subseteq [at : Nat, why : Reason]
           /\ errors1' = {} => errors1 = {}
<1>1. CASE name = NoName
  BY <1>1 DEF RegisterLabel, Pass1ResultOK
<1>2. CASE name \in Names /\ name # NoName
  <2>1. Insert(symtab[name], section, offset[section]) \in Entry
    <3>1. symtab[name] \in Entry /\ section \in Section /\ offset[section] \in Int
      BY <1>2 DEF Pass1ResultOK, ControlOK
    <3> QED BY <3>1 DEF Insert, Entry
  <2>2. symtab' \in [Names -> Entry]
    BY <1>2, <2>1 DEF RegisterLabel, Pass1ResultOK
  <2>3. Report1(~CanInsert(symtab[name]), "duplicate") /\ "duplicate" \in Reason
    BY <1>2 DEF RegisterLabel, Reason
  <2> QED BY <2>2, <2>3, Report1Facts
<1> QED BY <1>1, <1>2

LEMMA Pass1DataAgrees == PassesAgree /\ Pass1Data => PassesAgree'
<1> SUFFICES ASSUME PassesAgree, Pass1Data PROVE PassesAgree'
  OBVIOUS
<1> USE DEF PassesAgree, TypeOK
<1> DEFINE more == Counted(Stmt, offset[section])
<1>0. /\ phase = "pass1" /\ i <= Len(prog) /\ is_data_directive(Stmt.directive)
      /\ AllowedIn(Stmt, section) /\ pass1_note_alignment /\ RegisterLabel(Stmt.label)
      /\ offset' = [offset EXCEPT ![section] = @ + Counted(Stmt, @)]
      /\ UNCHANGED <<section, files>> /\ Advance1
  BY DEF Pass1Data, InPass1, DataDirective
<1>1. Stmt \in Stmts /\ Stmt.label \in Names \union {NoName}
  BY <1>0, StmtIsAStatement, StatementFacts
<1>2. section \in DataSection /\ validate_data_directive(Stmt)
  BY <1>0 DEF AllowedIn, ControlOK, Section, DataSection
<1>3. offset \in [Section -> Nat] /\ section \in Section
  BY DEF Pass1ResultOK, ControlOK
<1>4. more \in Nat
  BY <1>0, <1>1, <1>2, <1>3, CountedFact
<1>5. alignment' \in [DataSection -> Nat]
  <2>1. alignment \in [DataSection -> Nat]
    BY DEF Pass1ResultOK
  <2>2. ASSUME Stmt.directive = "ALIGNMENT" PROVE Imm(Stmt, 1) \in Nat
    <3>1. Imm(Stmt, 1) \in AlignmentValues
      BY <1>2, <2>2 DEF validate_data_directive, IntDirective
    <3> QED BY <3>1 DEF AlignmentValues
  <2> QED BY <1>0, <1>2, <2>1, <2>2 DEF pass1_note_alignment
<1>6. /\ symtab' \in [Names -> Entry]
      /\ errors1' \subseteq [at : Nat, why : Reason]
      /\ errors1' = {} => errors1 = {}
  BY <1>0, <1>1, RegisterLabelFacts
<1>7. /\ offset' = [offset EXCEPT ![section] = @ + more]
      /\ offset' \in [Section -> Nat]
      /\ \A s \in Section : offset[s] <= offset'[s]
  <2>1. offset' = [offset EXCEPT ![section] = @ + more]
    BY <1>0, <1>3
  <2> HIDE DEF more
  <2> QED BY <1>3, <1>4, <2>1
<1>8. Pass1ResultOK'
  BY <1>0, <1>5, <1>6, <1>7 DEF Pass1ResultOK
<1>9. AcceptedAt(Stmt, section)
  BY <1>0 DEF AcceptedAt, is_data_directive, IntDirective
<1>10. [section |-> section, offset |-> offset']
         = LayoutAfter(Stmt, [section |-> section, offset |-> offset])
  <2>1. Stmt.directive \notin SectionDirective
    BY <1>0 DEF is_data_directive, IntDirective, SectionDirective
  <2>2. LayoutAfter(Stmt, [section |-> section, offset |-> offset])
          = [section |-> section, offset |-> [offset EXCEPT ![section] = @ + more]]
    BY <1>0, <1>3, <2>1 DEF LayoutAfter, is_data_directive, IntDirective
  <2> QED BY <1>7, <2>2, Zenon
<1> QED BY <1>0, <1>3, <1>6, <1>7, <1>8, <1>9, <1>10, Advance1Agrees

LEMMA Pass1InstructionAgrees == PassesAgree /\ Pass1Instruction => PassesAgree'
<1> SUFFICES ASSUME PassesAgree, Pass1Instruction PROVE PassesAgree'
  OBVIOUS
<1> USE DEF PassesAgree, TypeOK
<1>0. /\ phase = "pass1" /\ i <= Len(prog) /\ Stmt.directive = "NONE"
      /\ RegisterLabel(Stmt.label)
      /\ offset' = IF Stmt.opcode = "INVALID" \/ section # "TEXT" THEN offset
                   ELSE [offset EXCEPT !["TEXT"] = @ + InstructionBytes(Stmt)]
      /\ UNCHANGED <<section, alignment, files>> /\ Advance1
  BY DEF Pass1Instruction, InPass1
<1>1. Stmt \in Stmts /\ Stmt.label \in Names \union {NoName}
  BY <1>0, StmtIsAStatement, StatementFacts
<1>2. InstructionBytes(Stmt) \in Nat
  BY <1>1, InstructionBytesPositive
<1>3. offset \in [Section -> Nat] /\ section \in Section /\ "TEXT" \in Section
  BY DEF Pass1ResultOK, ControlOK, Section
<1>4. /\ symtab' \in [Names -> Entry]
      /\ errors1' \subseteq [at : Nat, why : Reason]
      /\ errors1' = {} => errors1 = {}
  BY <1>0, <1>1, RegisterLabelFacts
<1>5. offset' \in [Section -> Nat] /\ \A s \in Section : offset[s] <= offset'[s]
  BY <1>0, <1>2, <1>3
<1>6. Pass1ResultOK'
  BY <1>0, <1>4, <1>5 DEF Pass1ResultOK
<1>7. AcceptedAt(Stmt, section) /\ ~is_data_directive(Stmt.directive)
      /\ Stmt.directive \notin SectionDirective
  BY <1>0 DEF AcceptedAt, is_data_directive, IntDirective, SectionDirective
<1>8. [section |-> section, offset |-> offset']
        = LayoutAfter(Stmt, [section |-> section, offset |-> offset])
  BY <1>0, <1>7 DEF LayoutAfter
<1> QED BY <1>0, <1>3, <1>4, <1>5, <1>6, <1>7, <1>8, Advance1Agrees

\* The checks after the loop; pass 2 starts only when none complained.
LEMMA Pass1FinishAgrees == PassesAgree /\ Pass1Finish => PassesAgree'
<1> SUFFICES ASSUME PassesAgree, Pass1Finish PROVE PassesAgree'
  OBVIOUS
<1> USE DEF PassesAgree, TypeOK
<1>0. /\ phase = "pass1" /\ i = Len(prog) + 1 /\ Len(prog) \in Nat
      /\ errors1' = errors1 \union EndOfPass1Errors
      /\ IF errors1' # {} THEN phase' = "failed" /\ UNCHANGED <<i, section>>
         ELSE phase' = "pass2" /\ i' = 1 /\ section' = "TEXT"
      /\ UNCHANGED <<prog, offset, alignment, symtab, files, layout, size,
                     emissions, code, relocs, location, lines, errors2>>
  BY DEF Pass1Finish, vars2, ControlOK
<1>1. ControlOK'
  BY <1>0 DEF ControlOK, Section
<1>2. EndOfPass1Errors \subseteq [at : Nat, why : Reason]
  <2>1. DOMAIN prog \subseteq Nat
    BY DEF ControlOK
  <2>2. UndeclaredFileUse \subseteq Nat
    BY <2>1 DEF UndeclaredFileUse
  <2>3. \A k \in Nat :
          /\ [at |-> k, why |-> "undefined visibility"] \in [at : Nat, why : Reason]
          /\ [at |-> k, why |-> "debug file undeclared"] \in [at : Nat, why : Reason]
    BY DEF Reason
  <2>4. Len(prog) + 1 \in Nat
    BY <1>0
  <2> QED BY <2>2, <2>3, <2>4 DEF EndOfPass1Errors
<1>3. Pass1ResultOK'
  BY <1>0, <1>2 DEF Pass1ResultOK
<1>4. Pass2ResultOK' /\ OnlyOverflowInterrupts'
  BY <1>0 DEF Pass2ResultOK, OnlyOverflowInterrupts, Accepted, Retraces
<1>5. LayoutOK'
  BY <1>0 DEF LayoutOK
<1>6. Retraces'
  <2>1. ~Interrupted'
    BY <1>0 DEF Retraces, Interrupted
  <2> QED BY <1>0, <2>1 DEF Retraces, LayoutOK
<1> QED BY <1>1, <1>3, <1>4, <1>5, <1>6

-----------------------------------------------------------------------------
(* Facts the steps of pass 2 share *)

\* At statement i, pass 2 is where pass 1 was, and pass 1 accepted the
\* statement and left room for it.
LEMMA WherePass1Was ==
    ASSUME PassesAgree, phase = "pass2", i <= Len(prog)
    PROVE  /\ Stmt \in Stmts /\ AcceptedAt(Stmt, section)
           /\ layout[i + 1] = LayoutAfter(Stmt, [section |-> section, offset |-> size])
           /\ \A s \in Section : layout[i + 1].offset[s] <= offset[s]
           /\ section \in Section /\ size \in [Section -> Nat]
           /\ offset \in [Section -> Nat]
           /\ \A s \in Section : size[s] <= offset[s]
<1> USE DEF PassesAgree, TypeOK
<1>1. i \in 1 .. Len(prog) /\ Len(prog) \in Nat /\ Len(layout) = Len(prog) + 1
  BY DEF ControlOK, LayoutOK
<1>2. errors1 = {} /\ section = layout[i].section /\ size = layout[i].offset
  BY DEF Retraces
<1>3. layout[i] \in Layout
  BY <1>1 DEF LayoutOK
<1>4. layout[i] = [section |-> section, offset |-> size]
  BY <1>2, <1>3 DEF Layout
<1>5. /\ AcceptedAt(prog[i], layout[i].section)
      /\ layout[i + 1] = LayoutAfter(prog[i], layout[i])
  <2>1. i \in 1 .. Len(layout) - 1
    BY <1>1
  <2> QED BY <1>2, <2>1 DEF LayoutOK
<1>6. \A s \in Section : layout[i + 1].offset[s] <= offset[s]
  <2>1. i + 1 \in 1 .. Len(layout)
    BY <1>1
  <2> QED BY <2>1 DEF LayoutOK
<1>7. Stmt \in Stmts
  BY <1>1, StmtIsAStatement
<1>8. \A s \in Section : size[s] <= offset[s]
  <2>1. i \in 1 .. Len(layout)
    BY <1>1
  <2> QED BY <1>2, <2>1 DEF LayoutOK
<1> QED BY <1>2, <1>4, <1>5, <1>6, <1>7, <1>8 DEF Stmt, ControlOK, Pass1ResultOK, Pass2ResultOK

LEMMA EmitFacts ==
    ASSUME Pass2ResultOK, NEW s \in Section, NEW bytes \in Nat, Emit(s, bytes)
    PROVE  emissions' \in Seq(Span)
<1>1. [section |-> s, offset |-> size[s], size |-> bytes] \in Span
  BY DEF Pass2ResultOK, Span
<1> QED BY <1>1, AppendIsASequence DEF Emit, Pass2ResultOK

LEMMA Report2Facts ==
    ASSUME ControlOK, Pass2ResultOK, NEW unresolved, NEW internal,
           Report2(unresolved, internal)
    PROVE  /\ errors2' \subseteq [at : Nat, why : Reason]
           /\ ~Interrupted /\ ~internal => ~Interrupted'
<1>1. /\ Diagnostic("source") \in [at : Nat, why : Reason]
      /\ Diagnostic("internal") \in [at : Nat, why : Reason]
  BY DEF ControlOK, Diagnostic, Reason
<1>2. Diagnostic("source").why # "internal"
  BY DEF Diagnostic
<1>3. /\ errors2' \subseteq errors2 \union {Diagnostic("source"), Diagnostic("internal")}
      /\ ~internal => errors2' \subseteq errors2 \union {Diagnostic("source")}
  BY DEF Report2
<1>4. ~Interrupted /\ ~internal => ~Interrupted'
  BY <1>2, <1>3 DEF Interrupted
<1> QED BY <1>1, <1>3, <1>4 DEF Pass2ResultOK

\* Pass 2 goes on only while it has no internal error.
LEMMA GoingOn == PassesAgree /\ phase = "pass2" => ~Interrupted
BY DEF PassesAgree, Retraces

LEMMA DebugLineFacts ==
    ASSUME Pass2ResultOK, push_debug_line
    PROVE  lines' \in Seq(DebugLine)
<1>1. [file |-> location.file, line |-> location.line,
       column |-> location.column, offset |-> text_size] \in DebugLine
  BY DEF Pass2ResultOK, DebugLine, text_size, Section
<1> QED BY <1>1, AppendIsASequence DEF push_debug_line, Pass2ResultOK

\* A relocation record is well typed when its offset and symbol are.
LEMMA RelocAtFacts ==
    ASSUME ControlOK, NEW s \in Section, NEW kind \in {"ABS64", "PC32"},
           NEW at \in Nat, NEW sym \in Names, NEW addend \in {0, -4}
    PROVE  <<RelocAt(s, kind, at, sym, addend)>> \in Seq(Relocation)
<1>1. RelocAt(s, kind, at, sym, addend) \in Relocation
  BY DEF ControlOK, RelocAt, Relocation
<1> QED BY <1>1

LEMMA ConcatIsASequence ==
    ASSUME NEW S, NEW q \in Seq(S), NEW r \in Seq(S)
    PROVE  q \o r \in Seq(S)
OBVIOUS

LEMMA LabelRelocFacts ==
    ASSUME PassesAgree, phase = "pass2", i <= Len(prog), NEW k \in Nat
    PROVE  LabelReloc(k) \in Seq(Relocation)
<1> USE DEF PassesAgree, TypeOK
<1>1. <<>> \in Seq(Relocation)
  OBVIOUS
<1>2. CASE k \in DOMAIN Stmt.ops /\ Stmt.ops[k].kind = "LABEL"
  <2>1. Stmt.ops[k].sym \in Names
    BY <1>2, WherePass1Was, StatementFacts
  <2>2. text_size \in Nat /\ "TEXT" \in Section
    BY DEF Pass2ResultOK, text_size, Section
  <2>3. /\ text_size + relative_label_relocation_offset(Stmt.opcode) \in Nat
        /\ text_size + mov_reg_label_relocation_offset \in Nat
    BY <2>2 DEF relative_label_relocation_offset, mov_reg_label_relocation_offset
  <2>4. /\ <<RelocAt("TEXT", "PC32",
                     text_size + relative_label_relocation_offset(Stmt.opcode),
                     Stmt.ops[k].sym, -4)>> \in Seq(Relocation)
        /\ <<RelocAt("TEXT", "ABS64", text_size + mov_reg_label_relocation_offset,
                     Stmt.ops[k].sym, 0)>> \in Seq(Relocation)
    BY <2>1, <2>2, <2>3, RelocAtFacts
  <2> QED BY <1>1, <1>2, <2>4, Zenon DEF LabelReloc
<1>3. CASE ~(k \in DOMAIN Stmt.ops /\ Stmt.ops[k].kind = "LABEL")
  BY <1>1, <1>3 DEF LabelReloc
<1> QED BY <1>2, <1>3

LEMMA RipRelocFacts ==
    ASSUME PassesAgree, phase = "pass2", i <= Len(prog), NEW k \in Nat,
           NEW len \in Nat, HasKind(Stmt, "RIP") => len >= 4
    PROVE  RipReloc(k, len) \in Seq(Relocation)
<1> USE DEF PassesAgree, TypeOK
<1>1. CASE k \in DOMAIN Stmt.ops /\ Stmt.ops[k].kind = "RIP"
  <2>1. Stmt.ops[k].sym \in Names
    BY <1>1, WherePass1Was, StatementFacts
  <2>2. len >= 4
    BY <1>1 DEF HasKind
  <2>3. text_size \in Nat /\ "TEXT" \in Section
    BY DEF Pass2ResultOK, text_size, Section
  <2>4. text_size + len - 4 \in Nat
    BY <2>2, <2>3
  <2>5. <<RelocAt("TEXT", "PC32", text_size + len - 4, Stmt.ops[k].sym, -4)>>
          \in Seq(Relocation)
    BY <2>1, <2>3, <2>4, RelocAtFacts
  <2> QED BY <1>1, <2>5, Zenon DEF RipReloc
<1>2. CASE ~(k \in DOMAIN Stmt.ops /\ Stmt.ops[k].kind = "RIP")
  BY <1>2 DEF RipReloc
<1> QED BY <1>1, <1>2

LEMMA ElementRelocFacts ==
    ASSUME PassesAgree, phase = "pass2", i <= Len(prog), NEW k \in {1, 2, 3}
    PROVE  ElementReloc(k) \in Seq(Relocation)
<1> USE DEF PassesAgree, TypeOK
<1> DEFINE has == /\ Stmt.directive = "INT64" /\ k \in DOMAIN Stmt.ops
                  /\ Stmt.ops[k].kind = "LABEL" /\ Resolvable(Stmt.ops[k].sym)
<1>1. CASE has
  <2>1. Stmt.ops[k].sym \in Names
    BY <1>1, WherePass1Was, StatementFacts
  <2>2. section \in Section /\ size[section] \in Nat
    BY DEF Pass2ResultOK, ControlOK
  <2>3. size[section] + (k - 1) * 8 \in Nat
    BY <2>2
  <2>4. <<RelocAt(section, "ABS64", size[section] + (k - 1) * 8, Stmt.ops[k].sym, 0)>>
          \in Seq(Relocation)
    BY <2>1, <2>2, <2>3, RelocAtFacts
  <2> QED BY <1>1, <2>4, Zenon DEF ElementReloc
<1>2. CASE ~has
  BY <1>2 DEF ElementReloc
<1> QED BY <1>1, <1>2

\* A displacement that raised no resolution error fits in 32 bits.
LEMMA TargetInRange ==
    ASSUME PassesAgree, phase = "pass2", i <= Len(prog), ~resolution_error
    PROVE  resolved_target \in INT32_MIN .. INT32_MAX
<1> DEFINE near == {k \in DOMAIN Stmt.ops : IsNearTarget(k)}
<1>1. CASE near = {}
  BY <1>1, LimitsAssumption DEF resolved_target, INT32_MIN
<1>2. CASE near # {}
  <2>1. \E k \in near : \A m \in near : m <= k
    <3>1. near \subseteq 1 .. 3
      <4>1. DOMAIN Stmt.ops = 1 .. Len(Stmt.ops) /\ Len(Stmt.ops) \in 0 .. 3
        BY WherePass1Was, StatementFacts
      <4>2. \A n \in 0 .. 3 : 1 .. n \subseteq 1 .. 3
        OBVIOUS
      <4>3. DOMAIN Stmt.ops \subseteq 1 .. 3
        BY <4>1, <4>2
      <4> QED BY <4>3
    <3> HIDE DEF near
    <3>2. CASE 3 \in near
      <4>1. \A m \in near : m <= 3
        BY <3>1
      <4> QED BY <3>2, <4>1, Zenon
    <3>3. CASE 3 \notin near /\ 2 \in near
      <4>1. \A m \in near : m <= 2
        BY <3>1, <3>3
      <4> QED BY <3>3, <4>1, Zenon
    <3>4. CASE 3 \notin near /\ 2 \notin near
      <4>1. \A m \in near : m = 1 /\ m <= 1
        BY <3>1, <3>4
      <4> QED BY <1>2, <4>1, Zenon
    <3> QED BY <3>2, <3>3, <3>4
  <2> DEFINE last == CHOOSE k \in near : \A m \in near : m <= k
  <2>2. last \in near
    BY <2>1
  <2>3. resolved_target = Displacement(last)
    BY <1>2 DEF resolved_target
  <2>4. IsNearTarget(last) /\ last \in DOMAIN Stmt.ops
    BY <2>2
  <2>5. ~OperandUnresolved(last)
    BY <2>4 DEF resolution_error
  <2> HIDE DEF last
  <2>6. Displacement(last) \in INT32_MIN .. INT32_MAX
    BY <2>4, <2>5 DEF OperandUnresolved, IsNearTarget
  <2> QED BY <2>3, <2>6
<1> QED BY <1>1, <1>2


-----------------------------------------------------------------------------
(* One lemma per action of pass 2 *)

LEMMA Pass2SectionAgrees == PassesAgree /\ Pass2Section => PassesAgree'
<1> SUFFICES ASSUME PassesAgree, Pass2Section PROVE PassesAgree'
  OBVIOUS
<1>0. /\ phase = "pass2" /\ i <= Len(prog) /\ Stmt.directive \in SectionDirective
      /\ section' = Stmt.directive /\ Emit(Stmt.directive, 0)
      /\ UNCHANGED <<size, code, relocs, location, lines, errors2>> /\ Proceed2(TRUE)
  BY DEF Pass2Section, InPass2
<1>1. layout[i + 1] = [section |-> Stmt.directive, offset |-> size]
  BY <1>0, WherePass1Was DEF LayoutAfter, SectionDirective, is_data_directive, IntDirective
<1>2. emissions' \in Seq(Span)
  <2>1. Stmt.directive \in Section /\ Pass2ResultOK
    BY <1>0 DEF SectionDirective, Section, PassesAgree, TypeOK
  <2> QED BY <1>0, <2>1, EmitFacts
<1>3. Pass2ResultOK' /\ ~Interrupted'
  BY <1>0, <1>2, GoingOn DEF Pass2ResultOK, Interrupted, PassesAgree, TypeOK
<1>4. ~Overflows(Stmt)
  BY <1>0 DEF Overflows, SectionDirective
<1> QED BY <1>0, <1>1, <1>3, <1>4, Proceed2Agrees

\* A statement pass 2 passes over is one pass 1 gave no room.
LEMMA PassedOverAgrees ==
    ASSUME PassesAgree, phase = "pass2", i <= Len(prog), Emit(section, 0),
           Stmt.directive \in {"GLOBAL", "LOCAL", "EXTERNAL", "DEBUG_FILE",
                               "DEBUG_FILE_BYTES", "DEBUG_LOCATION"}
             \/ (Stmt.directive = "NONE" /\ (Stmt.opcode = "INVALID" \/ section # "TEXT")),
           UNCHANGED <<section, size, code, relocs, lines, errors2>>, Proceed2(TRUE),
           location' \in [file : Int, line : Int, column : Int]
    PROVE  PassesAgree'
<1>1. layout[i + 1] = [section |-> section, offset |-> size]
  BY WherePass1Was DEF LayoutAfter, SectionDirective, is_data_directive, IntDirective
<1>2. emissions' \in Seq(Span)
  BY WherePass1Was, EmitFacts DEF PassesAgree, TypeOK
<1>3. Pass2ResultOK' /\ ~Interrupted'
  BY <1>2, GoingOn DEF Pass2ResultOK, Interrupted, PassesAgree, TypeOK
<1>4. ~Overflows(Stmt)
  BY DEF Overflows
<1> QED BY <1>1, <1>3, <1>4, Proceed2Agrees

\* Pass 1 lets no data through in .text.
LEMMA SkippedStatement ==
    ASSUME PassesAgree, Pass2Skip
    PROVE  /\ phase = "pass2" /\ i <= Len(prog)
           /\ Stmt.directive \in {"GLOBAL", "LOCAL", "EXTERNAL", "DEBUG_FILE",
                                 "DEBUG_FILE_BYTES"}
<1>1. phase = "pass2" /\ i <= Len(prog)
  BY DEF Pass2Skip, InPass2
<1>2. AcceptedAt(Stmt, section)
  BY <1>1, WherePass1Was
<1>3. ~(section = "TEXT" /\ Stmt.directive \in DataDirective \union {"INVALID"})
  BY <1>2 DEF AcceptedAt, AllowedIn, DataDirective
<1> QED BY <1>1, <1>3 DEF Pass2Skip, InPass2

LEMMA Pass2SkipAgrees == PassesAgree /\ Pass2Skip => PassesAgree'
BY SkippedStatement, PassedOverAgrees DEF Pass2Skip, PassesAgree, TypeOK, Pass2ResultOK

LEMMA Pass2NoCodeAgrees == PassesAgree /\ Pass2NoCode => PassesAgree'
BY PassedOverAgrees DEF Pass2NoCode, InPass2, PassesAgree, TypeOK, Pass2ResultOK

LEMMA Pass2DebugLocationAgrees == PassesAgree /\ Pass2DebugLocation => PassesAgree'
<1> SUFFICES ASSUME PassesAgree, Pass2DebugLocation PROVE PassesAgree'
  OBVIOUS
<1>0. /\ phase = "pass2" /\ i <= Len(prog) /\ Stmt.directive = "DEBUG_LOCATION"
      /\ Emit(section, 0)
      /\ location' = IF IsLocation(Stmt)
                     THEN [file |-> Imm(Stmt, 1), line |-> Imm(Stmt, 2),
                           column |-> Imm(Stmt, 3)]
                     ELSE location
      /\ UNCHANGED <<section, size, code, relocs, lines, errors2>> /\ Proceed2(TRUE)
  BY DEF Pass2DebugLocation, InPass2
<1>1. ASSUME IsLocation(Stmt)
      PROVE  Imm(Stmt, 1) \in Int /\ Imm(Stmt, 2) \in Int /\ Imm(Stmt, 3) \in Int
  <2>1. DOMAIN OpKinds(Stmt) = DOMAIN Stmt.ops
    BY DEF OpKinds
  <2>2. DOMAIN <<"IMM", "IMM", "IMM">> = 1 .. 3
    OBVIOUS
  <2>3. 1 \in DOMAIN Stmt.ops /\ 2 \in DOMAIN Stmt.ops /\ 3 \in DOMAIN Stmt.ops
    BY <1>1, <2>1, <2>2 DEF IsLocation
  <2> QED BY <1>0, <2>3, WherePass1Was, StatementFacts DEF Imm
<1>2. location' \in [file : Int, line : Int, column : Int]
  BY <1>0, <1>1 DEF PassesAgree, TypeOK, Pass2ResultOK
<1> QED BY <1>0, <1>2, PassedOverAgrees

\* Where pass 1 put a data statement that pass 2 is about to emit.
LEMMA DataStep ==
    ASSUME PassesAgree, InPass2Data
    PROVE  LET wanted == BytesWanted(Stmt, size[section]) IN
           /\ phase = "pass2" /\ i <= Len(prog)
           /\ Stmt \in Stmts /\ is_data_directive(Stmt.directive)
           /\ section \in Section /\ section # "TEXT"
           /\ ExpectedSize \in Int /\ wanted \in Nat
           /\ size \in [Section -> Nat] /\ offset \in [Section -> Nat]
           /\ offset[section] - size[section] \in Nat
           /\ Overflows(Stmt) => ExpectedSize < wanted /\ section # "BSS"
           /\ ~Overflows(Stmt) =>
                /\ ExpectedSize \in Nat /\ wanted = ExpectedSize
                /\ ExpectedSize <= offset[section] - size[section]
                /\ layout[i + 1] = [section |-> section,
                                    offset |-> [size EXCEPT ![section] = @ + ExpectedSize]]
<1> DEFINE wanted == BytesWanted(Stmt, size[section])
           more   == Counted(Stmt, size[section])
<1>1. phase = "pass2" /\ i <= Len(prog) /\ section # "TEXT"
  BY DEF InPass2Data, InPass2
<1>2. /\ Stmt \in Stmts /\ is_data_directive(Stmt.directive) /\ AllowedIn(Stmt, section)
      /\ section \in Section /\ size \in [Section -> Nat] /\ offset \in [Section -> Nat]
  BY <1>1, WherePass1Was DEF AcceptedAt, InPass2Data, InPass2, DataDirective
<1>3. size[section] \in Nat /\ offset[section] \in Nat /\ size[section] <= offset[section]
  BY <1>1, <1>2, WherePass1Was
<1>4. validate_data_directive(Stmt) /\ (section = "BSS" => ~Overflows(Stmt))
  BY <1>2 DEF AllowedIn, Overflows
<1>5. /\ ExpectedSize \in Int /\ wanted \in Nat
      /\ Overflows(Stmt) => ExpectedSize < wanted
      /\ ~Overflows(Stmt) => ExpectedSize \in Nat /\ wanted = ExpectedSize
  BY <1>2, <1>3, <1>4, EmittedAgainstCounted DEF ExpectedSize
<1>6. ~Overflows(Stmt) => more = ExpectedSize
  BY <1>2, <1>3, <1>4, CountedFact DEF ExpectedSize
<1>7. layout[i + 1] = [section |-> section,
                       offset |-> [size EXCEPT ![section] = @ + more]]
  BY <1>1, <1>2, WherePass1Was DEF LayoutAfter, is_data_directive, IntDirective,
     SectionDirective
<1>8. layout[i + 1].offset[section] <= offset[section]
  BY <1>1, <1>2, WherePass1Was
<1> HIDE DEF wanted, more
<1>9. layout[i + 1].offset[section] = size[section] + more
  BY <1>2, <1>7
<1>10. ~Overflows(Stmt) => ExpectedSize <= offset[section] - size[section]
  BY <1>3, <1>5, <1>6, <1>8, <1>9
<1>11. offset[section] - size[section] \in Nat
  BY <1>3
<1>12. ~Overflows(Stmt) =>
         layout[i + 1] = [section |-> section,
                          offset |-> [size EXCEPT ![section] = @ + ExpectedSize]]
  BY <1>6, <1>7
<1> QED BY <1>1, <1>2, <1>4, <1>5, <1>10, <1>11, <1>12, Zenon DEF wanted

LEMMA Pass2NegativeSizeAgrees == PassesAgree /\ Pass2NegativeSize => PassesAgree'
<1> SUFFICES ASSUME PassesAgree, Pass2NegativeSize PROVE PassesAgree'
  OBVIOUS
<1>0. /\ InPass2Data /\ ExpectedSize < 0 /\ Emit(section, 0)
      /\ Report2(FALSE, TRUE) /\ Proceed2(FALSE)
      /\ UNCHANGED <<section, size, code, relocs, location, lines>>
  BY DEF Pass2NegativeSize
<1>1. Overflows(Stmt) /\ section \in Section /\ phase = "pass2" /\ i <= Len(prog)
  BY <1>0, DataStep
<1>2. errors2' \subseteq [at : Nat, why : Reason]
  BY <1>0, Report2Facts DEF PassesAgree, TypeOK
<1>3. emissions' \in Seq(Span)
  BY <1>0, <1>1, EmitFacts DEF PassesAgree, TypeOK
<1>4. Pass2ResultOK'
  BY <1>0, <1>2, <1>3 DEF PassesAgree, TypeOK, Pass2ResultOK
<1> QED BY <1>0, <1>1, <1>4, InterruptAgrees

LEMMA Pass2BssAgrees == PassesAgree /\ Pass2Bss => PassesAgree'
<1> SUFFICES ASSUME PassesAgree, Pass2Bss PROVE PassesAgree'
  OBVIOUS
<1>0. /\ InPass2Data /\ section = "BSS"
      /\ size' = [size EXCEPT ![section] = @ + ExpectedSize] /\ Emit(section, 0)
      /\ UNCHANGED <<section, code, relocs, location, lines, errors2>> /\ Proceed2(TRUE)
  BY DEF Pass2Bss
<1>1. /\ ~Overflows(Stmt) /\ phase = "pass2" /\ i <= Len(prog)
      /\ ExpectedSize \in Nat /\ section \in Section /\ size \in [Section -> Nat]
      /\ layout[i + 1] = [section |-> section,
                          offset |-> [size EXCEPT ![section] = @ + ExpectedSize]]
  BY <1>0, DataStep
<1>2. size' \in [Section -> Nat]
  BY <1>0, <1>1
<1>3. ~Interrupted'
  BY <1>0, <1>1, GoingOn DEF Interrupted
<1>4. emissions' \in Seq(Span)
  BY <1>0, <1>1, EmitFacts DEF PassesAgree, TypeOK
<1>5. Pass2ResultOK'
  BY <1>0, <1>2, <1>4 DEF PassesAgree, TypeOK, Pass2ResultOK
<1> QED BY <1>0, <1>1, <1>3, <1>5, Proceed2Agrees

\* What an operand takes is a number of bytes.
LEMMA BytesUpToIsNat ==
    ASSUME NEW s \in Stmts, is_data_directive(s.directive), NEW k
    PROVE  WritesPerOperand(s) => BytesUpTo(s, k) \in Nat
<1>1. ASSUME WritesPerOperand(s), NEW m \in {1, 2, 3} PROVE OperandBytes(s, m) \in Nat
  <2>1. StringBytes(s, m) \in Nat
    BY StringBytesIsNat
  <2>2. s.directive # "NUL_STRING" => ElementSize(s.directive) \in Nat
    BY <1>1 DEF WritesPerOperand, IntDirective, ElementSize
  <2> QED BY <2>1, <2>2 DEF OperandBytes
<1> QED BY <1>1 DEF BytesUpTo

\* However little of the room is left, a number of bytes is written.
LEMMA BytesWrittenIsNat ==
    ASSUME NEW s \in Stmts, is_data_directive(s.directive), NEW at, NEW room,
           BytesWanted(s, at) \in Nat
    PROVE  BytesWritten(s, at, room) \in Nat
BY BytesUpToIsNat DEF BytesWritten

\* What pass 2 does with a data directive that it and pass 1 count alike.
LEMMA DataWritten ==
    ASSUME PassesAgree, Pass2Data, ~Overflows(Stmt)
    PROVE  /\ phase = "pass2" /\ i <= Len(prog) /\ section \notin {"BSS", "TEXT"}
           /\ ExpectedSize \in Nat /\ Proceed2(TRUE) /\ Emit(section, ExpectedSize)
           /\ size' = [size EXCEPT ![section] = @ + ExpectedSize]
           /\ relocs' = relocs \o ElementReloc(1) \o ElementReloc(2) \o ElementReloc(3)
           /\ Report2(HasUnresolvedElement, FALSE)
           /\ UNCHANGED <<section, code, location, lines>>
<1> DEFINE before == size[section]
           room   == offset[section] - before
           wanted == BytesWanted(Stmt, before)
           wrote  == BytesWritten(Stmt, before, room)
           fits   == wanted <= room
           ok     == fits /\ wrote = ExpectedSize
<1>1. /\ InPass2Data /\ section # "BSS" /\ UNCHANGED <<section, code, location, lines>>
      /\ relocs' = relocs \o ElementReloc(1) \o ElementReloc(2) \o ElementReloc(3)
      /\ size' = [size EXCEPT ![section] = @ + wrote]
      /\ Emit(section, IF fits THEN wrote ELSE 0)
      /\ Report2(HasUnresolvedElement, ~ok)
      /\ Proceed2(ok)
  BY DEF Pass2Data
<1>2. /\ phase = "pass2" /\ i <= Len(prog) /\ section # "TEXT"
      /\ ExpectedSize \in Nat /\ wanted = ExpectedSize /\ ExpectedSize <= room
  BY <1>1, DataStep
<1>3. fits /\ wrote = ExpectedSize /\ ok
  BY <1>2 DEF BytesWritten
<1> HIDE DEF wrote, fits, ok
<1>4. Proceed2(TRUE) /\ Emit(section, ExpectedSize)
      /\ size' = [size EXCEPT ![section] = @ + ExpectedSize]
  BY <1>1, <1>3 DEF Proceed2
<1>5. Report2(HasUnresolvedElement, FALSE)
  BY <1>1, <1>3 DEF Report2
<1> QED BY <1>1, <1>2, <1>4, <1>5

\* A string that overflows does not take the bytes it was counted with, so that
\* pass 2 stops at it whether there is room for it or not.
LEMMA OverflowStops ==
    ASSUME PassesAgree, Pass2Data, Overflows(Stmt)
    PROVE  /\ phase = "pass2" /\ i <= Len(prog) /\ section \in Section \ {"TEXT"}
           /\ Proceed2(FALSE) /\ Report2(HasUnresolvedElement, TRUE)
           /\ \E bytes \in Nat : size' = [size EXCEPT ![section] = @ + bytes]
           /\ \E bytes \in Nat : Emit(section, bytes)
           /\ UNCHANGED <<section, code, relocs, location, lines>>
<1> DEFINE before == size[section]
           room   == offset[section] - before
           wanted == BytesWanted(Stmt, before)
           wrote  == BytesWritten(Stmt, before, room)
           fits   == wanted <= room
           ok     == fits /\ wrote = ExpectedSize
           span   == IF fits THEN wrote ELSE 0
<1>1. /\ InPass2Data /\ UNCHANGED <<section, code, location, lines>>
      /\ relocs' = relocs \o ElementReloc(1) \o ElementReloc(2) \o ElementReloc(3)
      /\ size' = [size EXCEPT ![section] = @ + wrote]
      /\ Emit(section, span)
      /\ Report2(HasUnresolvedElement, ~ok)
      /\ Proceed2(ok)
  BY DEF Pass2Data
<1>2. /\ phase = "pass2" /\ i <= Len(prog) /\ Stmt \in Stmts
      /\ is_data_directive(Stmt.directive) /\ section \in Section \ {"TEXT"}
      /\ wanted \in Nat /\ ExpectedSize \in Int /\ ExpectedSize < wanted
  BY <1>1, DataStep
<1>3. wrote \in Nat /\ (fits => wrote = wanted)
  BY <1>2, BytesWrittenIsNat DEF BytesWritten
<1>4. relocs' = relocs
  <2>1. \A k \in {1, 2, 3} : ElementReloc(k) = <<>>
    BY DEF Overflows, ElementReloc
  <2>2. relocs \in Seq(Relocation)
    BY DEF PassesAgree, TypeOK, Pass2ResultOK
  <2>3. relocs' = relocs \o <<>> \o <<>> \o <<>>
    BY <1>1, <2>1
  <2> QED BY <2>2, <2>3
<1> HIDE DEF wanted, wrote
<1>5. ~ok
  BY <1>2, <1>3
<1>6. span \in Nat
  BY <1>3
<1> HIDE DEF ok, span
<1>7. Proceed2(FALSE) /\ Report2(HasUnresolvedElement, TRUE)
  BY <1>1, <1>5 DEF Proceed2, Report2
<1> QED BY <1>1, <1>2, <1>3, <1>4, <1>6, <1>7, Zenon

LEMMA Pass2DataAgrees == PassesAgree /\ Pass2Data => PassesAgree'
<1> SUFFICES ASSUME PassesAgree, Pass2Data PROVE PassesAgree'
  OBVIOUS
<1> USE DEF PassesAgree, TypeOK
<1>1. InPass2Data
  BY DEF Pass2Data
<1>2. /\ section \in Section /\ size \in [Section -> Nat] /\ relocs \in Seq(Relocation)
      /\ code \in Seq(Chunk) /\ lines \in Seq(DebugLine)
      /\ location \in [file : Int, line : Int, column : Int]
  BY DEF ControlOK, Pass2ResultOK
<1>3. CASE Overflows(Stmt)
  <2>1. /\ phase = "pass2" /\ i <= Len(prog)
        /\ Proceed2(FALSE) /\ Report2(HasUnresolvedElement, TRUE)
        /\ UNCHANGED <<section, code, relocs, location, lines>>
    BY <1>3, OverflowStops
  <2>2. size' \in [Section -> Nat]
    <3>1. PICK bytes \in Nat : size' = [size EXCEPT ![section] = @ + bytes]
      BY <1>3, OverflowStops
    <3> QED BY <1>2, <3>1
  <2>3. emissions' \in Seq(Span)
    <3>1. PICK bytes \in Nat : Emit(section, bytes)
      BY <1>3, OverflowStops
    <3> QED BY <1>2, <3>1, EmitFacts
  <2>4. errors2' \subseteq [at : Nat, why : Reason]
    BY <2>1, Report2Facts
  <2>5. Pass2ResultOK'
    BY <1>2, <2>1, <2>2, <2>3, <2>4 DEF Pass2ResultOK
  <2> QED BY <1>3, <2>1, <2>5, InterruptAgrees
<1>4. CASE ~Overflows(Stmt)
  <2>1. /\ phase = "pass2" /\ i <= Len(prog) /\ ExpectedSize \in Nat
        /\ Proceed2(TRUE) /\ Emit(section, ExpectedSize)
        /\ size' = [size EXCEPT ![section] = @ + ExpectedSize]
        /\ relocs' = relocs \o ElementReloc(1) \o ElementReloc(2) \o ElementReloc(3)
        /\ Report2(HasUnresolvedElement, FALSE)
        /\ UNCHANGED <<section, code, location, lines>>
    BY <1>4, DataWritten
  <2>2. size' \in [Section -> Nat]
    BY <1>2, <2>1
  <2>3. emissions' \in Seq(Span)
    BY <1>2, <2>1, EmitFacts
  <2>4. relocs' \in Seq(Relocation)
    <3>1. \A k \in {1, 2, 3} : ElementReloc(k) \in Seq(Relocation)
      BY <2>1, ElementRelocFacts
    <3> QED BY <1>2, <2>1, <3>1, ConcatIsASequence
  <2>5. errors2' \subseteq [at : Nat, why : Reason] /\ ~Interrupted'
    BY <2>1, GoingOn, Report2Facts, Zenon
  <2>6. Pass2ResultOK'
    BY <1>2, <2>1, <2>2, <2>3, <2>4, <2>5 DEF Pass2ResultOK
  <2>7. size' = layout[i + 1].offset /\ section' = layout[i + 1].section
    <3>1. layout[i + 1] = [section |-> section,
                           offset |-> [size EXCEPT ![section] = @ + ExpectedSize]]
      BY <1>1, <1>4, DataStep
    <3> QED BY <2>1, <3>1
  <2> QED BY <1>4, <2>1, <2>5, <2>6, <2>7, Proceed2Agrees
<1> QED BY <1>3, <1>4

\* Where pass 1 put an instruction that pass 2 is about to encode.
LEMMA TextStep ==
    ASSUME PassesAgree, InPass2Text
    PROVE  /\ phase = "pass2" /\ i <= Len(prog) /\ section = "TEXT" /\ Stmt \in Stmts
           /\ InstructionBytes(Stmt) \in Nat /\ ~Overflows(Stmt)
           /\ "TEXT" \in Section /\ size \in [Section -> Nat] /\ text_size \in Nat
           /\ FitsText(InstructionBytes(Stmt))
           /\ layout[i + 1] =
                [section |-> "TEXT",
                 offset |-> [size EXCEPT !["TEXT"] = @ + InstructionBytes(Stmt)]]
<1>1. /\ phase = "pass2" /\ i <= Len(prog) /\ Stmt.directive = "NONE"
      /\ Stmt.opcode # "INVALID" /\ section = "TEXT"
  BY DEF InPass2Text, InPass2
<1>2. /\ Stmt \in Stmts /\ "TEXT" \in Section
      /\ size \in [Section -> Nat] /\ offset \in [Section -> Nat]
  BY <1>1, WherePass1Was
<1>3. InstructionBytes(Stmt) \in Nat
  BY <1>2, InstructionBytesPositive
<1>4. layout[i + 1] = [section |-> "TEXT",
                       offset |-> [size EXCEPT !["TEXT"] = @ + InstructionBytes(Stmt)]]
  BY <1>1, WherePass1Was DEF LayoutAfter, is_data_directive, IntDirective, SectionDirective
<1>5. layout[i + 1].offset["TEXT"] = size["TEXT"] + InstructionBytes(Stmt)
  BY <1>2, <1>4
<1>6. layout[i + 1].offset["TEXT"] <= offset["TEXT"]
  BY <1>1, <1>2, WherePass1Was
<1>7. size["TEXT"] \in Nat /\ offset["TEXT"] \in Nat
  BY <1>2
<1>8. FitsText(InstructionBytes(Stmt))
  BY <1>3, <1>5, <1>6, <1>7 DEF FitsText, text_size
<1>9. ~Overflows(Stmt)
  BY <1>1 DEF Overflows
<1> QED BY <1>1, <1>2, <1>3, <1>4, <1>7, <1>8, <1>9 DEF text_size

\* Bytes that fit are written, listed as a chunk and covered by the span.
LEMMA WriteTextFacts ==
    ASSUME PassesAgree, InPass2Text, NEW bytes \in Nat, NEW rel \in Int,
           WriteText(bytes, rel, TRUE)
    PROVE  /\ size' = [size EXCEPT !["TEXT"] = @ + bytes]
           /\ size' \in [Section -> Nat]
           /\ code' \in Seq(Chunk) /\ emissions' \in Seq(Span)
<1>1. size' = [size EXCEPT !["TEXT"] = @ + bytes] /\ size' \in [Section -> Nat]
  BY TextStep DEF WriteText
<1>2. [stmt |-> i, offset |-> text_size, len |-> bytes, rel |-> rel] \in Chunk
  BY TextStep DEF Chunk, PassesAgree, TypeOK, ControlOK
<1>3. code' \in Seq(Chunk)
  BY <1>2, AppendIsASequence DEF WriteText, PassesAgree, TypeOK, Pass2ResultOK
<1>4. Emit("TEXT", bytes)
  BY DEF WriteText
<1>5. emissions' \in Seq(Span)
  BY <1>4, TextStep, EmitFacts DEF PassesAgree, TypeOK
<1> QED BY <1>1, <1>3, <1>5

LEMMA LabelRelocsFacts ==
    ASSUME PassesAgree, InPass2Text
    PROVE  relocs \o LabelRelocs \in Seq(Relocation)
<1>1. relocs \in Seq(Relocation)
  BY DEF PassesAgree, TypeOK, Pass2ResultOK
<1>2. \A k \in {1, 2, 3} : LabelReloc(k) \in Seq(Relocation)
  BY TextStep, LabelRelocFacts
<1> QED BY <1>1, <1>2, ConcatIsASequence DEF LabelRelocs

LEMMA Pass2FilledAgrees == PassesAgree /\ Pass2Filled => PassesAgree'
<1> SUFFICES ASSUME PassesAgree, Pass2Filled PROVE PassesAgree'
  OBVIOUS
<1> DEFINE sz == InstructionBytes(Stmt)
<1>1. InPass2Text
  BY DEF Pass2Filled
<1>2. sz \in Nat /\ FitsText(sz) = TRUE
  BY <1>1, TextStep DEF FitsText
<1>3. /\ WriteText(sz, 0, FitsText(sz)) /\ Report2(TRUE, ~FitsText(sz))
      /\ Proceed2(FitsText(sz)) /\ relocs' = relocs \o LabelRelocs
      /\ push_debug_line /\ UNCHANGED <<section, location>>
  BY DEF Pass2Filled
<1> HIDE DEF sz
<1>4. WriteText(sz, 0, TRUE) /\ Report2(TRUE, ~TRUE) /\ Proceed2(TRUE)
  BY <1>2, <1>3
<1>5. /\ size' = [size EXCEPT !["TEXT"] = @ + sz] /\ size' \in [Section -> Nat]
      /\ code' \in Seq(Chunk) /\ emissions' \in Seq(Span)
  <2>1. 0 \in Int
    OBVIOUS
  <2> QED BY <1>1, <1>2, <1>4, <2>1, WriteTextFacts
<1>6. errors2' \subseteq [at : Nat, why : Reason] /\ ~Interrupted'
  BY <1>1, <1>4, TextStep, GoingOn, Report2Facts, Zenon DEF PassesAgree, TypeOK
<1>7. relocs' \in Seq(Relocation) /\ lines' \in Seq(DebugLine)
  BY <1>1, <1>3, LabelRelocsFacts, DebugLineFacts DEF PassesAgree, TypeOK
<1>8. Pass2ResultOK'
  BY <1>3, <1>5, <1>6, <1>7 DEF PassesAgree, TypeOK, Pass2ResultOK
<1>9. section' = layout[i + 1].section /\ size' = layout[i + 1].offset
  <2>1. layout[i + 1] = [section |-> "TEXT", offset |-> [size EXCEPT !["TEXT"] = @ + sz]]
    BY <1>1, TextStep DEF sz
  <2>2. section' = "TEXT"
    BY <1>1, <1>3, TextStep
  <2> QED BY <1>5, <2>1, <2>2
<1> QED BY <1>1, <1>4, <1>6, <1>8, <1>9, TextStep, Proceed2Agrees

LEMMA Pass2EncodedAgrees == PassesAgree /\ Pass2Encoded => PassesAgree'
<1> SUFFICES ASSUME PassesAgree, Pass2Encoded PROVE PassesAgree'
  OBVIOUS
<1> DEFINE enc    == EncodingOf(Stmt, resolved_target)
           agrees == /\ enc.len = InstructionBytes(Stmt)
                     /\ HasKind(Stmt, "RIP") => enc.len >= 4
           ok     == agrees /\ FitsText(enc.len)
           rip    == RipReloc(1, enc.len) \o RipReloc(2, enc.len) \o RipReloc(3, enc.len)
<1>1. InPass2Text /\ ~resolution_error /\ ~enc.error
  BY DEF Pass2Encoded
<1>2. resolved_target \in INT32_MIN .. INT32_MAX /\ resolved_target \in Int
  <2>1. resolved_target \in INT32_MIN .. INT32_MAX
    BY <1>1, TextStep, TargetInRange
  <2> QED BY <2>1, LimitsAssumption DEF INT32_MIN
<1>3. enc.len = InstructionBytes(Stmt) /\ (HasKind(Stmt, "RIP") => enc.len >= 4)
  BY <1>1, <1>2, TextStep, EncoderAssumption
<1>4. agrees /\ ok
  BY <1>1, <1>3, TextStep
<1>5. /\ relocs' = relocs \o LabelRelocs \o (IF agrees THEN rip ELSE <<>>)
      /\ WriteText(enc.len, resolved_target, ok) /\ Report2(FALSE, ~ok) /\ Proceed2(ok)
      /\ push_debug_line /\ UNCHANGED <<section, location>>
  BY DEF Pass2Encoded
<1>6. enc.len \in Nat
  BY <1>1, <1>3, TextStep
<1>7. \A k \in {1, 2, 3} : RipReloc(k, enc.len) \in Seq(Relocation)
  BY <1>1, <1>3, <1>6, TextStep, RipRelocFacts
<1>8. rip \in Seq(Relocation)
  BY <1>7, ConcatIsASequence
<1> HIDE DEF agrees, ok, rip
<1>10. WriteText(enc.len, resolved_target, TRUE)
  BY <1>4, <1>5 DEF WriteText
<1>11. Proceed2(TRUE)
  BY <1>4, <1>5 DEF Proceed2
<1>12. /\ size' = [size EXCEPT !["TEXT"] = @ + enc.len] /\ size' \in [Section -> Nat]
       /\ code' \in Seq(Chunk) /\ emissions' \in Seq(Span)
  BY <1>1, <1>2, <1>6, <1>10, WriteTextFacts
<1>13. errors2' \subseteq [at : Nat, why : Reason] /\ ~Interrupted'
  BY <1>1, <1>4, <1>5, TextStep, GoingOn, Report2Facts, Zenon DEF PassesAgree, TypeOK
<1>14. relocs' \in Seq(Relocation) /\ lines' \in Seq(DebugLine)
  BY <1>1, <1>4, <1>5, <1>8, LabelRelocsFacts, ConcatIsASequence, DebugLineFacts
     DEF PassesAgree, TypeOK
<1>15. Pass2ResultOK'
  BY <1>5, <1>12, <1>13, <1>14 DEF PassesAgree, TypeOK, Pass2ResultOK
<1>16. section' = layout[i + 1].section /\ size' = layout[i + 1].offset
  <2>1. layout[i + 1] = [section |-> "TEXT",
                         offset |-> [size EXCEPT !["TEXT"] = @ + enc.len]]
    BY <1>1, <1>3, TextStep
  <2>2. section' = "TEXT"
    BY <1>1, <1>5, TextStep
  <2> QED BY <1>12, <2>1, <2>2
<1> QED BY <1>1, <1>11, <1>13, <1>15, <1>16, TextStep, Proceed2Agrees

\* At the end pass 2 has reached the totals of pass 1.
LEMMA Pass2FinishAgrees == PassesAgree /\ Pass2Finish => PassesAgree'
<1> SUFFICES ASSUME PassesAgree, Pass2Finish PROVE PassesAgree'
  OBVIOUS
<1> USE DEF PassesAgree, TypeOK
<1>0. /\ phase = "pass2" /\ i = Len(prog) + 1 /\ phase' = "done"
      /\ Report2(FALSE, size # offset)
      /\ UNCHANGED <<prog, i, section, offset, alignment, symtab, files, errors1,
                     layout, size, emissions, code, relocs, location, lines>>
  BY DEF Pass2Finish, vars1
<1>1. size = offset
  BY <1>0 DEF Retraces, LayoutOK
<1>2. errors2' \subseteq [at : Nat, why : Reason] /\ ~Interrupted'
  <2>1. ~(size # offset)
    BY <1>1
  <2> QED BY <1>0, <2>1, GoingOn, Report2Facts, Zenon
<1>3. ControlOK' /\ Pass1ResultOK' /\ Pass2ResultOK'
  BY <1>0, <1>2 DEF ControlOK, Pass1ResultOK, Pass2ResultOK
<1>4. LayoutOK' /\ Retraces'
  BY <1>0 DEF LayoutOK, Retraces
<1>5. \A k \in DOMAIN prog : ~Overflows(prog[k])
  <2>1. DOMAIN prog = 1 .. i - 1
    BY <1>0 DEF ControlOK
  <2> QED BY <1>0, <2>1 DEF Retraces
<1>6. OnlyOverflowInterrupts'
  BY <1>0, <1>2, <1>5 DEF OnlyOverflowInterrupts, Interrupted
<1> QED BY <1>2, <1>3, <1>4, <1>6

-----------------------------------------------------------------------------
(* The theorems *)

LEMMA InitAgrees == Init => PassesAgree
<1> SUFFICES ASSUME Init PROVE PassesAgree
  OBVIOUS
<1> USE DEF Init
<1>1. ControlOK
  <2>1. prog \in Seq(Stmts)
    BY ParserAssumption
  <2> QED BY <2>1 DEF ControlOK, Section
<1>2. Pass1ResultOK
  BY DEF Pass1ResultOK, ZeroEntry, Entry, Section, Binding
<1>3. Pass2ResultOK /\ OnlyOverflowInterrupts /\ Retraces
  BY DEF Pass2ResultOK, OnlyOverflowInterrupts, Accepted, Retraces
<1>4. LayoutOK
  <2> DEFINE first == [section |-> "TEXT", offset |-> [s \in Section |-> 0]]
  <2>1. first \in Layout /\ \A s \in Section : first.offset[s] = 0
    BY DEF Layout, Section
  <2>2. layout = <<first>>
    OBVIOUS
  <2> HIDE DEF first
  <2>3. layout \in Seq(Layout) /\ Len(layout) = 1 /\ layout[1] = first
    BY <2>1, <2>2
  <2> QED BY <2>1, <2>3 DEF LayoutOK, first
<1> QED BY <1>1, <1>2, <1>3, <1>4 DEF PassesAgree, TypeOK

(***************************************************************************)
(* PassesAgree is inductive: whatever one statement of either pass does    *)
(* keeps pass 2 on the path pass 1 took.                                   *)
(***************************************************************************)
THEOREM PassesStayInAgreement == Spec => []PassesAgree
<1>1. PassesAgree /\ [Next]_vars => PassesAgree'
  <2> SUFFICES ASSUME PassesAgree, [Next]_vars PROVE PassesAgree'
    OBVIOUS
  <2>1. CASE Pass1
    BY <2>1, Pass1SectionAgrees, Pass1ExternalAgrees, Pass1VisibilityAgrees,
       Pass1DebugFileAgrees, Pass1DebugLocationAgrees, Pass1RejectedAgrees,
       Pass1DataAgrees, Pass1InstructionAgrees, Pass1FinishAgrees DEF Pass1
  <2>2. CASE Pass2
    BY <2>2, Pass2SectionAgrees, Pass2SkipAgrees, Pass2DebugLocationAgrees,
       Pass2NegativeSizeAgrees, Pass2DataAgrees, Pass2BssAgrees, Pass2NoCodeAgrees,
       Pass2FilledAgrees, Pass2EncodedAgrees, Pass2FinishAgrees DEF Pass2
  <2>3. CASE UNCHANGED vars
    BY <2>3 DEF vars, vars1, vars2, PassesAgree, TypeOK, ControlOK, Pass1ResultOK,
                Pass2ResultOK, LayoutOK, Retraces, Interrupted,
                OnlyOverflowInterrupts, Accepted
  <2> QED BY <2>1, <2>2, <2>3 DEF Next, Stopped
<1> QED BY <1>1, InitAgrees, PTL DEF Spec

(***************************************************************************)
(* Type correctness of both passes (pass1_run and pass2_run).              *)
(***************************************************************************)
THEOREM TypeCorrect == Spec => []TypeOK
<1>1. PassesAgree => TypeOK
  BY DEF PassesAgree
<1> QED BY <1>1, PassesStayInAgreement, PTL

(***************************************************************************)
(* pass2_run takes one of its internal-error exits at a string of more     *)
(* than INT_MAX bytes and nowhere else, for any program and any encoder    *)
(* that sizes what it encodes, and no output holds such a string.  Of the  *)
(* size that overflowed the proof uses only that it is an int.             *)
(***************************************************************************)
THEOREM PassesDisagreeOnlyOnOverflow == Spec => []OnlyOverflowInterrupts
<1>1. PassesAgree => OnlyOverflowInterrupts
  BY DEF PassesAgree
<1> QED BY <1>1, PassesStayInAgreement, PTL

-----------------------------------------------------------------------------
(***************************************************************************)
(* What pass1_run leaves for its readers, for every program: sections that *)
(* only grow, labels that keep the place they were registered at, the      *)
(* largest boundary of each section and locations that name declared       *)
(* files.  Pass1Kept is the inductive invariant, on top of PassesAgree.    *)
(***************************************************************************)

\* The statements pass 1 has handled.
Handled == 1 .. Len(layout) - 1

\* No section ever shrinks.
Grows ==
    \A a, b \in 1 .. Len(layout) : a <= b =>
        \A s \in Section : layout[a].offset[s] <= layout[b].offset[s]

\* Every byte counted was counted for one of the statements.
Covered ==
    \A s \in Section : \A b \in 0 .. offset[s] - 1 : \E k \in Handled :
        layout[k].offset[s] <= b /\ b < layout[k + 1].offset[s]

\* A label keeps the place it was registered at.
LabelsKept ==
    errors1 = {} => \A k \in Handled : Registers(prog[k]) =>
        LET e == symtab[prog[k].label] IN
        /\ e.defined
        /\ e.section = layout[k].section
        /\ e.offset = layout[k].offset[layout[k].section]

\* The alignment noted for a section is the largest boundary asked for in it.
BoundariesKept ==
    /\ alignment \in [DataSection -> AlignmentValues \union {0}]
    /\ errors1 = {} => \A k \in Handled : prog[k].directive = "ALIGNMENT" =>
           Imm(prog[k], 1) <= alignment[layout[k].section]

\* Locations are valid, and name declared files once the loop is over.
LocationsKept ==
    /\ errors1 = {} => \A k \in Handled : prog[k].directive = "DEBUG_LOCATION" =>
           validate_debug_location_directive(prog[k])
    /\ phase \in {"pass2", "done"} => UndeclaredFileUse = {}

Pass1Kept == Grows /\ Covered /\ LabelsKept /\ BoundariesKept /\ LocationsKept

-----------------------------------------------------------------------------
(* The common part of the steps of pass 1 *)

\* The history grows by one entry, and the rest of it stays.
LEMMA Advance1Facts ==
    ASSUME PassesAgree, phase = "pass1", i <= Len(prog), Advance1,
           section' \in Section, offset' \in [Section -> Nat]
    PROVE  /\ i \in 1 .. Len(prog) /\ i \in Nat /\ Len(prog) \in Nat
           /\ UNCHANGED <<prog, phase>> /\ i' = i + 1
           /\ Len(layout) = i /\ Len(layout') = i + 1
           /\ Handled = 1 .. i - 1 /\ Handled' = 1 .. i
           /\ \A k \in 1 .. i : layout'[k] = layout[k] /\ layout[k] \in Layout
           /\ layout'[i + 1] = [section |-> section', offset |-> offset']
           /\ layout[i].section = section /\ layout[i].offset = offset
           /\ \A k \in 1 .. i : \A s \in Section :
                layout[k].offset[s] \in Nat /\ layout[k].offset[s] <= offset[s]
<1> USE DEF PassesAgree, TypeOK
<1> DEFINE new == [section |-> section', offset |-> offset']
<1>1. /\ i' = i + 1 /\ layout' = Append(layout, new) /\ UNCHANGED <<prog, phase>>
  BY DEF Advance1
<1>2. i \in Nat /\ Len(prog) \in Nat /\ i \in 1 .. Len(prog)
  BY DEF ControlOK
<1>3. layout \in Seq(Layout) /\ Len(layout) = i /\ new \in Layout
  BY DEF LayoutOK, Layout
<1>4. layout[i].section = section /\ layout[i].offset = offset
  BY <1>3 DEF LayoutOK
<1>5. \A k \in 1 .. i : layout[k] \in Layout
  BY <1>2, <1>3
<1>6. \A k \in 1 .. i : \A s \in Section :
        layout[k].offset[s] \in Nat /\ layout[k].offset[s] <= offset[s]
  BY <1>3, <1>5 DEF LayoutOK, Layout
<1> HIDE DEF new
<1>7. Len(layout') = i + 1 /\ layout'[i + 1] = new
      /\ \A k \in 1 .. i : layout'[k] = layout[k]
  BY <1>1, <1>2, <1>3
<1>8. Handled = 1 .. i - 1 /\ Handled' = 1 .. i
  BY <1>2, <1>3, <1>7 DEF Handled
<1> QED BY <1>1, <1>2, <1>3, <1>4, <1>5, <1>6, <1>7, <1>8 DEF new

\* Sections that do not shrink in a step never shrink, and the bytes the step
\* counts are the bytes of its statement.
LEMMA Advance1Grows ==
    ASSUME PassesAgree, Grows, Covered, phase = "pass1", i <= Len(prog), Advance1,
           section' \in Section, offset' \in [Section -> Nat],
           \A s \in Section : offset[s] <= offset'[s]
    PROVE  Grows' /\ Covered'
<1>0. /\ i \in Nat /\ Len(layout) = i /\ Len(layout') = i + 1
      /\ Handled = 1 .. i - 1 /\ Handled' = 1 .. i
      /\ \A k \in 1 .. i : layout'[k] = layout[k]
      /\ layout'[i + 1].offset = offset' /\ layout[i].offset = offset
      /\ \A k \in 1 .. i : \A s \in Section :
           layout[k].offset[s] \in Nat /\ layout[k].offset[s] <= offset[s]
      /\ i \in 1 .. i
  BY Advance1Facts
<1>1. offset \in [Section -> Nat]
  BY DEF PassesAgree, TypeOK, Pass1ResultOK
<1>2. Grows'
  <2> SUFFICES ASSUME NEW a \in 1 .. i + 1, NEW b \in 1 .. i + 1, a <= b,
                      NEW s \in Section
               PROVE  layout'[a].offset[s] <= layout'[b].offset[s]
    BY <1>0 DEF Grows
  <2>1. offset[s] \in Nat /\ offset'[s] \in Nat /\ offset[s] <= offset'[s]
    BY <1>1
  <2>2. CASE b \in 1 .. i
    <3>1. a \in 1 .. i
      BY <1>0, <2>2
    <3> QED BY <1>0, <2>2, <3>1 DEF Grows
  <2>3. CASE b = i + 1 /\ a \in 1 .. i
    BY <1>0, <2>1, <2>3
  <2>4. CASE b = i + 1 /\ a = i + 1
    BY <1>0, <2>1, <2>4
  <2> QED BY <1>0, <2>2, <2>3, <2>4
<1>3. Covered'
  <2> SUFFICES ASSUME NEW s \in Section, NEW b \in 0 .. offset'[s] - 1
               PROVE  \E k \in 1 .. i : /\ layout'[k].offset[s] <= b
                                        /\ b < layout'[k + 1].offset[s]
    BY <1>0 DEF Covered
  <2>1. offset[s] \in Nat /\ offset'[s] \in Nat /\ offset[s] <= offset'[s] /\ b \in Nat
    BY <1>1
  <2>2. CASE b < offset[s]
    <3>1. b \in 0 .. offset[s] - 1
      BY <2>1, <2>2
    <3>2. PICK k \in 1 .. i - 1 : /\ layout[k].offset[s] <= b
                                  /\ b < layout[k + 1].offset[s]
      BY <1>0, <3>1 DEF Covered
    <3>3. k \in 1 .. i /\ k + 1 \in 1 .. i
      BY <1>0
    <3> QED BY <1>0, <3>2, <3>3
  <2>3. CASE offset[s] <= b
    <3>1. layout'[i].offset[s] <= b /\ b < layout'[i + 1].offset[s]
      BY <1>0, <2>1, <2>3
    <3> QED BY <1>0, <3>1
  <2> QED BY <2>1, <2>2, <2>3
<1> QED BY <1>2, <1>3

\* A step of pass 1 keeps what earlier statements left and adds its own part.
LEMMA Advance1Keeps ==
    ASSUME PassesAgree, PassesAgree', Pass1Kept,
           phase = "pass1", i <= Len(prog), Advance1,
           \A s \in Section : offset[s] <= offset'[s],
           errors1' = {} =>
             /\ errors1 = {}
             /\ \A n \in Names : symtab[n].defined =>
                  /\ symtab'[n].defined
                  /\ symtab'[n].section = symtab[n].section
                  /\ symtab'[n].offset = symtab[n].offset
             /\ Registers(Stmt) =>
                  /\ symtab'[Stmt.label].defined
                  /\ symtab'[Stmt.label].section = section
                  /\ symtab'[Stmt.label].offset = offset[section]
             /\ Stmt.directive = "DEBUG_LOCATION" =>
                  validate_debug_location_directive(Stmt)
             /\ Stmt.directive = "ALIGNMENT" => Imm(Stmt, 1) <= alignment'[section],
           alignment' \in [DataSection -> AlignmentValues \union {0}],
           \A s \in DataSection : alignment[s] <= alignment'[s]
    PROVE  Pass1Kept'
<1> USE DEF Pass1Kept
<1>0. /\ i \in Nat /\ i \in 1 .. Len(prog) /\ Handled = 1 .. i - 1 /\ Handled' = 1 .. i
      /\ UNCHANGED <<prog, phase>> /\ Len(layout) = i
      /\ \A k \in 1 .. i : layout'[k] = layout[k] /\ layout[k] \in Layout
      /\ layout[i].section = section /\ layout[i].offset = offset
  BY Advance1Facts DEF PassesAgree, TypeOK, ControlOK, Pass1ResultOK
<1>1. Grows' /\ Covered'
  BY Advance1Grows DEF PassesAgree, TypeOK, ControlOK, Pass1ResultOK
<1>2. \A k \in 1 .. i : k = i \/ k \in Handled
  BY <1>0
<1>3. \A k \in 1 .. i : prog[k] \in Stmts
  BY <1>0 DEF PassesAgree, TypeOK, ControlOK
<1>4. LabelsKept'
  <2> SUFFICES ASSUME errors1' = {}, NEW k \in 1 .. i, Registers(prog[k])
               PROVE  LET e == symtab'[prog[k].label] IN
                      /\ e.defined
                      /\ e.section = layout[k].section
                      /\ e.offset = layout[k].offset[layout[k].section]
    BY <1>0 DEF LabelsKept, Registers
  <2>1. CASE k = i
    BY <1>0, <2>1 DEF Stmt
  <2>2. CASE k \in Handled
    <3>1. prog[k].label \in Names
      BY <1>3, StatementFacts DEF Registers
    <3>2. LET e == symtab[prog[k].label] IN
          /\ e.defined
          /\ e.section = layout[k].section
          /\ e.offset = layout[k].offset[layout[k].section]
      BY <2>2 DEF LabelsKept
    <3> QED BY <3>1, <3>2
  <2> QED BY <1>2, <2>1, <2>2
<1>5. BoundariesKept'
  <2>1. ASSUME errors1' = {}, NEW k \in 1 .. i, prog[k].directive = "ALIGNMENT"
        PROVE  Imm(prog[k], 1) <= alignment'[layout[k].section]
    <3>1. CASE k = i
      BY <1>0, <2>1, <3>1 DEF Stmt
    <3>2. CASE k \in Handled
      <4>1. Imm(prog[k], 1) <= alignment[layout[k].section]
        BY <2>1, <3>2 DEF BoundariesKept
      <4>2. AcceptedAt(prog[k], layout[k].section)
        BY <1>0, <2>1, <3>2 DEF PassesAgree, LayoutOK
      <4>3. AllowedIn(prog[k], layout[k].section)
        BY <2>1, <4>2 DEF AcceptedAt, is_data_directive
      <4>4. layout[k].section \in DataSection
        BY <1>0, <4>3 DEF AllowedIn, Layout, DataSection, Section
      <4>5. Imm(prog[k], 1) \in Nat
        BY <2>1, <4>3 DEF AllowedIn, validate_data_directive, AlignmentValues, IntDirective
      <4>6. alignment[layout[k].section] \in Nat /\ alignment'[layout[k].section] \in Nat
        BY <4>4 DEF PassesAgree, TypeOK, Pass1ResultOK
      <4>7. alignment[layout[k].section] <= alignment'[layout[k].section]
        BY <4>4
      <4> QED BY <4>1, <4>5, <4>6, <4>7
    <3> QED BY <1>2, <3>1, <3>2
  <2> QED BY <1>0, <2>1 DEF BoundariesKept
<1>6. LocationsKept'
  <2>1. ASSUME errors1' = {}, NEW k \in 1 .. i, prog[k].directive = "DEBUG_LOCATION"
        PROVE  validate_debug_location_directive(prog[k])
    <3>1. CASE k = i
      BY <2>1, <3>1 DEF Stmt
    <3>2. CASE k \in Handled
      BY <2>1, <3>2 DEF LocationsKept
    <3> QED BY <1>2, <3>1, <3>2
  <2> QED BY <1>0, <2>1 DEF LocationsKept
<1> QED BY <1>1, <1>4, <1>5, <1>6

-----------------------------------------------------------------------------
(* One lemma per action of pass 1 *)

\* A statement that registers nothing and leaves the boundaries alone.
LEMMA QuietStatementKeeps ==
    ASSUME PassesAgree, PassesAgree', Pass1Kept, Advance1,
           phase = "pass1", i <= Len(prog), ~Registers(Stmt),
           UNCHANGED <<offset, alignment>>,
           errors1' = {} =>
             /\ errors1 = {}
             /\ \A n \in Names : symtab[n].defined =>
                  /\ symtab'[n].defined
                  /\ symtab'[n].section = symtab[n].section
                  /\ symtab'[n].offset = symtab[n].offset
             /\ Stmt.directive # "ALIGNMENT"
             /\ Stmt.directive = "DEBUG_LOCATION" =>
                  validate_debug_location_directive(Stmt)
    PROVE  Pass1Kept'
<1>1. \A s \in Section : offset[s] <= offset'[s]
  BY DEF PassesAgree, TypeOK, Pass1ResultOK
<1>2. /\ alignment' \in [DataSection -> AlignmentValues \union {0}]
      /\ \A s \in DataSection : alignment[s] <= alignment'[s]
  BY DEF PassesAgree, TypeOK, Pass1ResultOK, Pass1Kept, BoundariesKept
<1> QED BY <1>1, <1>2, Advance1Keeps

LEMMA Pass1SectionKeeps ==
    ASSUME PassesAgree, PassesAgree', Pass1Kept, Pass1Section
    PROVE  Pass1Kept'
<1>1. /\ phase = "pass1" /\ i <= Len(prog) /\ Stmt.directive \in SectionDirective
      /\ UNCHANGED <<offset, alignment, symtab, errors1>> /\ Advance1
  BY DEF Pass1Section, InPass1
<1>2. ~Registers(Stmt) /\ Stmt.directive \notin {"ALIGNMENT", "DEBUG_LOCATION"}
  BY <1>1 DEF Registers, SectionDirective, is_data_directive, IntDirective
<1> QED BY <1>1, <1>2, QuietStatementKeeps

\* An external declaration never touches a defined symbol.
LEMMA Pass1ExternalKeeps ==
    ASSUME PassesAgree, PassesAgree', Pass1Kept, Pass1External
    PROVE  Pass1Kept'
<1> DEFINE sym == Stmt.ops[1].sym
           ok  == OneLabel(Stmt) /\ CanDeclareExternal(symtab[sym])
<1>1. /\ phase = "pass1" /\ i <= Len(prog) /\ Stmt.directive = "EXTERNAL"
      /\ symtab' = IF ok THEN [symtab EXCEPT ![sym] = DeclareExternal(@)] ELSE symtab
      /\ Report1(~ok, "external")
      /\ UNCHANGED <<offset, alignment>> /\ Advance1
  BY DEF Pass1External, InPass1
<1>2. ~Registers(Stmt) /\ Stmt.directive \notin {"ALIGNMENT", "DEBUG_LOCATION"}
  BY <1>1 DEF Registers, is_data_directive, IntDirective
<1>3. ~symtab[sym].defined \/ symtab' = symtab
  BY <1>1 DEF CanDeclareExternal
<1>4. symtab \in [Names -> Entry]
  BY DEF PassesAgree, TypeOK, Pass1ResultOK
<1>5. \A n \in Names : symtab[n].defined => symtab'[n] = symtab[n]
  <2> SUFFICES ASSUME NEW n \in Names, symtab[n].defined PROVE symtab'[n] = symtab[n]
    OBVIOUS
  <2>1. CASE symtab' = symtab
    BY <2>1
  <2>2. CASE symtab' # symtab
    <3>1. n # sym /\ symtab' = [symtab EXCEPT ![sym] = DeclareExternal(@)]
      BY <1>1, <1>3, <2>2
    <3> HIDE DEF sym
    <3> QED BY <1>4, <3>1
  <2> QED BY <2>1, <2>2
<1>6. errors1' = {} => errors1 = {}
  <2>1. "external" \in Reason /\ ControlOK /\ Pass1ResultOK
    BY DEF Reason, PassesAgree, TypeOK
  <2> HIDE DEF ok
  <2> QED BY <1>1, <2>1, Report1Facts
<1> QED BY <1>1, <1>2, <1>5, <1>6, QuietStatementKeeps

\* A visibility declaration moves no symbol.
LEMMA Pass1VisibilityKeeps ==
    ASSUME PassesAgree, PassesAgree', Pass1Kept, Pass1Visibility
    PROVE  Pass1Kept'
<1> DEFINE sym == Stmt.ops[1].sym
           ok  == OneLabel(Stmt) /\ CanDeclareBinding(symtab[sym], Stmt.directive)
<1>1. /\ phase = "pass1" /\ i <= Len(prog) /\ Stmt.directive \in {"GLOBAL", "LOCAL"}
      /\ symtab' = IF ok
                   THEN [symtab EXCEPT ![sym] = DeclareBinding(@, Stmt.directive)]
                   ELSE symtab
      /\ Report1(~ok, "visibility")
      /\ UNCHANGED <<offset, alignment>> /\ Advance1
  BY DEF Pass1Visibility, InPass1
<1>2. ~Registers(Stmt) /\ Stmt.directive \notin {"ALIGNMENT", "DEBUG_LOCATION"}
  BY <1>1 DEF Registers, is_data_directive, IntDirective
<1>3. symtab \in [Names -> Entry]
  BY DEF PassesAgree, TypeOK, Pass1ResultOK
<1>4. \A e \in Entry : LET d == DeclareBinding(e, Stmt.directive) IN
        d.defined = e.defined /\ d.section = e.section /\ d.offset = e.offset
  BY DEF Entry, DeclareBinding
<1>5. \A n \in Names : symtab[n].defined =>
        /\ symtab'[n].defined
        /\ symtab'[n].section = symtab[n].section
        /\ symtab'[n].offset = symtab[n].offset
  <2> SUFFICES ASSUME NEW n \in Names, symtab[n].defined
               PROVE  /\ symtab'[n].defined
                      /\ symtab'[n].section = symtab[n].section
                      /\ symtab'[n].offset = symtab[n].offset
    OBVIOUS
  <2>1. symtab'[n] = symtab[n] \/ symtab'[n] = DeclareBinding(symtab[n], Stmt.directive)
    <3>1. symtab' = symtab
          \/ symtab' = [symtab EXCEPT ![sym] = DeclareBinding(@, Stmt.directive)]
      BY <1>1
    <3> HIDE DEF sym
    <3> QED BY <1>3, <3>1
  <2>2. symtab[n] \in Entry
    BY <1>3
  <2> QED BY <1>4, <2>1, <2>2
<1>6. errors1' = {} => errors1 = {}
  <2>1. "visibility" \in Reason /\ ControlOK /\ Pass1ResultOK
    BY DEF Reason, PassesAgree, TypeOK
  <2> HIDE DEF ok
  <2> QED BY <1>1, <2>1, Report1Facts
<1> QED BY <1>1, <1>2, <1>5, <1>6, QuietStatementKeeps

LEMMA Pass1DebugFileKeeps ==
    ASSUME PassesAgree, PassesAgree', Pass1Kept, Pass1DebugFile
    PROVE  Pass1Kept'
<1> DEFINE ok == ValidDebugFile(Stmt) /\ ~debug_file_find(Imm(Stmt, 1))
<1>1. /\ phase = "pass1" /\ i <= Len(prog)
      /\ Stmt.directive \in {"DEBUG_FILE", "DEBUG_FILE_BYTES"}
      /\ Report1(~ok, "debug file")
      /\ UNCHANGED <<offset, alignment, symtab>> /\ Advance1
  BY DEF Pass1DebugFile, InPass1
<1>2. ~Registers(Stmt) /\ Stmt.directive \notin {"ALIGNMENT", "DEBUG_LOCATION"}
  BY <1>1 DEF Registers, is_data_directive, IntDirective
<1>3. errors1' = {} => errors1 = {}
  <2>1. "debug file" \in Reason /\ ControlOK /\ Pass1ResultOK
    BY DEF Reason, PassesAgree, TypeOK
  <2> HIDE DEF ok
  <2> QED BY <1>1, <2>1, Report1Facts
<1> QED BY <1>1, <1>2, <1>3, QuietStatementKeeps

LEMMA Pass1DebugLocationKeeps ==
    ASSUME PassesAgree, PassesAgree', Pass1Kept, Pass1DebugLocation
    PROVE  Pass1Kept'
<1>1. /\ phase = "pass1" /\ i <= Len(prog) /\ Stmt.directive = "DEBUG_LOCATION"
      /\ Report1(~validate_debug_location_directive(Stmt), "debug location")
      /\ UNCHANGED <<offset, alignment, symtab>> /\ Advance1
  BY DEF Pass1DebugLocation, InPass1
<1>2. ~Registers(Stmt) /\ Stmt.directive # "ALIGNMENT"
  BY <1>1 DEF Registers, is_data_directive, IntDirective
<1>3. errors1' = {} => errors1 = {} /\ validate_debug_location_directive(Stmt)
  <2>1. "debug location" \in Reason /\ ControlOK /\ Pass1ResultOK
    BY DEF Reason, PassesAgree, TypeOK
  <2> QED BY <1>1, <2>1, Report1Facts
<1> QED BY <1>1, <1>2, <1>3, QuietStatementKeeps

\* A rejected statement is reported, and nothing is asked of what follows.
LEMMA Pass1RejectedKeeps ==
    ASSUME PassesAgree, PassesAgree', Pass1Kept, Pass1Rejected
    PROVE  Pass1Kept'
<1>1. /\ phase = "pass1" /\ i <= Len(prog) /\ Report1(TRUE, "directive")
      /\ UNCHANGED <<offset, alignment>> /\ Advance1
  BY DEF Pass1Rejected, InPass1
<1>2. errors1' # {}
  <2>1. "directive" \in Reason /\ ControlOK /\ Pass1ResultOK
    BY DEF Reason, PassesAgree, TypeOK
  <2> QED BY <1>1, <2>1, Report1Facts
<1>3. \A s \in Section : offset[s] <= offset'[s]
  BY <1>1 DEF PassesAgree, TypeOK, Pass1ResultOK
<1>4. /\ alignment' \in [DataSection -> AlignmentValues \union {0}]
      /\ \A s \in DataSection : alignment[s] <= alignment'[s]
  BY <1>1 DEF PassesAgree, TypeOK, Pass1ResultOK, Pass1Kept, BoundariesKept
<1> QED BY <1>1, <1>2, <1>3, <1>4, Advance1Keeps

\* A label is inserted at the current place, over no other definition.
LEMMA RegisterLabelKeeps ==
    ASSUME PassesAgree, NEW name \in Names \union {NoName}, RegisterLabel(name),
           errors1' = {}
    PROVE  /\ errors1 = {}
           /\ \A n \in Names : symtab[n].defined =>
                /\ symtab'[n].defined
                /\ symtab'[n].section = symtab[n].section
                /\ symtab'[n].offset = symtab[n].offset
           /\ name # NoName =>
                /\ symtab'[name].defined
                /\ symtab'[name].section = section
                /\ symtab'[name].offset = offset[section]
<1>0. errors1 = {} /\ symtab \in [Names -> Entry]
  BY RegisterLabelFacts DEF PassesAgree, TypeOK, Pass1ResultOK
<1>1. CASE name = NoName
  BY <1>0, <1>1 DEF RegisterLabel
<1>2. CASE name \in Names /\ name # NoName
  <2>1. Report1(~CanInsert(symtab[name]), "duplicate") /\ "duplicate" \in Reason
    BY <1>2 DEF RegisterLabel, Reason
  <2>2. CanInsert(symtab[name])
    BY <2>1, Report1Facts DEF PassesAgree, TypeOK
  <2>3. symtab' = [symtab EXCEPT ![name] = Insert(@, section, offset[section])]
    BY <1>2, <2>2 DEF RegisterLabel
  <2>4. \A n \in Names : symtab[n].defined => symtab'[n] = symtab[n]
    BY <1>0, <2>2, <2>3 DEF CanInsert
  <2>5. symtab'[name] = Insert(symtab[name], section, offset[section])
    BY <1>0, <1>2, <2>3
  <2>6. symtab[name] \in Entry
    BY <1>0, <1>2
  <2>7. /\ symtab'[name].defined
        /\ symtab'[name].section = section
        /\ symtab'[name].offset = offset[section]
    BY <2>5, <2>6 DEF Insert, Entry
  <2> QED BY <1>0, <2>4, <2>7
<1> QED BY <1>1, <1>2

LEMMA Pass1DataKeeps ==
    ASSUME PassesAgree, PassesAgree', Pass1Kept, Pass1Data
    PROVE  Pass1Kept'
<1> DEFINE more == Counted(Stmt, offset[section])
<1>1. /\ phase = "pass1" /\ i <= Len(prog) /\ is_data_directive(Stmt.directive)
      /\ AllowedIn(Stmt, section) /\ pass1_note_alignment /\ RegisterLabel(Stmt.label)
      /\ offset' = [offset EXCEPT ![section] = @ + Counted(Stmt, @)]
      /\ Advance1
  BY DEF Pass1Data, InPass1, DataDirective
<1>2. Stmt \in Stmts /\ Stmt.label \in Names \union {NoName}
  BY <1>1, StmtIsAStatement, StatementFacts DEF PassesAgree, TypeOK
<1>3. section \in DataSection /\ section \in Section /\ validate_data_directive(Stmt)
      /\ offset \in [Section -> Nat]
  BY <1>1 DEF AllowedIn, PassesAgree, TypeOK, ControlOK, Pass1ResultOK, Section, DataSection
<1>4. \A s \in Section : offset[s] <= offset'[s]
  <2>1. more \in Nat
    BY <1>1, <1>2, <1>3, CountedFact
  <2>2. offset' = [offset EXCEPT ![section] = @ + more]
    BY <1>1, <1>3
  <2> HIDE DEF more
  <2> QED BY <1>3, <2>1, <2>2
<1>5. Stmt.directive = "ALIGNMENT" => Imm(Stmt, 1) \in AlignmentValues
  BY <1>3 DEF validate_data_directive, IntDirective
<1>6. alignment \in [DataSection -> AlignmentValues \union {0}]
  BY DEF Pass1Kept, BoundariesKept
<1>7. /\ \A s \in DataSection : alignment[s] \in Nat
      /\ Stmt.directive = "ALIGNMENT" => Imm(Stmt, 1) \in Nat
  BY <1>5 DEF AlignmentValues, PassesAgree, TypeOK, Pass1ResultOK
<1>8. /\ alignment' \in [DataSection -> AlignmentValues \union {0}]
      /\ \A s \in DataSection : alignment[s] <= alignment'[s]
      /\ Stmt.directive = "ALIGNMENT" => Imm(Stmt, 1) <= alignment'[section]
  <2>1. CASE Stmt.directive = "ALIGNMENT" /\ Imm(Stmt, 1) > alignment[section]
    <3>1. alignment' = [alignment EXCEPT ![section] = Imm(Stmt, 1)]
      BY <1>1, <2>1 DEF pass1_note_alignment
    <3> QED BY <1>3, <1>5, <1>6, <1>7, <2>1, <3>1
  <2>2. CASE ~(Stmt.directive = "ALIGNMENT" /\ Imm(Stmt, 1) > alignment[section])
    <3>1. alignment' = alignment
      BY <1>1, <2>2 DEF pass1_note_alignment
    <3>2. Stmt.directive = "ALIGNMENT" => Imm(Stmt, 1) <= alignment[section]
      BY <1>3, <1>7, <2>2
    <3> QED BY <1>6, <1>7, <3>1, <3>2
  <2> QED BY <2>1, <2>2
<1>9. Stmt.directive # "DEBUG_LOCATION" /\ (Registers(Stmt) => Stmt.label # NoName)
  BY <1>1 DEF Registers, is_data_directive, IntDirective
<1> QED BY <1>1, <1>2, <1>4, <1>8, <1>9, RegisterLabelKeeps, Advance1Keeps

LEMMA Pass1InstructionKeeps ==
    ASSUME PassesAgree, PassesAgree', Pass1Kept, Pass1Instruction
    PROVE  Pass1Kept'
<1>1. /\ phase = "pass1" /\ i <= Len(prog) /\ Stmt.directive = "NONE"
      /\ RegisterLabel(Stmt.label)
      /\ offset' = IF Stmt.opcode = "INVALID" \/ section # "TEXT" THEN offset
                   ELSE [offset EXCEPT !["TEXT"] = @ + InstructionBytes(Stmt)]
      /\ UNCHANGED alignment /\ Advance1
  BY DEF Pass1Instruction, InPass1
<1>2. Stmt \in Stmts /\ Stmt.label \in Names \union {NoName}
  BY <1>1, StmtIsAStatement, StatementFacts DEF PassesAgree, TypeOK
<1>3. \A s \in Section : offset[s] <= offset'[s]
  <2>1. InstructionBytes(Stmt) \in Nat /\ offset \in [Section -> Nat]
    BY <1>2, InstructionBytesPositive DEF PassesAgree, TypeOK, Pass1ResultOK
  <2> QED BY <1>1, <2>1
<1>4. /\ alignment' \in [DataSection -> AlignmentValues \union {0}]
      /\ \A s \in DataSection : alignment[s] <= alignment'[s]
  BY <1>1 DEF PassesAgree, TypeOK, Pass1ResultOK, Pass1Kept, BoundariesKept
<1>5. Stmt.directive \notin {"ALIGNMENT", "DEBUG_LOCATION"}
      /\ (Registers(Stmt) => Stmt.label # NoName)
  BY <1>1 DEF Registers
<1> QED BY <1>1, <1>2, <1>3, <1>4, <1>5, RegisterLabelKeeps, Advance1Keeps

\* Pass 2 starts only when the checks after the loop found nothing.
LEMMA Pass1FinishKeeps ==
    ASSUME PassesAgree, Pass1Kept, Pass1Finish
    PROVE  Pass1Kept'
<1>1. /\ phase = "pass1" /\ errors1' = errors1 \union EndOfPass1Errors
      /\ phase' \in {"failed", "pass2"} /\ (phase' = "pass2" => errors1' = {})
      /\ UNCHANGED <<prog, offset, alignment, symtab, files, layout>>
  BY DEF Pass1Finish
<1>2. errors1' = {} => errors1 = {} /\ EndOfPass1Errors = {}
  BY <1>1
<1>3. EndOfPass1Errors = {} => UndeclaredFileUse = {}
  BY DEF EndOfPass1Errors
<1>4. UndeclaredFileUse' = UndeclaredFileUse
  BY <1>1 DEF UndeclaredFileUse, debug_file_find
<1>5. Grows' /\ Covered' /\ LabelsKept' /\ BoundariesKept'
  BY <1>1, <1>2 DEF Pass1Kept, Grows, Covered, LabelsKept, BoundariesKept, Handled, Registers
<1>6. LocationsKept'
  BY <1>1, <1>2, <1>3, <1>4 DEF Pass1Kept, LocationsKept, Handled
<1> QED BY <1>5, <1>6 DEF Pass1Kept

\* Pass 2 only reads what pass 1 left.
LEMMA Pass2Keeps ==
    ASSUME PassesAgree, Pass1Kept, UNCHANGED <<prog, vars1>>,
           phase' = phase \/ (phase = "pass2" /\ phase' = "done")
    PROVE  Pass1Kept'
<1>1. UNCHANGED <<prog, offset, alignment, symtab, files, errors1, layout>>
  BY DEF vars1
<1>2. UndeclaredFileUse' = UndeclaredFileUse
  BY <1>1 DEF UndeclaredFileUse, debug_file_find
<1>3. Grows' /\ Covered' /\ LabelsKept' /\ BoundariesKept'
  BY <1>1 DEF Pass1Kept, Grows, Covered, LabelsKept, BoundariesKept, Handled, Registers
<1>4. LocationsKept'
  BY <1>1, <1>2 DEF Pass1Kept, LocationsKept, Handled
<1> QED BY <1>3, <1>4 DEF Pass1Kept

-----------------------------------------------------------------------------
(* The theorem *)

(***************************************************************************)
(* Whatever pass1_run has recorded stays true to the end: sections only    *)
(* grow, every counted byte belongs to one statement, a registered label   *)
(* keeps its place, the noted alignment covers every boundary and no       *)
(* location that reaches pass 2 is invalid or names an undeclared file.    *)
(***************************************************************************)
THEOREM Pass1ResultsStay == Spec => []Pass1Kept
<1>1. Init => Pass1Kept
  <2> SUFFICES ASSUME Init PROVE Pass1Kept
    OBVIOUS
  <2>1. Len(layout) = 1 /\ layout[1].offset = [s \in Section |-> 0]
        /\ offset = [s \in Section |-> 0]
    BY DEF Init
  <2>2. Handled = {}
    BY <2>1 DEF Handled
  <2>3. Grows /\ Covered
    <3>1. \A s \in Section : \A b \in 0 .. offset[s] - 1 : FALSE
      <4>1. \A b \in Int : ~(0 <= b /\ b <= 0 - 1)
        OBVIOUS
      <4> QED BY <2>1, <4>1
    <3>2. \A a, b \in 1 .. Len(layout) : a = 1 /\ b = 1
      BY <2>1
    <3> QED BY <2>1, <3>1, <3>2 DEF Grows, Covered
  <2>4. LabelsKept /\ BoundariesKept /\ LocationsKept
    BY <2>2 DEF Init, LabelsKept, BoundariesKept, LocationsKept
  <2> QED BY <2>3, <2>4 DEF Pass1Kept
<1>2. PassesAgree /\ PassesAgree' /\ Pass1Kept /\ [Next]_vars => Pass1Kept'
  <2> SUFFICES ASSUME PassesAgree, PassesAgree', Pass1Kept, [Next]_vars
               PROVE  Pass1Kept'
    OBVIOUS
  <2>1. CASE Pass1
    BY <2>1, Pass1SectionKeeps, Pass1ExternalKeeps, Pass1VisibilityKeeps,
       Pass1DebugFileKeeps, Pass1DebugLocationKeeps, Pass1RejectedKeeps,
       Pass1DataKeeps, Pass1InstructionKeeps, Pass1FinishKeeps DEF Pass1
  <2>2. CASE Pass2
    <3>1. /\ UNCHANGED <<prog, vars1>>
          /\ phase' = phase \/ (phase = "pass2" /\ phase' = "done")
      BY <2>2 DEF Pass2, Pass2Section, Pass2Skip, Pass2DebugLocation, InPass2Data,
                  Pass2NegativeSize, Pass2Data, Pass2Bss, Pass2NoCode,
                  Pass2Filled, Pass2Encoded, Pass2Finish, InPass2Text, InPass2,
                  Proceed2
    <3> QED BY <3>1, Pass2Keeps
  <2>3. CASE UNCHANGED vars
    BY <2>3, Pass2Keeps DEF vars
  <2> QED BY <2>1, <2>2, <2>3 DEF Next, Stopped
<1> QED BY <1>1, <1>2, PassesStayInAgreement, PTL DEF Spec
=============================================================================
