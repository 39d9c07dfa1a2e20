----------------------------- MODULE Statements -----------------------------
(***************************************************************************)
(* The parser's InstructionList as the passes see it                       *)
(* (src/parser/instruction.h), and the rules that depend on one statement  *)
(* alone: what a data directive must look like and how many bytes it takes *)
(* (src/passes/pass1.c), and how many it writes (src/passes/pass2.c).      *)
(* A definition whose comment starts "Wrong form" is the mutated twin of   *)
(* the one after it, for mutation testing of the properties; no            *)
(* specification uses it.                                                  *)
(*                                                                         *)
(* A string operand is its length (field imm) and the class of its text:   *)
(* "nul" holds a NUL inside, "bytes" is a byte list that decodes to a      *)
(* UTF-8 path, "plain" is any other text.                                  *)
(***************************************************************************)
EXTENDS Integers, Sequences

CONSTANTS
    Names,       \* label names
    NoName,      \* a NULL label
    INT_MAX,     \* limits of the C types and fields, scaled down for TLC
    UINT32_MAX,
    MaxLine,     \* 0x00ffffff in validate_debug_location_directive
    MaxColumn    \* UINT16_MAX there

MAX_OPERANDS == 3

OperandKind == {"REG", "IMM", "MEM", "RIP", "LABEL", "STRING"}
TextClass == {"plain", "nul", "bytes"}
Operand == [kind : OperandKind, reg : Nat, imm : Int,
            sym : Names \union {NoName}, text : TextClass]

SectionDirective == {"TEXT", "DATA", "RODATA", "BSS"}
IntDirective == {"INT8", "INT16", "INT32", "INT64"}

is_data_directive(d) ==
    d \in IntDirective \union {"ALIGNMENT", "ZERO_SPACE", "NUL_STRING"}

Directive == SectionDirective \union IntDirective \union
    {"NONE", "ALIGNMENT", "ZERO_SPACE", "NUL_STRING", "GLOBAL", "LOCAL",
     "EXTERNAL", "DEBUG_FILE", "DEBUG_FILE_BYTES", "DEBUG_LOCATION", "INVALID"}

DataDirective == {d \in Directive : is_data_directive(d)}

Statement == [label : Names \union {NoName}, directive : Directive,
              opcode : STRING, ops : Seq(Operand)]

-----------------------------------------------------------------------------
(* Operand shapes *)

OpKinds(stmt) == [k \in DOMAIN stmt.ops |-> stmt.ops[k].kind]
Imm(stmt, k) == stmt.ops[k].imm

OneImm(stmt) == OpKinds(stmt) = <<"IMM">>
OneLabel(stmt) == OpKinds(stmt) = <<"LABEL">>

-----------------------------------------------------------------------------
(* data_directive_size and data_directive_size_at *)

ElementSize(d) == CASE d = "INT8"  -> 1
                    [] d = "INT16" -> 2
                    [] d = "INT32" -> 4
                    [] d = "INT64" -> 8

IsString(stmt, k) == k \in DOMAIN stmt.ops /\ stmt.ops[k].kind = "STRING"

\* A number narrowed to int, or an int sum that has left its range: its low
\* bits, read as a signed number.  (C leaves the overflow undefined; the
\* compilers wrap.)
AsInt(n) == ((n + INT_MAX + 1) % (2 * INT_MAX + 2)) - INT_MAX - 1

\* total += (int)len + 1
AddString(total, stmt, k) ==
    IF IsString(stmt, k) THEN AsInt(total + AsInt(AsInt(Imm(stmt, k)) + 1)) ELSE total

\* An int.  Everything but the sum of strings is far from its limits.
data_directive_size(stmt) ==
    LET d == stmt.directive IN
    CASE d = "NUL_STRING" ->
             AddString(AddString(AddString(0, stmt, 1), stmt, 2), stmt, 3)
      [] d \in IntDirective -> Len(stmt.ops) * ElementSize(d)
      [] d = "ZERO_SPACE" /\ Len(stmt.ops) > 0 /\ stmt.ops[1].kind = "IMM" ->
             Imm(stmt, 1)
      [] OTHER -> 0

Padding(alignment, offset) ==
    (alignment - (offset % alignment)) % alignment

data_directive_size_at(stmt, offset) ==
    IF stmt.directive = "ALIGNMENT" /\ OneImm(stmt) /\ Imm(stmt, 1) > 0
    THEN Padding(Imm(stmt, 1), offset)
    ELSE data_directive_size(stmt)

-----------------------------------------------------------------------------
(* validate_data_directive *)

\* value >= -2^(bits-1) and value <= 2^bits - 1, in numbers below 2^bits.
data_value_fits_width(value, bits) ==
    LET half == bits \div 2 IN
    IF bits = 64 THEN TRUE
    ELSE IF value < 0 THEN (-(value + 1)) \div 2^half < 2^(half - 1)
    ELSE value \div 2^half < 2^half

AlignmentValues ==
    {1, 2, 4, 8, 16, 32, 64, 128, 256, 512, 1024, 2048, 4096}

ValidElement(stmt, k) ==
    LET d == stmt.directive IN
    \/ d = "INT64" /\ stmt.ops[k].kind = "LABEL"
    \/ /\ stmt.ops[k].kind = "IMM"
       /\ data_value_fits_width(Imm(stmt, k), 8 * ElementSize(d))

validate_data_directive(stmt) ==
    CASE stmt.directive = "NUL_STRING" ->
             /\ Len(stmt.ops) > 0
             /\ \A k \in DOMAIN stmt.ops : stmt.ops[k].kind = "STRING"
      [] stmt.directive = "ZERO_SPACE" ->
             OneImm(stmt) /\ Imm(stmt, 1) \in 0 .. INT_MAX
      [] stmt.directive = "ALIGNMENT" ->
             OneImm(stmt) /\ Imm(stmt, 1) \in AlignmentValues
      [] stmt.directive \in IntDirective ->
             /\ Len(stmt.ops) > 0
             /\ \A k \in DOMAIN stmt.ops : ValidElement(stmt, k)

-----------------------------------------------------------------------------
(* Debug directives *)

\* Everything validate_debug_file_directive asks but a fresh file id.
ValidDebugFile(stmt) ==
    /\ OpKinds(stmt) = <<"IMM", "STRING">>
    /\ Imm(stmt, 1) \in 1 .. UINT32_MAX
    /\ stmt.ops[2].imm > 0 /\ stmt.ops[2].text # "nul"
    /\ stmt.directive = "DEBUG_FILE_BYTES" => stmt.ops[2].text = "bytes"

IsLocation(stmt) == OpKinds(stmt) = <<"IMM", "IMM", "IMM">>

validate_debug_location_directive(stmt) ==
    /\ IsLocation(stmt)
    /\ \/ \A k \in 1 .. 3 : Imm(stmt, k) = 0
       \/ /\ Imm(stmt, 1) \in 1 .. UINT32_MAX
          /\ Imm(stmt, 2) \in 1 .. MaxLine
          /\ Imm(stmt, 3) \in 1 .. MaxColumn

-----------------------------------------------------------------------------
(* emit_data_directive: the bytes pass 2 writes *)

\* Bytes one string operand takes, its terminating NUL included, in size_t.
StringBytes(stmt, k) == IF IsString(stmt, k) THEN Imm(stmt, k) + 1 ELSE 0

\* Wrong form: the terminating NUL of a string is not written.
OperandBytesWithoutNul(stmt, k) ==
    IF k \notin DOMAIN stmt.ops THEN 0
    ELSE IF stmt.directive = "NUL_STRING" THEN StringBytes(stmt, k) - 1
    ELSE ElementSize(stmt.directive)

\* Bytes the k-th operand of a string or integer directive writes.
OperandBytes(stmt, k) ==
    IF k \notin DOMAIN stmt.ops THEN 0
    ELSE IF stmt.directive = "NUL_STRING" THEN StringBytes(stmt, k)
    ELSE ElementSize(stmt.directive)

\* Bytes the first k operands write.
BytesUpTo(stmt, k) ==
    (IF k >= 1 THEN OperandBytes(stmt, 1) ELSE 0)
    + (IF k >= 2 THEN OperandBytes(stmt, 2) ELSE 0)
    + (IF k >= 3 THEN OperandBytes(stmt, 3) ELSE 0)

\* A string directive of more bytes than an int counts.
Overflows(stmt) ==
    stmt.directive = "NUL_STRING" /\ BytesUpTo(stmt, MAX_OPERANDS) > INT_MAX

WritesPerOperand(stmt) ==
    stmt.directive \in IntDirective \union {"NUL_STRING"}

\* Bytes the whole directive writes when `written` are in the buffer already.
BytesWanted(stmt, written) ==
    CASE WritesPerOperand(stmt) -> BytesUpTo(stmt, MAX_OPERANDS)
      [] stmt.directive = "ALIGNMENT" /\ OneImm(stmt) /\ Imm(stmt, 1) > 0 ->
             Padding(Imm(stmt, 1), written)
      [] /\ stmt.directive = "ZERO_SPACE"
         /\ Len(stmt.ops) > 0 /\ stmt.ops[1].kind = "IMM" /\ Imm(stmt, 1) > 0 ->
             Imm(stmt, 1)
      [] OTHER -> 0

\* Bytes that reach a buffer with `room` left: the operands before the first
\* one that does not fit, or nothing of a fill that does not fit.
BytesWritten(stmt, written, room) ==
    IF BytesWanted(stmt, written) <= room THEN BytesWanted(stmt, written)
    ELSE IF WritesPerOperand(stmt)
    THEN BytesUpTo(stmt, CHOOSE k \in 0 .. MAX_OPERANDS :
                             /\ BytesUpTo(stmt, k) <= room
                             /\ BytesUpTo(stmt, k + 1) > room)
    ELSE 0
=============================================================================
