------------------------------- MODULE Passes -------------------------------
(***************************************************************************)
(* The two passes over the instruction list (src/passes/pass1.c and        *)
(* pass2.c) and the gate between them in the callers (src/main.c,          *)
(* src/api/api.c): pass 2 runs only when pass 1 reported no error.         *)
(*                                                                         *)
(* Pass 1 fixes every size and every label; pass 2 walks the same list     *)
(* again, treats pass 1's sizes as hard capacities and reports an internal *)
(* error where the two disagree.  One action handles one kind of           *)
(* statement.  The encoder is a parameter with a contract; Encoder.tla     *)
(* models it.                                                              *)
(***************************************************************************)
EXTENDS SymEntry, Statements

CONSTANTS
    Stmts,      \* the statements programs are made of
    Programs,   \* the instruction lists the parser may hand over
    SizeOf(_),         \* encoder_instruction_size of a statement
    EncodingOf(_, _),  \* encoder_encode of a statement and the resolved target
    INT32_MAX          \* range of a rel32 displacement

INT32_MIN == -INT32_MAX - 1

MAX_INSTRUCTION_BYTES == 15

\* `if (sz <= 0) sz = MAX_INSTRUCTION_BYTES`, in both passes.
InstructionBytes(stmt) ==
    IF SizeOf(stmt) <= 0 THEN MAX_INSTRUCTION_BYTES
    ELSE SizeOf(stmt)

HasKind(stmt, kind) == \E k \in DOMAIN stmt.ops : stmt.ops[k].kind = kind

ASSUME LimitsAssumption ==
    /\ INT_MAX \in Nat /\ UINT32_MAX \in Nat
    /\ MaxLine \in Nat /\ MaxColumn \in Nat
    /\ INT32_MAX \in Nat

\* What the parser guarantees of its list.
ASSUME ParserAssumption ==
    /\ NoName \notin Names
    /\ Programs \subseteq Seq(Stmts)
    /\ \A s \in Stmts :
        /\ s \in Statement
        /\ Len(s.ops) <= MAX_OPERANDS
        /\ \A k \in DOMAIN s.ops :
            /\ s.ops[k].kind \in {"LABEL", "RIP"} => s.ops[k].sym \in Names
            /\ s.ops[k].kind = "STRING" => s.ops[k].imm \in Nat

Jcc == {"JE", "JNE", "JG", "JGE", "JL", "JLE", "JZ", "JNZ", "JS", "JNS"}

\* What the passes rely on: sizing and encoding agree for every target, and of
\* the statements that name a symbol the encoder accepts only these: a branch to
\* one label, a 64-bit register loaded with a label, and one [rip+label] operand
\* beside a register, whose 32-bit displacement ends the instruction.  (The
\* parser's arity table keeps operands off the opcodes that ignore them.)
ASSUME EncoderAssumption ==
    \A s \in Stmts :
        /\ SizeOf(s) \in Int
        /\ \A t \in INT32_MIN .. INT32_MAX :
            LET enc == EncodingOf(s, t) IN
            /\ enc.error \in BOOLEAN /\ enc.len \in Nat
            /\ ~enc.error =>
                /\ enc.len = InstructionBytes(s)
                /\ HasKind(s, "RIP") =>
                    /\ OpKinds(s) \in {<<"REG", "RIP">>, <<"RIP", "REG">>}
                    /\ enc.len >= 4
                /\ HasKind(s, "LABEL") =>
                    \/ s.opcode \in {"JMP", "CALL"} /\ OneLabel(s) /\ enc.len = 5
                    \/ s.opcode \in Jcc /\ OneLabel(s) /\ enc.len = 6
                    \/ /\ s.opcode = "MOV" /\ OpKinds(s) = <<"REG", "LABEL">>
                       /\ enc.len = 10

-----------------------------------------------------------------------------
VARIABLES
    prog,       \* the InstructionList
    phase,      \* "pass1", "failed" (pass 1 errors), "pass2", "done"
    i,          \* loop index of the running pass
    section,    \* current_section of the running pass
    \* Pass1Result
    offset,     \* [Section -> Nat]: text_offset ... bss_offset, then *_size
    alignment,  \* [data sections -> Nat]: largest boundary used
    symtab,     \* [Names -> Entry]
    files,      \* debug_files
    errors1,    \* diagnostics of pass 1
    \* Pass2Result
    size,       \* [Section -> Nat]: text_size ... bss_size
    emissions,  \* one EmissionSpan per statement passed
    code,       \* text_bytes, one chunk per instruction encoded
    relocs,     \* relocations
    location,   \* debug_file, debug_line, debug_column
    lines,      \* debug_lines
    errors2,    \* diagnostics of pass 2
    layout      \* history: section and offsets before each statement, pass 1

vars1 == <<offset, alignment, symtab, files, errors1, layout>>
vars2 == <<size, emissions, code, relocs, location, lines, errors2>>
vars  == <<prog, phase, i, section, vars1, vars2>>

DataSection == {"DATA", "RODATA", "BSS"}
Stmt == prog[i]

\* The diagnostics of both passes, by what they complain of.
Reason == {"external", "visibility", "debug file", "debug location", "directive",
           "duplicate", "undefined visibility", "debug file undeclared",
           "source", "internal"}
Diagnostic(why) == [at |-> i, why |-> why]

Init ==
    /\ prog \in Programs
    /\ phase = "pass1" /\ i = 1 /\ section = "TEXT"
    /\ offset = [s \in Section |-> 0]
    /\ alignment = [s \in DataSection |-> 0]
    /\ symtab = [n \in Names |-> ZeroEntry]
    /\ files = <<>> /\ errors1 = {}
    /\ layout = <<[section |-> "TEXT", offset |-> [s \in Section |-> 0]]>>
    /\ size = [s \in Section |-> 0]
    /\ emissions = <<>> /\ code = <<>> /\ relocs = <<>>
    /\ location = [file |-> 0, line |-> 0, column |-> 0]
    /\ lines = <<>> /\ errors2 = {}

-----------------------------------------------------------------------------
(* Pass 1: the body of pass1_run's loop, one action per kind of statement. *)

InPass1(directives) ==
    /\ phase = "pass1" /\ i <= Len(prog)
    /\ Stmt.directive \in directives

Advance1 ==
    /\ i' = i + 1
    /\ layout' = Append(layout, [section |-> section', offset |-> offset'])
    /\ UNCHANGED <<prog, phase, vars2>>

Report1(bad, why) ==
    errors1' = IF bad THEN errors1 \union {Diagnostic(why)} ELSE errors1

\* A section directive; a label on its line is not registered.
Pass1Section ==
    /\ InPass1(SectionDirective)
    /\ section' = Stmt.directive
    /\ UNCHANGED <<offset, alignment, symtab, files, errors1>>
    /\ Advance1

Pass1External ==
    /\ InPass1({"EXTERNAL"})
    /\ LET sym == Stmt.ops[1].sym
           ok  == OneLabel(Stmt) /\ CanDeclareExternal(symtab[sym])
       IN  /\ symtab' = IF ok THEN [symtab EXCEPT ![sym] = DeclareExternal(@)]
                        ELSE symtab
           /\ Report1(~ok, "external")
    /\ UNCHANGED <<section, offset, alignment, files>>
    /\ Advance1

Pass1Visibility ==
    /\ InPass1({"GLOBAL", "LOCAL"})
    /\ LET sym == Stmt.ops[1].sym
           ok  == OneLabel(Stmt) /\ CanDeclareBinding(symtab[sym], Stmt.directive)
       IN  /\ symtab' = IF ok
                        THEN [symtab EXCEPT ![sym] = DeclareBinding(@, Stmt.directive)]
                        ELSE symtab
           /\ Report1(~ok, "visibility")
    /\ UNCHANGED <<section, offset, alignment, files>>
    /\ Advance1

debug_file_find(id) == \E k \in DOMAIN files : files[k] = id

Pass1DebugFile ==
    /\ InPass1({"DEBUG_FILE", "DEBUG_FILE_BYTES"})
    /\ LET ok == ValidDebugFile(Stmt) /\ ~debug_file_find(Imm(Stmt, 1))
       IN  /\ files' = IF ok THEN Append(files, Imm(Stmt, 1)) ELSE files
           /\ Report1(~ok, "debug file")
    /\ UNCHANGED <<section, offset, alignment, symtab>>
    /\ Advance1

Pass1DebugLocation ==
    /\ InPass1({"DEBUG_LOCATION"})
    /\ Report1(~validate_debug_location_directive(Stmt), "debug location")
    /\ UNCHANGED <<section, offset, alignment, symtab, files>>
    /\ Advance1

AllowedIn(stmt, s) ==
    /\ s # "TEXT"
    /\ validate_data_directive(stmt)
    /\ s = "BSS" => stmt.directive \in {"ZERO_SPACE", "ALIGNMENT"}

\* A directive the section or the operands rule out, or an unknown one.
Pass1Rejected ==
    /\ InPass1(DataDirective \union {"INVALID"})
    /\ ~(is_data_directive(Stmt.directive) /\ AllowedIn(Stmt, section))
    /\ Report1(TRUE, "directive")
    /\ UNCHANGED <<section, offset, alignment, symtab, files>>
    /\ Advance1

\* Register the statement's label at the current offset, if it has one.
RegisterLabel(name) ==
    IF name = NoName THEN UNCHANGED <<symtab, errors1>>
    ELSE /\ symtab' = IF CanInsert(symtab[name])
                      THEN [symtab EXCEPT ![name] =
                                Insert(@, section, offset[section])]
                      ELSE symtab
         /\ Report1(~CanInsert(symtab[name]), "duplicate")

\* Wrong form: the last boundary is noted, not the largest.
note_last_alignment ==
    alignment' =
        IF Stmt.directive = "ALIGNMENT"
        THEN [alignment EXCEPT ![section] = Imm(Stmt, 1)] ELSE alignment

pass1_note_alignment ==
    alignment' =
        IF Stmt.directive = "ALIGNMENT" /\ Imm(Stmt, 1) > alignment[section]
        THEN [alignment EXCEPT ![section] = Imm(Stmt, 1)] ELSE alignment

\* What a data directive adds to its section's offset in pass 1.
Counted(stmt, at) ==
    LET dsz == data_directive_size_at(stmt, at) IN IF dsz > 0 THEN dsz ELSE 0

Pass1Data ==
    /\ InPass1(DataDirective)
    /\ AllowedIn(Stmt, section)
    /\ pass1_note_alignment
    /\ RegisterLabel(Stmt.label)
    /\ offset' = [offset EXCEPT ![section] = @ + Counted(Stmt, @)]
    /\ UNCHANGED <<section, files>>
    /\ Advance1

\* An instruction or a bare label.  Outside .text an instruction takes no room.
Pass1Instruction ==
    /\ InPass1({"NONE"})
    /\ RegisterLabel(Stmt.label)
    /\ offset' = IF Stmt.opcode = "INVALID" \/ section # "TEXT" THEN offset
                 ELSE [offset EXCEPT !["TEXT"] = @ + InstructionBytes(Stmt)]
    /\ UNCHANGED <<section, alignment, files>>
    /\ Advance1

\* Locations whose file id no '.file' statement of the program declared.
UndeclaredFileUse ==
    {k \in DOMAIN prog :
        /\ prog[k].directive = "DEBUG_LOCATION" /\ IsLocation(prog[k])
        /\ Imm(prog[k], 1) \in 1 .. UINT32_MAX
        /\ ~debug_file_find(Imm(prog[k], 1))}

EndOfPass1Errors ==
    {[at |-> Len(prog) + 1, why |-> "undefined visibility"] :
        n \in {m \in Names : IsUndefinedVisibility(symtab[m])}}
    \union {[at |-> k, why |-> "debug file undeclared"] : k \in UndeclaredFileUse}

\* Wrong form: pass 2 runs whatever pass 1 reported.
Pass1FinishUngated ==
    /\ phase = "pass1" /\ i = Len(prog) + 1
    /\ errors1' = errors1 \union EndOfPass1Errors
    /\ phase' = "pass2" /\ i' = 1 /\ section' = "TEXT"
    /\ UNCHANGED <<prog, offset, alignment, symtab, files, layout, vars2>>

\* The checks after the loop, then the callers' test of pass1.errors.
Pass1Finish ==
    /\ phase = "pass1" /\ i = Len(prog) + 1
    /\ errors1' = errors1 \union EndOfPass1Errors
    /\ IF errors1' # {}
       THEN phase' = "failed" /\ UNCHANGED <<i, section>>
       ELSE phase' = "pass2" /\ i' = 1 /\ section' = "TEXT"
    /\ UNCHANGED <<prog, offset, alignment, symtab, files, layout, vars2>>

Pass1 ==
    \/ Pass1Section \/ Pass1External \/ Pass1Visibility \/ Pass1DebugFile
    \/ Pass1DebugLocation \/ Pass1Rejected \/ Pass1Data \/ Pass1Instruction
    \/ Pass1Finish

-----------------------------------------------------------------------------
(* Pass 2: the body of pass2_run's loop. *)

InPass2(directives) ==
    /\ phase = "pass2" /\ i <= Len(prog)
    /\ Stmt.directive \in directives

\* Wrong form: emission->size is left 0.
EmitEmptySpan(s, bytes) ==
    emissions' = Append(emissions, [section |-> s, offset |-> size[s], size |-> 0])

\* The span is recorded with the section and size the statement leaves from.
Emit(s, bytes) ==
    emissions' = Append(emissions, [section |-> s, offset |-> size[s], size |-> bytes])

\* Go on with the next statement, or `return result` after an internal error.
Proceed2(ok) ==
    /\ IF ok THEN i' = i + 1 /\ UNCHANGED phase
       ELSE phase' = "done" /\ UNCHANGED i
    /\ UNCHANGED <<prog, vars1>>

Report2(unresolved, internal) ==
    errors2' = errors2
        \union (IF unresolved THEN {Diagnostic("source")} ELSE {})
        \union (IF internal THEN {Diagnostic("internal")} ELSE {})

Pass2Section ==
    /\ InPass2(SectionDirective)
    /\ section' = Stmt.directive
    /\ Emit(Stmt.directive, 0)
    /\ UNCHANGED <<size, code, relocs, location, lines, errors2>>
    /\ Proceed2(TRUE)

\* Visibility, external and debug-file statements, and data in .text, which
\* pass 1 does not let through; nothing to emit.
Pass2Skip ==
    /\ InPass2({"GLOBAL", "LOCAL", "EXTERNAL", "DEBUG_FILE", "DEBUG_FILE_BYTES"}
               \union IF section = "TEXT" THEN DataDirective \union {"INVALID"} ELSE {})
    /\ Emit(section, 0)
    /\ UNCHANGED <<section, size, code, relocs, location, lines, errors2>>
    /\ Proceed2(TRUE)

Pass2DebugLocation ==
    /\ InPass2({"DEBUG_LOCATION"})
    /\ Emit(section, 0)
    /\ location' = IF IsLocation(Stmt)
                   THEN [file |-> Imm(Stmt, 1), line |-> Imm(Stmt, 2),
                         column |-> Imm(Stmt, 3)]
                   ELSE location
    /\ UNCHANGED <<section, size, code, relocs, lines, errors2>>
    /\ Proceed2(TRUE)

\* Wrong form: any name will do.
ResolvableAlways(n) == TRUE

Resolvable(n) == symtab[n].defined \/ IsExternal(symtab[n])

RelocAt(s, kind, at, sym, addend) ==
    [section |-> s, kind |-> kind, offset |-> at, symbol |-> sym,
     addend |-> addend, stmt |-> i]

\* The relocation of the k-th element of a 64-bit directive that names a symbol.
ElementReloc(k) ==
    IF /\ Stmt.directive = "INT64" /\ k \in DOMAIN Stmt.ops
       /\ Stmt.ops[k].kind = "LABEL" /\ Resolvable(Stmt.ops[k].sym)
    THEN <<RelocAt(section, "ABS64", size[section] + (k - 1) * 8,
                   Stmt.ops[k].sym, 0)>>
    ELSE <<>>

HasUnresolvedElement ==
    Stmt.directive = "INT64" /\ \E k \in DOMAIN Stmt.ops :
        Stmt.ops[k].kind = "LABEL" /\ ~Resolvable(Stmt.ops[k].sym)

InPass2Data ==
    InPass2(DataDirective \union {"INVALID"}) /\ section # "TEXT"

ExpectedSize == data_directive_size_at(Stmt, size[section])

\* Pass 1 added nothing for a size below zero; pass 2 stops at it.
Pass2NegativeSize ==
    /\ InPass2Data
    /\ ExpectedSize < 0
    /\ Emit(section, 0)
    /\ Report2(FALSE, TRUE)
    /\ Proceed2(FALSE)
    /\ UNCHANGED <<section, size, code, relocs, location, lines>>

\* Data in .data and .rodata: into the room that is left, and as many bytes as
\* expected.
Pass2Data ==
    /\ InPass2Data
    /\ section # "BSS" /\ ExpectedSize >= 0
    /\ LET before == size[section]
           room   == offset[section] - before
           wrote  == BytesWritten(Stmt, before, room)
           fits   == BytesWanted(Stmt, before) <= room
           ok     == fits /\ wrote = ExpectedSize
       IN  /\ relocs' = relocs \o ElementReloc(1) \o ElementReloc(2)
                                \o ElementReloc(3)
           /\ size' = [size EXCEPT ![section] = @ + wrote]
           /\ Emit(section, IF fits THEN wrote ELSE 0)
           /\ Report2(HasUnresolvedElement, ~ok)
           /\ Proceed2(ok)
    /\ UNCHANGED <<section, code, location, lines>>

\* .bss grows without bytes, and without a capacity check of its own.
Pass2Bss ==
    /\ InPass2Data
    /\ section = "BSS" /\ ExpectedSize >= 0
    /\ size' = [size EXCEPT ![section] = @ + ExpectedSize]
    /\ Emit(section, 0)
    /\ UNCHANGED <<section, code, relocs, location, lines, errors2>>
    /\ Proceed2(TRUE)

-----------------------------------------------------------------------------
(* Pass 2, instructions *)

opcode_uses_relative_label(opcode) == opcode \in {"JMP", "CALL"} \union Jcc

is_mov_reg_label(stmt, k) ==
    stmt.opcode = "MOV" /\ k = 2 /\ OpKinds(stmt) = <<"REG", "LABEL">>

mov_reg_label_relocation_offset == 2

\* Wrong form: every branch is taken for a two-byte opcode.
relocation_offset_of_jcc(opcode) == 2

relative_label_relocation_offset(opcode) ==
    IF opcode \in {"JMP", "CALL"} THEN 1 ELSE 2

text_size == size["TEXT"]

\* The k-th operand is a jump or call target that this file defines in .text.
IsNearTarget(k) ==
    /\ Stmt.ops[k].kind = "LABEL"
    /\ opcode_uses_relative_label(Stmt.opcode)
    /\ symtab[Stmt.ops[k].sym].defined
    /\ symtab[Stmt.ops[k].sym].section = "TEXT"

\* Wrong form: counted from the start of the instruction.
DisplacementFromStart(k) == symtab[Stmt.ops[k].sym].offset - text_size

Displacement(k) ==
    symtab[Stmt.ops[k].sym].offset - (text_size + InstructionBytes(Stmt))

\* The last near target decides; 0 without one.
resolved_target ==
    LET near == {k \in DOMAIN Stmt.ops : IsNearTarget(k)}
    IN  IF near = {} THEN 0
        ELSE Displacement(CHOOSE k \in near : \A m \in near : m <= k)

\* The resolution loop sets resolution_error for the k-th operand.
OperandUnresolved(k) ==
    LET op == Stmt.ops[k]
        e  == symtab[op.sym]
    IN  \/ op.kind = "RIP" /\ ~Resolvable(op.sym)
        \/ /\ op.kind = "LABEL" /\ ~e.defined
           /\ IsExternal(e) => /\ ~opcode_uses_relative_label(Stmt.opcode)
                               /\ ~is_mov_reg_label(Stmt, k)
        \/ /\ op.kind = "LABEL" /\ e.defined
           /\ opcode_uses_relative_label(Stmt.opcode)
           /\ \/ e.section # "TEXT"
              \/ Displacement(k) \notin INT32_MIN .. INT32_MAX

resolution_error == \E k \in DOMAIN Stmt.ops : OperandUnresolved(k)

\* The relocation the resolution loop pushes for the k-th operand.
LabelReloc(k) ==
    IF k \notin DOMAIN Stmt.ops \/ Stmt.ops[k].kind # "LABEL" THEN <<>>
    ELSE LET sym == Stmt.ops[k].sym IN
    IF opcode_uses_relative_label(Stmt.opcode)
    THEN IF IsExternal(symtab[sym])
         THEN <<RelocAt("TEXT", "PC32",
                        text_size + relative_label_relocation_offset(Stmt.opcode),
                        sym, -4)>>
         ELSE <<>>
    ELSE IF is_mov_reg_label(Stmt, k) /\ Resolvable(sym)
    THEN <<RelocAt("TEXT", "ABS64",
                   text_size + mov_reg_label_relocation_offset, sym, 0)>>
    ELSE <<>>

LabelRelocs == LabelReloc(1) \o LabelReloc(2) \o LabelReloc(3)

\* The relocation of a [rip+label] operand, once the length is known.
RipReloc(k, len) ==
    IF k \in DOMAIN Stmt.ops /\ Stmt.ops[k].kind = "RIP"
    THEN <<RelocAt("TEXT", "PC32", text_size + len - 4, Stmt.ops[k].sym, -4)>>
    ELSE <<>>

\* Wrong form: a cleared location makes rows too.
push_debug_line_always ==
    lines' = Append(lines, [file |-> location.file, line |-> location.line,
                            column |-> location.column, offset |-> text_size])

push_debug_line ==
    lines' = IF location.file # 0 /\ location.line # 0
             THEN Append(lines, [file |-> location.file, line |-> location.line,
                                column |-> location.column, offset |-> text_size])
             ELSE lines

\* A label line, or an instruction outside .text: nothing is encoded.
Pass2NoCode ==
    /\ InPass2({"NONE"})
    /\ Stmt.opcode = "INVALID" \/ section # "TEXT"
    /\ Emit(section, 0)
    /\ UNCHANGED <<section, size, code, relocs, location, lines, errors2>>
    /\ Proceed2(TRUE)

InPass2Text ==
    /\ InPass2({"NONE"})
    /\ Stmt.opcode # "INVALID" /\ section = "TEXT"

\* Write `bytes` bytes of .text, or nothing when pass 1 left no room for them.
WriteText(bytes, rel, fits) ==
    /\ size' = IF fits THEN [size EXCEPT !["TEXT"] = @ + bytes] ELSE size
    /\ code' = IF fits THEN Append(code, [stmt |-> i, offset |-> text_size,
                                          len |-> bytes, rel |-> rel])
               ELSE code
    /\ Emit("TEXT", IF fits THEN bytes ELSE 0)

FitsText(bytes) == bytes <= offset["TEXT"] - text_size

\* An unresolved operand or a form the encoder refuses: 0x90 fills the room.
Pass2Filled ==
    /\ InPass2Text
    /\ resolution_error \/ EncodingOf(Stmt, resolved_target).error
    /\ LET sz == InstructionBytes(Stmt) IN
       /\ WriteText(sz, 0, FitsText(sz))
       /\ Report2(TRUE, ~FitsText(sz))
       /\ Proceed2(FitsText(sz))
    /\ relocs' = relocs \o LabelRelocs
    /\ push_debug_line
    /\ UNCHANGED <<section, location>>

Pass2Encoded ==
    /\ InPass2Text
    /\ ~resolution_error
    /\ LET enc     == EncodingOf(Stmt, resolved_target)
           agrees  == /\ enc.len = InstructionBytes(Stmt)
                      /\ HasKind(Stmt, "RIP") => enc.len >= 4
           ok      == agrees /\ FitsText(enc.len)
       IN  /\ ~enc.error
           /\ relocs' = relocs \o LabelRelocs \o
                  (IF agrees THEN RipReloc(1, enc.len) \o RipReloc(2, enc.len)
                                  \o RipReloc(3, enc.len)
                   ELSE <<>>)
           /\ WriteText(enc.len, resolved_target, ok)
           /\ Report2(FALSE, ~ok)
           /\ Proceed2(ok)
    /\ push_debug_line
    /\ UNCHANGED <<section, location>>

\* The comparison of the four totals after the loop.
Pass2Finish ==
    /\ phase = "pass2" /\ i = Len(prog) + 1
    /\ phase' = "done"
    /\ Report2(FALSE, size # offset)
    /\ UNCHANGED <<prog, i, section, vars1, size, emissions, code, relocs,
                   location, lines>>

Pass2 ==
    \/ Pass2Section \/ Pass2Skip \/ Pass2DebugLocation
    \/ Pass2NegativeSize \/ Pass2Data \/ Pass2Bss
    \/ Pass2NoCode \/ Pass2Filled \/ Pass2Encoded \/ Pass2Finish

\* The callers read the result; both passes are over.
Stopped == phase \in {"failed", "done"} /\ UNCHANGED vars

Next == Pass1 \/ Pass2 \/ Stopped

Spec == Init /\ [][Next]_vars

-----------------------------------------------------------------------------
(* Properties *)

Accepted == phase = "done" /\ errors2 = {}

\* Statements whose label pass 1 registers.
Registers(stmt) ==
    /\ stmt.label # NoName
    /\ stmt.directive = "NONE" \/ is_data_directive(stmt.directive)

ControlOK ==
    /\ prog \in Seq(Stmts)
    /\ phase \in {"pass1", "failed", "pass2", "done"}
    /\ i \in 1 .. Len(prog) + 1
    /\ section \in Section

Pass1ResultOK ==
    /\ offset \in [Section -> Nat]
    /\ alignment \in [DataSection -> Nat]
    /\ symtab \in [Names -> Entry]
    /\ files \in Seq(1 .. UINT32_MAX)
    /\ errors1 \subseteq [at : Nat, why : Reason]

Span == [section : Section, offset : Nat, size : Nat]
Chunk == [stmt : Nat, offset : Nat, len : Nat, rel : Int]
Relocation == [section : Section, kind : {"ABS64", "PC32"}, offset : Nat,
               symbol : Names, addend : {0, -4}, stmt : Nat]
DebugLine == [offset : Nat, file : Int, line : Int, column : Int]

Pass2ResultOK ==
    /\ size \in [Section -> Nat]
    /\ emissions \in Seq(Span)
    /\ code \in Seq(Chunk)
    /\ relocs \in Seq(Relocation)
    /\ location \in [file : Int, line : Int, column : Int]
    /\ lines \in Seq(DebugLine)
    /\ errors2 \subseteq [at : Nat, why : Reason]

\* Type invariant: the loop state and the two results hold what their C types
\* and capacities allow.
TypeOK == ControlOK /\ Pass1ResultOK /\ Pass2ResultOK

\* pass2_run has left its loop, or its last check, with an internal error.
Interrupted == \E d \in errors2 : d.why = "internal"

(***************************************************************************)
(* The two passes disagree over nothing but a string directive of more     *)
(* than INT_MAX bytes, and such a directive is never let through.  Apart   *)
(* from it pass 2 finds room for every statement in the buffers pass 1     *)
(* sized, every statement takes as many bytes as pass 1 counted, and the   *)
(* four totals match: none of pass2_run's "internal error" exits is taken. *)
(* The size of such a directive wraps (pass1.c:25), to a number below zero *)
(* or one that is too small; whichever it is, one of the exits stops it.   *)
(***************************************************************************)
OnlyOverflowInterrupts ==
    /\ \A d \in errors2 :
           d.why = "internal" => d.at \in DOMAIN prog /\ Overflows(prog[d.at])
    /\ Accepted => \A k \in DOMAIN prog : ~Overflows(prog[k])

(***************************************************************************)
(* A label means the place where its statement ends up: when pass 2 has    *)
(* passed a statement whose label pass 1 registered, the symbol's section  *)
(* and offset are those of the statement's own emission span.  Jumps,      *)
(* relocations and the object's symbol table all rest on this.             *)
(***************************************************************************)
LabelsNameTheirSpans ==
    \A k \in DOMAIN emissions :
        Registers(prog[k]) =>
            LET e == symtab[prog[k].label] IN
            /\ e.defined
            /\ e.section = emissions[k].section
            /\ e.offset = emissions[k].offset

(***************************************************************************)
(* A jump or call encoded against a label of this file lands on the first  *)
(* byte of the statement that label is on: the end of the instruction plus *)
(* the encoded displacement is the offset of that statement's span.        *)
(***************************************************************************)
BranchesLand ==
    Accepted =>
        \A c \in DOMAIN code :
            LET stmt == prog[code[c].stmt] IN
            (opcode_uses_relative_label(stmt.opcode) /\ HasKind(stmt, "LABEL")) =>
                \A k \in DOMAIN prog :
                    (Registers(prog[k]) /\ prog[k].label = stmt.ops[1].sym) =>
                        /\ emissions[k].section = "TEXT"
                        /\ code[c].offset + code[c].len + code[c].rel
                               = emissions[k].offset

FieldBytes(r) == IF r.kind = "ABS64" THEN 8 ELSE 4

(***************************************************************************)
(* The linker patches only bytes of the statement that asked for it: each  *)
(* relocated field lies inside that statement's own span, in the section   *)
(* the span is in, and no two fields overlap.                              *)
(***************************************************************************)
RelocationsStayInside ==
    Accepted =>
        \A a \in DOMAIN relocs :
            LET r == relocs[a]
                span == emissions[r.stmt]
            IN  /\ r.section = span.section
                /\ span.offset <= r.offset
                /\ r.offset + FieldBytes(r) <= span.offset + span.size
                /\ \A b \in DOMAIN relocs :
                    (b # a /\ relocs[b].section = r.section) =>
                        \/ r.offset + FieldBytes(r) <= relocs[b].offset
                        \/ relocs[b].offset + FieldBytes(relocs[b]) <= r.offset

(***************************************************************************)
(* Every accepted program has all its references settled: each relocation  *)
(* names a symbol the writers will find in the collected symbol list, and  *)
(* each symbolic operand of an emitted statement is a resolved jump or has *)
(* a relocation.                                                           *)
(***************************************************************************)
ReferencesSettled ==
    Accepted =>
        /\ \A a \in DOMAIN relocs : IsOutputSymbol(symtab[relocs[a].symbol])
        /\ \A k \in DOMAIN prog : \A j \in DOMAIN prog[k].ops :
            (emissions[k].size > 0 /\ prog[k].ops[j].kind \in {"LABEL", "RIP"}) =>
                \/ /\ opcode_uses_relative_label(prog[k].opcode)
                   /\ symtab[prog[k].ops[j].sym].defined
                \/ \E a \in DOMAIN relocs :
                       relocs[a].stmt = k /\ relocs[a].symbol = prog[k].ops[j].sym

(***************************************************************************)
(* The spans tile the sections (the listing slices the section bytes by    *)
(* them): within a section each span starts where the spans before it end, *)
(* and together they are the whole section.                                *)
(***************************************************************************)
SpansTile ==
    Accepted =>
        \A s \in Section \ {"BSS"} :
            LET mine == {k \in DOMAIN emissions : emissions[k].section = s} IN
            /\ \A k, m \in mine : k < m =>
                   emissions[k].offset + emissions[k].size <= emissions[m].offset
            /\ \A b \in 0 .. size[s] - 1 : \E k \in mine :
                   b \in emissions[k].offset .. emissions[k].offset + emissions[k].size - 1
            /\ \A k \in mine : emissions[k].offset + emissions[k].size <= size[s]

(***************************************************************************)
(* An alignment statement does what it says after linking: the statement   *)
(* that follows in its section starts on the boundary, and the section     *)
(* itself is placed on a multiple of that boundary.                        *)
(***************************************************************************)
AlignmentHolds ==
    phase = "done" =>
        \A k, m \in DOMAIN emissions :
            (/\ prog[k].directive = "ALIGNMENT" /\ k < m
             /\ emissions[m].section = emissions[k].section
             /\ \A x \in k + 1 .. m - 1 :
                   emissions[x].section # emissions[k].section) =>
                /\ emissions[m].offset % Imm(prog[k], 1) = 0
                /\ alignment[emissions[k].section] % Imm(prog[k], 1) = 0
                /\ alignment[emissions[k].section] # 0

(***************************************************************************)
(* The debug rows are what the line programs of both writers need: offsets *)
(* strictly increase and stay inside .text, each row starts an instruction *)
(* and names a file the program declared.                                  *)
(***************************************************************************)
DebugRowsOrdered ==
    phase \in {"pass2", "done"} =>
        \A a \in DOMAIN lines :
            /\ lines[a].offset < offset["TEXT"]
            /\ debug_file_find(lines[a].file)
            /\ lines[a].line \in 1 .. MaxLine /\ lines[a].column \in 1 .. MaxColumn
            /\ \A b \in DOMAIN lines : a < b => lines[a].offset < lines[b].offset
            /\ \E c \in DOMAIN code : code[c].offset = lines[a].offset

(***************************************************************************)
(* Docs/ARCHITECTURE.md: pass 1 records "every label's section, offset and *)
(* binding", and pass 2 "encodes every instruction again".  The code drops *)
(* a label on the line of a section, visibility, external or debug         *)
(* directive and an instruction outside .text, without a diagnostic.       *)
(***************************************************************************)
NothingIsPassedOver ==
    Accepted =>
        \A k \in DOMAIN prog :
            /\ prog[k].label # NoName => symtab[prog[k].label].defined
            /\ prog[k].directive = "NONE" /\ prog[k].opcode # "INVALID" =>
                   \E c \in DOMAIN code : code[c].stmt = k

-----------------------------------------------------------------------------
(* The argument for OnlyOverflowInterrupts: an inductive invariant.        *)

Layout == [section : Section, offset : [Section -> Nat]]

\* Where a statement accepted by pass 1 takes the section and the offsets.
LayoutAfter(stmt, at) ==
    CASE stmt.directive \in SectionDirective ->
             [section |-> stmt.directive, offset |-> at.offset]
      [] is_data_directive(stmt.directive) ->
             [section |-> at.section,
              offset |-> [at.offset EXCEPT ![at.section] =
                             @ + Counted(stmt, @)]]
      [] /\ stmt.directive = "NONE" /\ stmt.opcode # "INVALID"
         /\ at.section = "TEXT" ->
             [section |-> at.section,
              offset |-> [at.offset EXCEPT !["TEXT"] =
                             @ + InstructionBytes(stmt)]]
      [] OTHER -> at

\* What pass 1 demands of a statement it does not complain about.
AcceptedAt(stmt, s) ==
    /\ stmt.directive # "INVALID"
    /\ is_data_directive(stmt.directive) => AllowedIn(stmt, s)

\* The history is a run of LayoutAfter, never shrinks a section, and ends in
\* pass 1's current section and offsets.
LayoutOK ==
    /\ layout \in Seq(Layout)
    /\ Len(layout) = IF phase = "pass1" THEN i ELSE Len(prog) + 1
    /\ layout[1] = [section |-> "TEXT", offset |-> [s \in Section |-> 0]]
    /\ layout[Len(layout)].offset = offset
    /\ phase = "pass1" => layout[i].section = section
    /\ \A k \in 1 .. Len(layout) : \A s \in Section :
           layout[k].offset[s] <= offset[s]
    /\ errors1 = {} => \A k \in 1 .. Len(layout) - 1 :
           /\ AcceptedAt(prog[k], layout[k].section)
           /\ layout[k + 1] = LayoutAfter(prog[k], layout[k])

\* Pass 2 retraces the history, up to the first string that overflows.
Retraces ==
    /\ phase \in {"pass2", "done"} => errors1 = {}
    /\ phase = "pass2" =>
           section = layout[i].section /\ size = layout[i].offset /\ ~Interrupted
    /\ phase = "done" => Interrupted \/ i = Len(prog) + 1
    /\ phase \in {"pass2", "done"} => \A k \in 1 .. i - 1 : ~Overflows(prog[k])
    /\ phase \in {"pass1", "failed"} => errors2 = {} /\ size = [s \in Section |-> 0]

(***************************************************************************)
(* pass2_run walks the statements from the very sections and offsets that  *)
(* pass1_run computed for them, and pass 1 let only valid ones through:    *)
(* the invariant from which OnlyOverflowInterrupts is proved.              *)
(***************************************************************************)
PassesAgree == TypeOK /\ LayoutOK /\ Retraces /\ OnlyOverflowInterrupts
=============================================================================
