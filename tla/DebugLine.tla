------------------------------ MODULE DebugLine -----------------------------
(***************************************************************************)
(* The line tables of src/output/debug_line.c, byte for byte: the DWARF    *)
(* line-number program and the CodeView C13 subsections that are made of   *)
(* the debug rows of pass 2.  DWARF is a program for a register machine,   *)
(* written as differences between rows; CodeView is a table per file whose *)
(* lengths are patched in afterwards and whose pieces are found through    *)
(* two levels of offsets.  The properties read the bytes back.             *)
(***************************************************************************)
EXTENDS Integers, Sequences, SequencesExt

CONSTANTS
    Files,       \* the file list: a sequence of [id, path], paths are bytes
    Rows,        \* the row lists: sequences of [offset, file_id, line, column]
    TextSizes    \* the sizes of .text to choose from

VARIABLES
    format,      \* "DWARF" or "CODEVIEW"
    lines,       \* the DebugLineList
    text_size,
    pc,          \* "check", "write", "refused" or "done"
    next,        \* the next row (DWARF) or file (CodeView)
    current,     \* DWARF: the registers as the writer believes them to be
    out,         \* the DebugBuffer
    reloc        \* where the address, or the section offset, is patched

vars == <<format, lines, text_size, pc, next, current, out, reloc>>

-----------------------------------------------------------------------------
(* The buffer *)

\* debug_buffer_u16, u32 and u64: w bytes, least significant first.
LittleEndian(n, w) == [k \in 1 .. w |-> (n \div 256^(k - 1)) % 256]

debug_buffer_patch_u32(buffer, offset, n) ==
    [k \in DOMAIN buffer |->
        IF k \in offset + 1 .. offset + 4
        THEN LittleEndian(n, 4)[k - offset] ELSE buffer[k]]

Zeros(n) == [k \in 1 .. n |-> 0]

debug_buffer_align4(buffer) == buffer \o Zeros((4 - (Len(buffer) % 4)) % 4)

debug_buffer_uleb(value) ==
    LET bytes[v \in Nat] == IF v < 128 THEN <<v>>
                            ELSE <<(v % 128) + 128>> \o bytes[v \div 128]
    IN  bytes[value]

\* Wrong form: the sign bit of the last byte is not looked at.
sleb_without_sign(value) ==
    LET bytes[v \in Int] == IF v \div 128 \in {0, -1} THEN <<v % 128>>
                            ELSE <<(v % 128) + 128>> \o bytes[v \div 128]
    IN  bytes[value]

debug_buffer_sleb(value) ==
    LET bytes[v \in Int] ==
            LET byte == v % 128
                rest == v \div 128
            IN  IF (rest = 0 /\ byte < 64) \/ (rest = -1 /\ byte >= 64)
                THEN <<byte>>
                ELSE <<byte + 128>> \o bytes[rest]
    IN  bytes[value]

-----------------------------------------------------------------------------
(* What may be written *)

\* The index of a file, 0 when no file has the id.
debug_file_find(id) == SelectInSeq(Files, LAMBDA f : f.id = id)

debug_contract_is_valid ==
    /\ Files # <<>> /\ lines # <<>>
    /\ \A k \in DOMAIN lines :
        /\ lines[k].offset <= text_size
        /\ k > 1 => lines[k].offset >= lines[k - 1].offset
        /\ lines[k].line # 0
        /\ debug_file_find(lines[k].file_id) # 0

-----------------------------------------------------------------------------
(* DWARF *)

FileEntry(f) == f.path \o Zeros(4)   \* terminator, directory, time, size

FileTable == FlattenSeq([k \in DOMAIN Files |-> FileEntry(Files[k])])

HeaderAfterLength ==
    <<1, 1, 1, 251, 14, 13>> \o <<0, 1, 1, 1, 1, 0, 0, 0, 1, 0, 0, 1>>
    \o <<0>> \o FileTable \o <<0>>

SetAddress == <<0>> \o debug_buffer_uleb(9) \o <<2>>

\* unit_length is 0 until the section is finished.
DwarfPrologue ==
    LittleEndian(0, 4) \o LittleEndian(4, 2)
    \o LittleEndian(Len(HeaderAfterLength), 4) \o HeaderAfterLength
    \o SetAddress

DwarfInitialRegisters == [address |-> 0, line |-> 1, file |-> 1, column |-> 0]

RegistersOf(line) ==
    [address |-> line.offset, line |-> line.line, column |-> line.column,
     file |-> debug_file_find(line.file_id)]

\* One row: the registers that differ, then DW_LNS_copy.
DwarfRow(line) ==
    LET new == RegistersOf(line)
        When(register, bytes) ==
            IF new[register] # current[register] THEN bytes ELSE <<>>
    IN  When("file", <<4>> \o debug_buffer_uleb(new.file))
        \o When("column", <<5>> \o debug_buffer_uleb(new.column))
        \o When("line", <<3>> \o debug_buffer_sleb(new.line - current.line))
        \o When("address",
                <<2>> \o debug_buffer_uleb(new.address - current.address))
        \o <<1>>

EndSequence == <<0>> \o debug_buffer_uleb(1) \o <<1>>

DwarfEnd ==
    (IF text_size > current.address
     THEN <<2>> \o debug_buffer_uleb(text_size - current.address) ELSE <<>>)
    \o EndSequence

-----------------------------------------------------------------------------
(* CodeView *)

StringOffset(k) ==
    1 + FoldLeft(LAMBDA n, f : n + Len(f.path) + 1, 0, SubSeq(Files, 1, k - 1))

StringTable ==
    <<0>> \o FlattenSeq([k \in DOMAIN Files |-> Files[k].path \o <<0>>])

\* Four bytes of offset, no checksum of no kind, two bytes of padding.
ChecksumOffset(k) == 8 * (k - 1)

Checksums ==
    FlattenSeq([k \in DOMAIN Files |->
                   LittleEndian(StringOffset(k), 4) \o Zeros(4)])

\* codeview_write_subsection_header, the payload, codeview_finish_subsection.
Subsection(buffer, kind, payload) ==
    debug_buffer_align4(buffer \o LittleEndian(kind, 4)
                        \o LittleEndian(Len(payload), 4) \o payload)

CodeViewPrologue ==
    LET strings   == Subsection(LittleEndian(4, 4), 243, StringTable)
        checksums == Subsection(strings, 244, Checksums)
    IN  checksums \o LittleEndian(242, 4) \o Zeros(4)

\* Section offset and number for the linker, no columns, the text covered.
LinesHeader == Zeros(4) \o Zeros(2) \o Zeros(2) \o LittleEndian(text_size, 4)

LinesOf(k) == SelectSeq(lines, LAMBDA l : l.file_id = Files[k].id)

\* The line is cut to 24 bits; the top byte marks a statement.
LineRecord(line) ==
    LittleEndian(line.offset, 4) \o LittleEndian(line.line, 3) \o <<128>>

Block(k) ==
    LET own == LinesOf(k) IN
    IF own = <<>> THEN <<>>
    ELSE LittleEndian(ChecksumOffset(k), 4) \o LittleEndian(Len(own), 4)
         \o LittleEndian(12 + 8 * Len(own), 4)
         \o FlattenSeq([n \in DOMAIN own |-> LineRecord(own[n])])

LinesStart == Len(CodeViewPrologue)

-----------------------------------------------------------------------------
Start ==
    /\ pc = "check"
    /\ next = 1
    /\ current = DwarfInitialRegisters
    /\ out = <<>>
    /\ reloc = 0

Init ==
    /\ format \in {"DWARF", "CODEVIEW"}
    /\ lines \in Rows
    /\ text_size \in TextSizes
    /\ Start

Refuse ==
    /\ pc = "check"
    /\ ~debug_contract_is_valid
    /\ pc' = "refused"
    /\ UNCHANGED <<format, lines, text_size, next, current, out, reloc>>

\* The fixed front of each section; the address operand is eight zeros.
StartDwarf ==
    /\ pc = "check" /\ format = "DWARF"
    /\ debug_contract_is_valid
    /\ pc' = "write"
    /\ reloc' = Len(DwarfPrologue)
    /\ out' = DwarfPrologue \o Zeros(8)
    /\ UNCHANGED <<format, lines, text_size, next, current>>

WriteDwarfRow ==
    /\ pc = "write" /\ format = "DWARF"
    /\ next <= Len(lines)
    /\ out' = out \o DwarfRow(lines[next])
    /\ current' = RegistersOf(lines[next])
    /\ next' = next + 1
    /\ UNCHANGED <<format, lines, text_size, pc, reloc>>

FinishDwarf ==
    /\ pc = "write" /\ format = "DWARF"
    /\ next > Len(lines)
    /\ out' = LET whole == out \o DwarfEnd
              IN  debug_buffer_patch_u32(whole, 0, Len(whole) - 4)
    /\ pc' = "done"
    /\ UNCHANGED <<format, lines, text_size, next, current, reloc>>

StartCodeView ==
    /\ pc = "check" /\ format = "CODEVIEW"
    /\ debug_contract_is_valid
    /\ pc' = "write"
    /\ reloc' = LinesStart
    /\ out' = CodeViewPrologue \o LinesHeader
    /\ UNCHANGED <<format, lines, text_size, next, current>>

WriteCodeViewFile ==
    /\ pc = "write" /\ format = "CODEVIEW"
    /\ next <= Len(Files)
    /\ out' = out \o Block(next)
    /\ next' = next + 1
    /\ UNCHANGED <<format, lines, text_size, pc, current, reloc>>

FinishCodeView ==
    /\ pc = "write" /\ format = "CODEVIEW"
    /\ next > Len(Files)
    /\ out' = debug_buffer_align4(
                  debug_buffer_patch_u32(out, LinesStart - 4,
                                         Len(out) - LinesStart))
    /\ pc' = "done"
    /\ UNCHANGED <<format, lines, text_size, next, current, reloc>>

Terminated == pc \in {"refused", "done"} /\ UNCHANGED vars

Next == \/ Refuse \/ StartDwarf \/ WriteDwarfRow \/ FinishDwarf
        \/ StartCodeView \/ WriteCodeViewFile \/ FinishCodeView \/ Terminated

Spec == Init /\ [][Next]_vars

-----------------------------------------------------------------------------
(* Readers, from the formats and not from the writer.  Positions count     *)
(* from 0.                                                                 *)

\* Zero behind the end.
At(b, p) == IF p + 1 \in DOMAIN b THEN b[p + 1] ELSE 0

U32(b, p) == At(b, p) + 256 * At(b, p + 1) + 65536 * At(b, p + 2)
             + 16777216 * At(b, p + 3)

\* The zero-terminated string at p.
StringAt(b, p) ==
    LET end == SelectInSubSeq(b, p + 1, Len(b), LAMBDA byte : byte = 0)
    IN  SubSeq(b, p + 1, end - 1)

\* The number at p and the position after it.
RECURSIVE UlebAt(_, _)
UlebAt(b, p) ==
    IF At(b, p) < 128 THEN [value |-> At(b, p), after |-> p + 1]
    ELSE LET rest == UlebAt(b, p + 1)
         IN  [value |-> At(b, p) - 128 + 128 * rest.value, after |-> rest.after]

RECURSIVE SlebAt(_, _)
SlebAt(b, p) ==
    IF At(b, p) < 64 THEN [value |-> At(b, p), after |-> p + 1]
    ELSE IF At(b, p) < 128 THEN [value |-> At(b, p) - 128, after |-> p + 1]
    ELSE LET rest == SlebAt(b, p + 1)
         IN  [value |-> At(b, p) - 128 + 128 * rest.value, after |-> rest.after]

\* The paths of a DWARF file table and the position after it.
RECURSIVE DwarfFilesAt(_, _)
DwarfFilesAt(b, p) ==
    IF At(b, p) = 0 THEN [paths |-> <<>>, after |-> p + 1]
    ELSE LET path == StringAt(b, p)
             directory == UlebAt(b, p + Len(path) + 1)
             time == UlebAt(b, directory.after)
             size == UlebAt(b, time.after)
             rest == DwarfFilesAt(b, size.after)
         IN  [paths |-> <<path>> \o rest.paths, after |-> rest.after]

\* The rows a DWARF program produces from the state m at p, and its end.
RECURSIVE DwarfRun(_, _, _)
DwarfRun(b, p, m) ==
    LET u == UlebAt(b, p + 1)
        s == SlebAt(b, p + 1)
        row == <<[address |-> m.address, file |-> m.file, line |-> m.line,
                  column |-> m.column]>>
    IN  CASE At(b, p) = 1 ->
               LET r == DwarfRun(b, p + 1, m)
               IN  [r EXCEPT !.rows = row \o @]
          [] At(b, p) = 2 ->
               DwarfRun(b, u.after, [m EXCEPT !.address = @ + u.value])
          [] At(b, p) = 3 ->
               DwarfRun(b, s.after, [m EXCEPT !.line = @ + s.value])
          [] At(b, p) = 4 -> DwarfRun(b, u.after, [m EXCEPT !.file = u.value])
          [] At(b, p) = 5 -> DwarfRun(b, u.after, [m EXCEPT !.column = u.value])
          [] At(b, p) = 0 /\ At(b, u.after) = 2 ->
               DwarfRun(b, u.after + u.value,
                        [m EXCEPT !.address = 0, !.set_at = u.after + 1])
          [] At(b, p) = 0 /\ At(b, u.after) = 1 ->
               [rows |-> <<>>, end |-> m.address, set_at |-> m.set_at,
                after |-> u.after + u.value]

FileTableAt == 29
DwarfProgramAt(b) == 10 + U32(b, 6)
DwarfRead(b) ==
    DwarfRun(b, DwarfProgramAt(b),
             [address |-> 0, file |-> 1, line |-> 1, column |-> 0, set_at |-> 0])

\* The three CodeView subsections: payload positions and what follows.
CodeViewSubsection(b, p) ==
    [kind |-> U32(b, p), at |-> p + 8, end |-> p + 8 + U32(b, p + 4),
     after |-> p + 8 + U32(b, p + 4) + ((4 - (U32(b, p + 4) % 4)) % 4)]

\* Offset, path and line of every record of the blocks from p to end.
RECURSIVE CodeViewBlocks(_, _, _, _, _)
CodeViewBlocks(b, p, end, checksums, strings) ==
    IF p >= end THEN <<>>
    ELSE LET path == StringAt(b, strings + U32(b, checksums + U32(b, p)))
         IN  [n \in 1 .. U32(b, p + 4) |->
                 [offset |-> U32(b, p + 12 + 8 * (n - 1)), path |-> path,
                  line |-> At(b, p + 16 + 8 * (n - 1))
                           + 256 * At(b, p + 17 + 8 * (n - 1))
                           + 65536 * At(b, p + 18 + 8 * (n - 1))]]
             \o CodeViewBlocks(b, p + U32(b, p + 8), end, checksums, strings)

PathOf(line) == Files[debug_file_find(line.file_id)].path

(***************************************************************************)
(* Running the line program on DWARF's own machine gives the rows back:    *)
(* same addresses, files, lines and columns, in the same order, although   *)
(* only differences were written, in numbers whose last byte carries a     *)
(* sign or a continuation bit.                                             *)
(***************************************************************************)
DwarfReadsBack ==
    pc = "done" /\ format = "DWARF" =>
        LET table == DwarfFilesAt(out, FileTableAt)
            rows  == DwarfRead(out).rows
        IN  /\ Len(rows) = Len(lines)
            /\ \A k \in DOMAIN lines :
                /\ rows[k].address = lines[k].offset
                /\ table.paths[rows[k].file] = PathOf(lines[k])
                /\ rows[k].line = lines[k].line
                /\ rows[k].column = lines[k].column

(***************************************************************************)
(* The patched lengths of the DWARF section are right: unit_length ends at *)
(* the last byte, header_length leads to the first opcode, the sequence    *)
(* covers the whole of .text, and the relocation given to the object       *)
(* writer is the place of the address operand.                             *)
(***************************************************************************)
DwarfExtentIsExact ==
    pc = "done" /\ format = "DWARF" =>
        LET read == DwarfRead(out)
        IN  /\ U32(out, 0) = Len(out) - 4
            /\ DwarfFilesAt(out, FileTableAt).after = DwarfProgramAt(out)
            /\ read.after = Len(out)
            /\ read.end = text_size
            /\ read.set_at = reloc

(***************************************************************************)
(* The CodeView subsections follow each other on four-byte boundaries to   *)
(* the end of the section, and the records of each file, found through the *)
(* checksum and string tables, are that file's rows in order; a line that  *)
(* fits the format's 24 bits is exact.                                     *)
(***************************************************************************)
CodeViewReadsBack ==
    pc = "done" /\ format = "CODEVIEW" =>
        LET strings   == CodeViewSubsection(out, 4)
            checksums == CodeViewSubsection(out, strings.after)
            table     == CodeViewSubsection(out, checksums.after)
            records   == CodeViewBlocks(out, table.at + 12, table.end,
                                        checksums.at, strings.at)
            wanted    == FlattenSeq([k \in DOMAIN Files |-> LinesOf(k)])
        IN  /\ <<strings.kind, checksums.kind, table.kind>> = <<243, 244, 242>>
            /\ table.after = Len(out)
            /\ table.at = reloc
            /\ U32(out, table.at + 8) = text_size
            /\ Len(records) = Len(wanted)
            /\ \A k \in DOMAIN wanted :
                /\ records[k].offset = wanted[k].offset
                /\ records[k].path = PathOf(wanted[k])
                /\ wanted[k].line < 16777216 =>
                       records[k].line = wanted[k].line

(***************************************************************************)
(* Whoever reads the line table, in either format, gets the rows of pass 2 *)
(* back from its bytes.                                                    *)
(***************************************************************************)
LineTableReadsBack == DwarfReadsBack /\ DwarfExtentIsExact /\ CodeViewReadsBack
=============================================================================
