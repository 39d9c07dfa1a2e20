-------------------------------- MODULE Coff --------------------------------
(***************************************************************************)
(* The COFF writer, output_write_coff of src/output/coff.c.  Every file    *)
(* pointer is computed before the first byte is written, in 32-bit         *)
(* arithmetic, and the headers that carry them come first; the pieces they *)
(* speak of are written afterwards.                                        *)
(***************************************************************************)
EXTENDS ObjectFile

CONSTANT UINT16_MAX   \* the limit of NumberOfRelocations, scaled down for TLC

VARIABLES
    in,        \* the OutputInput
    pc,        \* "check", "headers", "pieces", "done" or "refused"
    todo,      \* section headers, then pieces, still to be written
    headers,   \* section headers written so far
    hdr,       \* the file header's symbol-table pointer and counts
    file       \* the output buffer

vars == <<in, pc, todo, headers, hdr, file>>

HDR_SIZE == 20
SHDR_SIZE == 40
RELOC_SIZE == 10
SYMBOL_SIZE == 18
SHORT_NAME == 8      \* longer names go to the string table

-----------------------------------------------------------------------------
(* Sections *)

SectionOrder == <<"TEXT", "DATA", "RODATA", "BSS", "DEBUG">>

HasSection(i, s) == IF s = "DEBUG" THEN has_debug(i) ELSE has(i, s)

nsections(i) == Len(SelectSeq(SectionOrder, LAMBDA s : HasSection(i, s)))

\* data_section and the others: 0 for a section that is not there.
Number(i, s) ==
    IF ~HasSection(i, s) THEN 0
    ELSE LET k == SelectInSeq(SectionOrder, LAMBDA w : w = s)
         IN  Len(SelectSeq(SubSeq(SectionOrder, 1, k),
                           LAMBDA w : HasSection(i, w)))

\* A label of a section that came out empty is given the number of .text.
coff_section_number(i, section) ==
    IF section = "UNKNOWN" THEN 0
    ELSE IF section \in DataSections /\ has(i, section)
         THEN Number(i, section)
    ELSE 1

\* The boundary coff_data_alignment_flag encodes.
coff_data_alignment(requested) ==
    CHOOSE a \in {2^e : e \in 0 .. 13} :
        (a >= requested \/ a = 2^13) /\ \A e \in 0 .. 13 : 2^e < a => 2^e < requested

SectionSize(i, s) == IF s = "DEBUG" THEN i.table.size ELSE i.size[s]

-----------------------------------------------------------------------------
(* Relocations *)

\* The section offset and section number of the line table come last.
RelocCount(i, s) ==
    CASE s = "DEBUG" -> IF has_debug(i) THEN 2 ELSE 0
      [] s = "BSS" -> 0
      [] OTHER -> Len(RelocsIn(i, s))

\* Wrong form: indices count from the first listed symbol.
RelocSymbolFromList(i, r) ==
    output_symbols_find_index(Symbols(i), r.symbol) - 1

\* The file symbol has index 0, so the list's one-based index fits.
RelocSymbol(i, r) == output_symbols_find_index(Symbols(i), r.symbol)

text_section_symbol_index(i) == 1 + Len(Symbols(i))

relocations(i, s) ==
    IF s = "DEBUG"
    THEN [k \in 1 .. 2 |-> [offset |-> Narrow32(i.table.relocs[k]),
                            symbol |-> text_section_symbol_index(i)]]
    ELSE [k \in DOMAIN RelocsIn(i, s) |->
             [offset |-> Narrow32(RelocsIn(i, s)[k].offset),
              symbol |-> RelocSymbol(i, RelocsIn(i, s)[k])]]

-----------------------------------------------------------------------------
(* String table and symbols *)

\* The source name and then each name that is too long to stand in place.
LongNames(i) ==
    (IF i.source_len > SHORT_NAME
     THEN <<[text |-> "source", len |-> i.source_len]>> ELSE <<>>)
    \o LET long == SelectSeq(Symbols(i),
                             LAMBDA node : NameLen[node.name] > SHORT_NAME)
       IN  [k \in DOMAIN long |->
               [text |-> long[k].name, len |-> NameLen[long[k].name]]]

\* The table starts with its own four-byte size.
strtab(i) ==
    FoldLeft(LAMBDA st, n : strtab_add(st, n.text, n.len),
             [texts |-> <<>>, size |-> 4], LongNames(i))

symbol_names_fit_coff_strtab(i) == strtab(i).size <= UINT32_MAX

\* The name field of write_sym: the text itself, or its place in the table.
NameField(i, text, len) ==
    IF len <= SHORT_NAME THEN [short |-> text, offset |-> 0]
    ELSE [short |-> "",
          offset |-> Narrow32(strtab(i).texts[
              SelectInSeq(strtab(i).texts, LAMBDA t : t.text = text)].at)]

Symbol(name, value, section, storage) ==
    [name |-> name, value |-> value, section |-> section, storage |-> storage]

symtab(i) ==
    LET list == Symbols(i) IN
    <<Symbol(NameField(i, "source", i.source_len), 0, -2, "STATIC")>>
    \o [k \in DOMAIN list |->
            Symbol(NameField(i, list[k].name, NameLen[list[k].name]),
                   Narrow32(list[k].entry.offset),
                   coff_section_number(i, list[k].entry.section),
                   IF list[k].entry.binding = "GLOBAL" THEN "EXTERNAL"
                   ELSE "STATIC")]
    \o (IF has_debug(i)
        THEN <<Symbol(NameField(i, ".text", 5), 0, 1, "STATIC")>> ELSE <<>>)

total_symbols(i) ==
    Narrow32(1 + count_output_symbols(i.nodes) + (IF has_debug(i) THEN 1 ELSE 0))

-----------------------------------------------------------------------------
(* File pointers, computed before anything is written *)

RawOrder == <<"TEXT", "DATA", "RODATA", "DEBUG">>

RawSize(i, s) == IF HasSection(i, s) THEN Narrow32(SectionSize(i, s)) ELSE 0

RawBefore(i, s) ==
    LET k == SelectInSeq(RawOrder, LAMBDA w : w = s)
    IN  FoldLeft(LAMBDA n, w : n + RawSize(i, w), 0, SubSeq(RawOrder, 1, k - 1))

FirstRaw(i) == HDR_SIZE + SHDR_SIZE * nsections(i)

raw_ptr(i, s) ==
    IF s # "BSS" /\ HasSection(i, s) THEN Narrow32(FirstRaw(i) + RawBefore(i, s))
    ELSE 0

after_raw(i) == FirstRaw(i) + RawBefore(i, "DEBUG") + RawSize(i, "DEBUG")

RelocsBefore(i, s) ==
    LET k == SelectInSeq(RawOrder, LAMBDA w : w = s)
    IN  FoldLeft(LAMBDA n, w : n + RelocCount(i, w), 0, SubSeq(RawOrder, 1, k - 1))

\* Wrong form: every relocation table is said to start after the raw data.
reloc_ptr_first(i, s) ==
    IF RelocCount(i, s) > 0 THEN Narrow32(after_raw(i)) ELSE 0

reloc_ptr(i, s) ==
    IF RelocCount(i, s) > 0
    THEN Narrow32(after_raw(i) + RelocsBefore(i, s) * RELOC_SIZE) ELSE 0

symtab_ptr(i) ==
    Narrow32(after_raw(i)
             + (RelocsBefore(i, "DEBUG") + RelocCount(i, "DEBUG")) * RELOC_SIZE)

write_shdr(s) ==
    [name |-> s, raw_size |-> Narrow32(SectionSize(in, s)),
     raw_ptr |-> raw_ptr(in, s), reloc_ptr |-> reloc_ptr(in, s),
     reloc_count |-> RelocCount(in, s) % (UINT16_MAX + 1),
     alignment |-> CASE s = "TEXT" -> 16
                     [] s = "DEBUG" -> 1
                     [] OTHER -> coff_data_alignment(in.alignment[s])]

-----------------------------------------------------------------------------
Start ==
    /\ todo = SectionOrder
    /\ headers = <<>>
    /\ hdr = [symtab_ptr |-> 0, nsections |-> 0, total_symbols |-> 0]
    /\ file = <<>>

Init == in \in Inputs /\ pc = "check" /\ Start

RelocationCountsFit(i) ==
    \A s \in {"TEXT", "DATA", "RODATA"} : Len(RelocsIn(i, s)) <= UINT16_MAX

Writable ==
    /\ has_debug(in) => in.table.ok
    /\ SymbolCountFits(in)
    /\ symbol_names_fit_coff_strtab(in)
    /\ relocations_have_symbols(in)
    /\ RelocationCountsFit(in)
    /\ has_debug(in) => Len(Symbols(in)) <= UINT32_MAX - 2

\* The early returns before anything is written.
Refuse ==
    /\ pc = "check"
    /\ ~Writable
    /\ pc' = "refused"
    /\ UNCHANGED <<in, todo, headers, hdr, file>>

WriteFileHeader ==
    /\ pc = "check"
    /\ Writable
    /\ pc' = "headers"
    /\ hdr' = [symtab_ptr |-> symtab_ptr(in), nsections |-> nsections(in),
               total_symbols |-> total_symbols(in)]
    /\ file' = Place(file, "HEADER", HDR_SIZE, 1)
    /\ UNCHANGED <<in, todo, headers>>

WriteHeader ==
    /\ pc = "headers"
    /\ todo # <<>>
    /\ LET s == Head(todo) IN
       /\ headers' = IF HasSection(in, s) THEN Append(headers, write_shdr(s))
                     ELSE headers
       /\ file' = IF HasSection(in, s) THEN Place(file, "HEADER", SHDR_SIZE, 1)
                  ELSE file
    /\ todo' = Tail(todo)
    /\ UNCHANGED <<in, pc, hdr>>

\* The order in which raw data, relocations, symbols and strings follow.
PieceOrder ==
    <<"TEXT", "DATA", "RODATA", "DEBUG", "REL_TEXT", "REL_DATA",
      "REL_RODATA", "REL_DEBUG", "SYMTAB", "STRTAB">>

RelPiece == [TEXT |-> "REL_TEXT", DATA |-> "REL_DATA",
             RODATA |-> "REL_RODATA", DEBUG |-> "REL_DEBUG"]

PieceSize(i, what) ==
    CASE what \in Range(RawOrder) ->
             IF HasSection(i, what) THEN SectionSize(i, what) ELSE 0
      [] what = "SYMTAB" -> Len(symtab(i)) * SYMBOL_SIZE
      [] what = "STRTAB" -> strtab(i).size
      [] OTHER -> LET s == CHOOSE s \in DOMAIN RelPiece : RelPiece[s] = what
                  IN  RelocCount(i, s) * RELOC_SIZE

StartPieces ==
    /\ pc = "headers"
    /\ todo = <<>>
    /\ pc' = "pieces"
    /\ todo' = PieceOrder
    /\ UNCHANGED <<in, headers, hdr, file>>

WritePiece ==
    /\ pc = "pieces"
    /\ todo # <<>>
    /\ file' = Place(file, Head(todo), PieceSize(in, Head(todo)), 1)
    /\ todo' = Tail(todo)
    /\ UNCHANGED <<in, pc, headers, hdr>>

Finish ==
    /\ pc = "pieces"
    /\ todo = <<>>
    /\ pc' = "done"
    /\ UNCHANGED <<in, todo, headers, hdr, file>>

Terminated == pc \in {"done", "refused"} /\ UNCHANGED vars

Next == \/ Refuse \/ WriteFileHeader \/ WriteHeader \/ StartPieces
        \/ WritePiece \/ Finish \/ Terminated

Spec == Init /\ [][Next]_vars

-----------------------------------------------------------------------------
(* What a linker reads back from the finished file *)

SectionRead(n) == IF n \in DOMAIN headers THEN headers[n].name ELSE "none"
SymbolRead(n) == symtab(in)[n + 1]
SymbolNameRead(n) ==
    LET name == SymbolRead(n).name
    IN  IF name.offset = 0 THEN name.short ELSE TextAt(strtab(in), name.offset)
EntriesNamed(name) ==
    {n \in 0 .. Len(symtab(in)) - 1 : SymbolNameRead(n) = name}

(***************************************************************************)
(* The pointers computed before the first byte was written point at what   *)
(* was written afterwards: raw data, relocation tables with their counts,  *)
(* the symbol table, and the string table that a reader expects right      *)
(* after the last symbol; and the file header counts what is there.  The   *)
(* boundary a source asked for with .align survives into the flags.        *)
(***************************************************************************)
CoffSectionsReadBack ==
    pc = "done" =>
    /\ hdr.nsections = Len(headers)
    /\ Piece(file, "SYMTAB").at = hdr.symtab_ptr
    /\ Piece(file, "STRTAB").at = hdr.symtab_ptr + SYMBOL_SIZE * hdr.total_symbols
    /\ \A h \in Range(headers) :
        /\ h.name # "BSS" =>
            /\ Piece(file, h.name).at = h.raw_ptr
            /\ Piece(file, h.name).size = h.raw_size
        /\ h.name = "BSS" => h.raw_ptr = 0
        /\ h.name \in DataSections /\ in.alignment[h.name] > 0 =>
            h.alignment % in.alignment[h.name] = 0
        /\ h.reloc_count > 0 =>
            /\ Piece(file, RelPiece[h.name]).at = h.reloc_ptr
            /\ Piece(file, RelPiece[h.name]).size = h.reloc_count * RELOC_SIZE
    /\ \A s \in DOMAIN RelPiece : Piece(file, RelPiece[s]).size > 0 =>
           \E h \in Range(headers) : h.name = s /\ h.reloc_count > 0

(***************************************************************************)
(* Every defined or external name is in the symbol table once, in place or *)
(* through the string table, with its value and with the storage class of  *)
(* its binding; an external one is undefined, and a label of a section     *)
(* that holds bytes belongs to that section.  Every relocation's index     *)
(* leads to the symbol it was made for, the file symbol in front of the    *)
(* list being counted, and both relocations of the line table lead to the  *)
(* symbol of .text behind the list.                                        *)
(***************************************************************************)
CoffSymbolsReadBack ==
    pc = "done" =>
    /\ \A node \in Range(in.nodes) : IsOutputSymbol(node.entry) =>
        \E n \in EntriesNamed(node.name) :
            /\ EntriesNamed(node.name) = {n}
            /\ SymbolRead(n).value = node.entry.offset
            /\ (SymbolRead(n).storage = "EXTERNAL") = (node.entry.binding = "GLOBAL")
            /\ IsExternal(node.entry) => SymbolRead(n).section = 0
            /\ node.entry.defined /\ has(in, node.entry.section) =>
                   SectionRead(SymbolRead(n).section) = node.entry.section
    /\ \A s \in {"TEXT", "DATA", "RODATA"} :
        \A k \in DOMAIN RelocsIn(in, s) :
            /\ SymbolNameRead(relocations(in, s)[k].symbol)
                   = RelocsIn(in, s)[k].symbol
            /\ relocations(in, s)[k].offset = RelocsIn(in, s)[k].offset
    /\ has_debug(in) => \A k \in 1 .. 2 :
        LET n == relocations(in, "DEBUG")[k].symbol IN
        SymbolNameRead(n) = ".text" /\ SectionRead(SymbolRead(n).section) = "TEXT"

(***************************************************************************)
(* CHANGELOG.md: writing fails when the limits of the format are exceeded. *)
(* A section of 2^32 bytes or more (.bss needs no memory to grow so far)   *)
(* is written with its size cut to 32 bits instead.                        *)
(***************************************************************************)
SizesAreExactOrRefused ==
    pc = "done" =>
    \A h \in Range(headers) : h.raw_size = SectionSize(in, h.name)
=============================================================================
