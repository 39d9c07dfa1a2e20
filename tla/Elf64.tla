------------------------------- MODULE Elf64 --------------------------------
(***************************************************************************)
(* The ELF64 writer, output_write_elf64 of src/output/elf64.c.  It numbers *)
(* the sections first, then writes the pieces of the file, then the        *)
(* section headers in a second pass over the same conditions, and last     *)
(* patches e_shoff.  Numbers, offsets and indices are therefore computed   *)
(* in one place and used in another.                                       *)
(***************************************************************************)
EXTENDS ObjectFile

VARIABLES
    in,        \* the OutputInput
    pc,        \* "check", "pieces", "headers", "done" or "refused"
    todo,      \* pieces, then headers, still to be written
    file,      \* the output buffer up to the section headers
    headers,   \* the section headers written so far
    ehdr       \* e_shoff, e_shnum, e_shstrndx

vars == <<in, pc, todo, file, headers, ehdr>>

EHDR_SIZE == 64
SHDR_SIZE == 64
ENTRY_SIZE == 24     \* a symbol, and a relocation with addend

-----------------------------------------------------------------------------
(* Sections: which there are, their numbers, their sizes *)

RelocTarget == [RELA_TEXT |-> "TEXT", RELA_DATA |-> "DATA",
                RELA_RODATA |-> "RODATA"]

Present(i, what) ==
    CASE what \in DataSections -> has(i, what)
      [] what \in DOMAIN RelocTarget -> RelocsIn(i, RelocTarget[what]) # <<>>
      [] what \in {"DEBUG", "RELA_DEBUG"} -> has_debug(i)
      [] OTHER -> TRUE

\* The order of the next_section++ assignments.
NumberOrder ==
    <<"NULL", "TEXT", "DATA", "RODATA", "BSS", "RELA_TEXT", "RELA_DATA",
      "RELA_RODATA", "DEBUG", "RELA_DEBUG", "SYMTAB", "STRTAB", "SHSTRTAB",
      "NOTE">>

\* sh_data and the others: 0 for a section that is not there.
Number(i, what) ==
    IF ~Present(i, what) THEN 0
    ELSE LET k == SelectInSeq(NumberOrder, LAMBDA w : w = what)
         IN  Len(SelectSeq(SubSeq(NumberOrder, 1, k - 1),
                           LAMBDA w : Present(i, w)))

sh_count(i) == Len(SelectSeq(NumberOrder, LAMBDA w : Present(i, w)))

SectionName == [TEXT |-> 5, DATA |-> 5, RODATA |-> 7, BSS |-> 4,
                RELA_TEXT |-> 10, RELA_DATA |-> 10, RELA_RODATA |-> 12,
                DEBUG |-> 11, RELA_DEBUG |-> 16, SYMTAB |-> 7, STRTAB |-> 7,
                SHSTRTAB |-> 9, NOTE |-> 15]

\* strtab_init leaves the empty string at offset 0.
EmptyStrTab == [texts |-> <<[text |-> "", at |-> 0]>>, size |-> 1]

shstrtab(i) ==
    LET named == SelectSeq(Tail(NumberOrder), LAMBDA w : Present(i, w))
    IN  FoldLeft(LAMBDA st, w : strtab_add(st, w, SectionName[w]),
                 EmptyStrTab, named)

strtab(i) ==
    FoldLeft(LAMBDA st, node : strtab_add(st, node.name, NameLen[node.name]),
             EmptyStrTab, Symbols(i))

symbol_names_fit_elf_strtab(i) == strtab(i).size <= UINT32_MAX

-----------------------------------------------------------------------------
(* Symbols and relocations *)

\* Wrong form: read-only data is taken for data.
symbol_section_index_merged(i, section) ==
    IF section = "UNKNOWN" THEN 0
    ELSE IF section \in {"DATA", "RODATA"} /\ has(i, "DATA")
         THEN Number(i, "DATA")
    ELSE IF section = "BSS" /\ has(i, section) THEN Number(i, section)
    ELSE Number(i, "TEXT")

\* A label of a section that came out empty is given the index of .text.
symbol_section_index(i, section) ==
    IF section = "UNKNOWN" THEN 0
    ELSE IF section \in DataSections /\ has(i, section)
         THEN Number(i, section)
    ELSE Number(i, "TEXT")

Symbol(name, binding, type, shndx, value) ==
    [name |-> name, binding |-> binding, type |-> type, shndx |-> shndx,
     value |-> value]

symtab(i) ==
    LET list == Symbols(i) IN
    <<Symbol(0, "LOCAL", "NOTYPE", 0, 0)>>
    \o (IF has_debug(i)
        THEN <<Symbol(0, "LOCAL", "SECTION", Number(i, "TEXT"), 0)>>
        ELSE <<>>)
    \o [k \in DOMAIN list |->
            Symbol(Narrow32(strtab(i).texts[k + 1].at),
                   list[k].entry.binding, "NOTYPE",
                   symbol_section_index(i, list[k].entry.section),
                   list[k].entry.offset)]

\* Wrong form: the section symbol of the line table is not counted.
symbol_index_bias_none(i) == 0

symbol_index_bias(i) == IF has_debug(i) THEN 1 ELSE 0

\* The sh_info of .symtab.
first_global(i) ==
    LocalCount(i.nodes) + 1 + (IF has_debug(i) THEN 1 ELSE 0)

rela(i, s) ==
    LET list == RelocsIn(i, s) IN
    [k \in DOMAIN list |->
        [offset |-> list[k].offset, type |-> list[k].kind,
         addend |-> list[k].addend,
         symbol |-> output_symbols_find_index(Symbols(i), list[k].symbol)
                        + symbol_index_bias(i)]]

\* The one relocation of the line table: its start address against .text,
\* whose section symbol follows the null symbol.
rela_debug(i) ==
    [offset |-> i.table.relocs[1], type |-> "ABS64", addend |-> 0, symbol |-> 1]

-----------------------------------------------------------------------------
(* Pieces of the file *)

WriteOrder ==
    <<"EHDR", "TEXT", "DATA", "RODATA", "DEBUG", "SYMTAB", "RELA_TEXT",
      "RELA_DATA", "RELA_RODATA", "RELA_DEBUG", "STRTAB", "SHSTRTAB">>

PieceAlignment(what) ==
    IF what \in {"DATA", "RODATA", "SYMTAB", "RELA_TEXT", "RELA_DATA",
                 "RELA_RODATA", "RELA_DEBUG"} THEN 8 ELSE 1

PieceSize(i, what) ==
    CASE what = "EHDR" -> EHDR_SIZE
      [] what \in {"TEXT", "DATA", "RODATA"} -> i.size[what]
      [] what = "DEBUG" -> i.table.size
      [] what = "SYMTAB" -> Len(symtab(i)) * ENTRY_SIZE
      [] what \in DOMAIN RelocTarget ->
             Len(rela(i, RelocTarget[what])) * ENTRY_SIZE
      [] what = "RELA_DEBUG" -> ENTRY_SIZE
      [] what = "STRTAB" -> strtab(i).size
      [] what = "SHSTRTAB" -> shstrtab(i).size

-----------------------------------------------------------------------------
(* Section headers *)

\* Wrong form: the offset is taken before the buffer is aligned.
OffsetBeforePadding(what) ==
    IF what \in {"BSS", "NOTE"} THEN End(file)
    ELSE LET k == SelectInSeq(file, LAMBDA p : p.what = what)
         IN  End(SubSeq(file, 1, k - 1))

\* text_off and the others; .bss and the stack note hold no bytes.
OffsetOf(what) ==
    CASE what = "BSS" -> ehdr.e_shoff + SHDR_SIZE * Len(headers)
      [] what = "NOTE" -> End(file)
      [] OTHER -> Piece(file, what).at

HeaderSize(what) ==
    CASE what = "NOTE" -> 0
      [] what = "BSS" -> in.size.BSS
      [] OTHER -> Piece(file, what).size

data_section_alignment(requested) == IF requested > 8 THEN requested ELSE 8

HeaderType(what) ==
    CASE what \in {"TEXT", "DATA", "RODATA", "DEBUG", "NOTE"} -> "PROGBITS"
      [] what = "BSS" -> "NOBITS"
      [] what = "SYMTAB" -> "SYMTAB"
      [] what \in {"STRTAB", "SHSTRTAB"} -> "STRTAB"
      [] OTHER -> "RELA"

HeaderAlignment(what) ==
    CASE what = "TEXT" -> 16
      [] what \in DataSections -> data_section_alignment(in.alignment[what])
      [] HeaderType(what) \in {"RELA", "SYMTAB"} -> 8
      [] OTHER -> 1

\* sh_link and sh_info.
HeaderLink(what) ==
    CASE HeaderType(what) = "RELA" -> Number(in, "SYMTAB")
      [] what = "SYMTAB" -> Number(in, "STRTAB")
      [] OTHER -> 0

HeaderInfo(what) ==
    CASE what \in DOMAIN RelocTarget -> Number(in, RelocTarget[what])
      [] what = "RELA_DEBUG" -> Number(in, "DEBUG")
      [] what = "SYMTAB" -> first_global(in)
      [] OTHER -> 0

NameOffset(what) ==
    LET st == shstrtab(in)
    IN  st.texts[SelectInSeq(st.texts, LAMBDA t : t.text = what)].at

write_shdr(what) ==
    IF what = "NULL"
    THEN [name |-> 0, type |-> "NULL", offset |-> 0, size |-> 0, link |-> 0,
          info |-> 0, addralign |-> 0]
    ELSE [name |-> NameOffset(what), type |-> HeaderType(what),
          offset |-> OffsetOf(what), size |-> HeaderSize(what),
          link |-> HeaderLink(what), info |-> HeaderInfo(what),
          addralign |-> HeaderAlignment(what)]

\* The order of the write_shdr calls.
HeaderOrder ==
    <<"NULL", "TEXT", "DATA", "RODATA", "BSS", "RELA_TEXT", "RELA_DATA",
      "RELA_RODATA", "DEBUG", "RELA_DEBUG", "SYMTAB", "STRTAB", "SHSTRTAB",
      "NOTE">>

-----------------------------------------------------------------------------
Start ==
    /\ todo = WriteOrder
    /\ file = <<>>
    /\ headers = <<>>
    /\ ehdr = [e_shoff |-> 0, e_shnum |-> 0, e_shstrndx |-> 0]

Init == in \in Inputs /\ pc = "check" /\ Start

Writable ==
    /\ has_debug(in) => in.table.ok
    /\ SymbolCountFits(in)
    /\ symbol_names_fit_elf_strtab(in)
    /\ relocations_have_symbols(in)

\* The early returns before anything is written.
Refuse ==
    /\ pc = "check"
    /\ ~Writable
    /\ pc' = "refused"
    /\ UNCHANGED <<in, todo, file, headers, ehdr>>

\* The checks passed: the ELF header is prepared and the pieces begin.
Accept ==
    /\ pc = "check"
    /\ Writable
    /\ pc' = "pieces"
    /\ ehdr' = [ehdr EXCEPT !.e_shnum = sh_count(in),
                            !.e_shstrndx = Number(in, "SHSTRTAB")]
    /\ UNCHANGED <<in, todo, file, headers>>

WritePiece ==
    /\ pc = "pieces"
    /\ todo # <<>>
    /\ LET what == Head(todo) IN
       file' = IF what = "EHDR" \/ Present(in, what)
               THEN Place(file, what, PieceSize(in, what),
                          PieceAlignment(what))
               ELSE file
    /\ todo' = Tail(todo)
    /\ UNCHANGED <<in, pc, headers, ehdr>>

\* align_outbuf(&ob, 8); shoff = ob.size, and the patch of e_shoff.
StartHeaders ==
    /\ pc = "pieces"
    /\ todo = <<>>
    /\ pc' = "headers"
    /\ todo' = HeaderOrder
    /\ ehdr' = [ehdr EXCEPT !.e_shoff = AlignUp(End(file), 8)]
    /\ UNCHANGED <<in, file, headers>>

WriteHeader ==
    /\ pc = "headers"
    /\ todo # <<>>
    /\ headers' = IF Present(in, Head(todo))
                  THEN Append(headers, write_shdr(Head(todo)))
                  ELSE headers
    /\ todo' = Tail(todo)
    /\ UNCHANGED <<in, pc, file, ehdr>>

Finish ==
    /\ pc = "headers"
    /\ todo = <<>>
    /\ pc' = "done"
    /\ UNCHANGED <<in, todo, file, headers, ehdr>>

Terminated == pc \in {"done", "refused"} /\ UNCHANGED vars

Next == \/ Refuse \/ Accept \/ WritePiece \/ StartHeaders
        \/ WriteHeader \/ Finish \/ Terminated

Spec == Init /\ [][Next]_vars

-----------------------------------------------------------------------------
(* What a linker reads back from the finished file *)

Header(n) == headers[n + 1]
NameRead(h) == TextAt(shstrtab(in), h.name)
SectionRead(n) == IF n \in 1 .. Len(headers) - 1
                  THEN NameRead(Header(n)) ELSE "none"
SymbolRead(n) == symtab(in)[n + 1]
SymbolNameRead(n) == TextAt(strtab(in), SymbolRead(n).name)

\* The entries of .symtab under a name.
EntriesNamed(name) ==
    {n \in 0 .. Len(symtab(in)) - 1 : SymbolNameRead(n) = name}

(***************************************************************************)
(* The header of every section says where its bytes are: name, offset and  *)
(* size match a piece of the file, every piece has a header, the tables of *)
(* entries start on a multiple of eight, and e_shnum, e_shstrndx, sh_link  *)
(* and the relocations' sh_info are the numbers of the headers they mean,  *)
(* although the numbers were given out before the headers were written.    *)
(* The boundary a source asked for with .align survives into sh_addralign. *)
(***************************************************************************)
SectionsReadBack ==
    pc = "done" =>
    /\ ehdr.e_shnum = Len(headers)
    /\ ehdr.e_shoff >= End(file) /\ ehdr.e_shoff % 8 = 0
    /\ SectionRead(ehdr.e_shstrndx) = "SHSTRTAB"
    /\ \A p \in Range(file) \ {file[1]} : \E h \in Range(headers) :
           NameRead(h) = p.what /\ h.offset = p.at /\ h.size = p.size
    /\ \A h \in Range(headers) :
        /\ h.type \in {"PROGBITS", "STRTAB"} /\ h.size > 0 =>
               \E p \in Range(file) :
                   NameRead(h) = p.what /\ h.offset = p.at /\ h.size = p.size
        /\ h.type \in {"RELA", "SYMTAB"} => h.offset % 8 = 0
        /\ h.type = "RELA" => SectionRead(h.link) = "SYMTAB"
        /\ h.type = "SYMTAB" => SectionRead(h.link) = "STRTAB"
        /\ NameRead(h) = "RELA_DEBUG" => SectionRead(h.info) = "DEBUG"
        /\ NameRead(h) \in DataSections /\ in.alignment[NameRead(h)] > 0 =>
               h.addralign % in.alignment[NameRead(h)] = 0

(***************************************************************************)
(* Every relocation of pass 2 is found under the section it patches, with  *)
(* its offset and addend, and its symbol index leads, through .symtab and  *)
(* .strtab, to the name it was made for; the line table's own relocation   *)
(* leads to the section symbol of .text.                                   *)
(***************************************************************************)
RelocationsReadBack ==
    pc = "done" =>
    /\ \A s \in {"TEXT", "DATA", "RODATA"} :
        LET wanted == RelocsIn(in, s)
            found  == rela(in, s)
        IN  wanted # <<>> =>
            /\ \E h \in Range(headers) :
                   /\ h.type = "RELA" /\ SectionRead(h.info) = s
                   /\ h.size = Len(wanted) * ENTRY_SIZE
            /\ \A k \in DOMAIN wanted :
                   /\ SymbolNameRead(found[k].symbol) = wanted[k].symbol
                   /\ found[k].offset = wanted[k].offset
                   /\ found[k].addend = wanted[k].addend
    /\ has_debug(in) =>
        /\ SymbolRead(rela_debug(in).symbol).type = "SECTION"
        /\ SectionRead(SymbolRead(rela_debug(in).symbol).shndx) = "TEXT"

(***************************************************************************)
(* Every defined or external name of the symbol table is in .symtab once,  *)
(* with its binding and value; an external one is undefined there, and a   *)
(* label of a section that holds bytes belongs to that section's header.   *)
(* Exactly the entries before sh_info are local, the null and the line     *)
(* table's section symbol among them.                                      *)
(***************************************************************************)
SymbolsReadBack ==
    pc = "done" =>
    /\ \A node \in Range(in.nodes) : IsOutputSymbol(node.entry) =>
        \E n \in EntriesNamed(node.name) :
            /\ EntriesNamed(node.name) = {n}
            /\ SymbolRead(n).binding = node.entry.binding
            /\ SymbolRead(n).value = node.entry.offset
            /\ IsExternal(node.entry) => SymbolRead(n).shndx = 0
            /\ node.entry.defined /\ has(in, node.entry.section) =>
                   SectionRead(SymbolRead(n).shndx) = node.entry.section
    /\ \A n \in 0 .. Len(symtab(in)) - 1 :
        n < Header(Number(in, "SYMTAB")).info <=> SymbolRead(n).binding = "LOCAL"

(***************************************************************************)
(* Docs/CONCERNS.md: a data label is not emitted as a symbol of .text.     *)
(* The writer does so when the label's section came out empty.             *)
(***************************************************************************)
DataLabelsAreNotText ==
    pc = "done" =>
    \A node \in Range(in.nodes) :
        node.entry.defined /\ node.entry.section # "TEXT" =>
            \A n \in EntriesNamed(node.name) :
                SectionRead(SymbolRead(n).shndx) # "TEXT"
=============================================================================
