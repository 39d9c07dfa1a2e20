------------------------------- MODULE Output -------------------------------
(***************************************************************************)
(* output_write: the writer of the format, which first has the line table  *)
(* made when there are debug rows.  DebugLine makes the table, Elf64 or    *)
(* Coff writes the object around it, with the table's size and the places  *)
(* the linker has to patch.                                                *)
(*                                                                         *)
(* The variables of Elf64 keep their names; those of Coff have the prefix  *)
(* coff_.  One of the two writers runs, the other stays "idle".            *)
(***************************************************************************)
EXTENDS Elf64

CONSTANTS
    Files,        \* the debug files, as in DebugLine
    UINT16_MAX    \* as in Coff

ASSUME FilesAssumption ==
    \A k \in DOMAIN Files : 0 \notin Range(Files[k].path)
ASSUME Limit16Assumption == UINT16_MAX \in Nat

VARIABLES
    format,                                           \* of the line table
    step, next, current, out, reloc,                  \* DebugLine
    coff_pc, coff_todo, coff_headers, hdr, coff_file  \* Coff

tableVars == <<step, next, current, out, reloc>>
coffVars == <<coff_pc, coff_todo, coff_headers, hdr, coff_file>>
elfVars == <<pc, todo, file, headers, ehdr>>
allVars == <<in, format, tableVars, coffVars, elfVars>>

Table == INSTANCE DebugLine WITH
    lines <- in.lines, text_size <- in.size.TEXT, pc <- step,
    Rows <- {i.lines : i \in Inputs}, TextSizes <- {i.size.TEXT : i \in Inputs}

CoffWriter == INSTANCE Coff WITH
    pc <- coff_pc, todo <- coff_todo, headers <- coff_headers, file <- coff_file

\* The writer that comes first for the format: DWARF is for ELF.
WriterAt(place) ==
    /\ pc = IF format = "DWARF" THEN place ELSE "idle"
    /\ coff_pc = IF format = "CODEVIEW" THEN place ELSE "idle"

OutputInit ==
    /\ in \in Inputs
    /\ format \in {"DWARF", "CODEVIEW"}
    /\ WriterAt(IF has_debug(in) THEN "table" ELSE "check")
    /\ Start /\ CoffWriter!Start /\ Table!Start

TableStep ==
    /\ "table" \in {pc, coff_pc}
    /\ step \notin {"done", "refused"}
    /\ UNCHANGED in
    /\ Table!Next
    /\ UNCHANGED <<coffVars, elfVars>>

\* Wrong form: both patches of CodeView are said to be at one place.
TableRelocationsAtOnePlace ==
    IF format = "DWARF" THEN <<reloc>> ELSE <<reloc, reloc>>

\* address_relocation_offset; section_offset_relocation and, after its four
\* bytes, section_index_relocation.
TableRelocations ==
    IF format = "DWARF" THEN <<reloc>> ELSE <<reloc, reloc + 4>>

\* The table, or the failure to make it, goes to the writer that waits.
UseTable ==
    /\ "table" \in {pc, coff_pc}
    /\ step \in {"done", "refused"}
    /\ in' = [in EXCEPT !.table = [ok |-> step = "done", size |-> Len(out),
                                   relocs |-> TableRelocations]]
    /\ pc' = IF pc = "table" THEN "check" ELSE pc
    /\ coff_pc' = IF coff_pc = "table" THEN "check" ELSE coff_pc
    /\ UNCHANGED <<format, tableVars, coff_todo, coff_headers, hdr, coff_file,
                   todo, file, headers, ehdr>>

ElfStep ==
    /\ pc \notin {"idle", "table"}
    /\ Next
    /\ UNCHANGED <<format, tableVars, coffVars>>

CoffStep ==
    /\ coff_pc \notin {"idle", "table"}
    /\ CoffWriter!Next
    /\ UNCHANGED <<format, tableVars, elfVars>>

OutputNext == TableStep \/ UseTable \/ ElfStep \/ CoffStep

OutputSpec == OutputInit /\ [][OutputNext]_allVars

-----------------------------------------------------------------------------
(* The properties of the parts; those of Elf64 keep their names *)

(***************************************************************************)
(* output_write_coff: the pointers computed before the first byte was      *)
(* written point at the pieces written afterwards, and what .align asked   *)
(* for survives into the flags.                                            *)
(***************************************************************************)
CoffSectionsReadBack == CoffWriter!CoffSectionsReadBack

(***************************************************************************)
(* output_write_coff: every name is in the symbol table once, with its     *)
(* value, class and section, in place or through the string table, and the *)
(* indices of the relocations lead to their names.                         *)
(***************************************************************************)
CoffSymbolsReadBack == CoffWriter!CoffSymbolsReadBack

(***************************************************************************)
(* output_build_dwarf_line, output_build_codeview_line: readers of the two *)
(* formats, DWARF's own machine among them, get every row back, and the    *)
(* patched lengths and offsets are right.                                  *)
(***************************************************************************)
LineTableReadsBack == Table!LineTableReadsBack

-----------------------------------------------------------------------------
(* A property of the whole *)

Zero(from, to) == \A p \in from .. to : Table!At(out, p) = 0

(***************************************************************************)
(* The object asks the linker to patch the line table exactly where a      *)
(* reader of the table expects an address: the operand of DWARF's set-     *)
(* address, or the section offset and number in front of CodeView's lines. *)
(* The fields hold zeros until then, and the section of the object is as   *)
(* long as the table.                                                      *)
(***************************************************************************)
LineTableIsPatched ==
    has_debug(in) =>
    /\ pc = "done" =>
        /\ rela_debug(in).offset = Table!DwarfRead(out).set_at
        /\ Zero(rela_debug(in).offset, rela_debug(in).offset + 7)
        /\ Piece(file, "DEBUG").size = Len(out)
    /\ coff_pc = "done" =>
        LET patches   == CoffWriter!relocations(in, "DEBUG")
            strings   == Table!CodeViewSubsection(out, 4)
            checksums == Table!CodeViewSubsection(out, strings.after)
            rows      == Table!CodeViewSubsection(out, checksums.after)
        IN  /\ patches[1].offset = rows.at /\ patches[2].offset = rows.at + 4
            /\ Zero(rows.at, rows.at + 5)
            /\ Piece(coff_file, "DEBUG").size = Len(out)
=============================================================================
