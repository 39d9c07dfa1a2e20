------------------------------ MODULE MCObject ------------------------------
(***************************************************************************)
(* The inputs both writers are run on.  Sections are empty or not, with    *)
(* sizes that are and are not multiples of eight; of the three names, b is *)
(* longer than the eight bytes a COFF symbol holds in place and c is long  *)
(* enough to fill the string tables (UINT32_MAX is 20000 in the runs); a   *)
(* relocation may name a symbol that is not in the table, which the        *)
(* writers must refuse.                                                    *)
(***************************************************************************)
EXTENDS Integers, Sequences

MCNames == {"a", "b", "c"}
MCNameLen == [a |-> 3, b |-> 9, c |-> 19985]

Sizes == {[TEXT |-> t, DATA |-> d, RODATA |-> r, BSS |-> b] :
              t \in {0, 13}, d \in {0, 8}, r \in {0, 17}, b \in {0, 4}}

Node(name, section, offset, binding, defined, external) ==
    [name |-> name,
     entry |-> [offset |-> offset, section |-> section, binding |-> binding,
                defined |-> defined, binding_declared |-> binding = "GLOBAL",
                external_declared |-> external]]

Label(name, section, offset) == Node(name, section, offset, "LOCAL", TRUE, FALSE)
Global(name, section, offset) == Node(name, section, offset, "GLOBAL", TRUE, FALSE)
External(name) == Node(name, "UNKNOWN", 0, "GLOBAL", FALSE, TRUE)

Tables ==
    {<<>>,
     <<Label("a", "TEXT", 0)>>,
     <<Global("c", "TEXT", 0)>>,
     <<Global("a", "DATA", 0), Label("b", "RODATA", 0)>>,
     <<External("b"), Label("a", "BSS", 0)>>,
     <<External("a"), Global("b", "RODATA", 0), Label("c", "DATA", 0)>>}

Reloc(section, offset, symbol, kind, addend) ==
    [section |-> section, offset |-> offset, symbol |-> symbol, kind |-> kind,
     addend |-> addend]

RelocLists ==
    {<<>>,
     <<Reloc("TEXT", 2, "a", "PC32", -4)>>,
     <<Reloc("RODATA", 0, "b", "ABS64", 0), Reloc("TEXT", 5, "a", "ABS64", 0),
       Reloc("RODATA", 8, "a", "ABS64", 0)>>,
     <<Reloc("RODATA", 0, "a", "ABS64", 0), Reloc("RODATA", 8, "a", "ABS64", 0),
       Reloc("RODATA", 9, "a", "ABS64", 0)>>,
     <<Reloc("DATA", 0, "b", "ABS64", 0), Reloc("TEXT", 1, "b", "PC32", -4)>>}

Row(offset, file_id, line, column) ==
    [offset |-> offset, file_id |-> file_id, line |-> line, column |-> column]

\* No rows, rows that make a table, and rows that the builders refuse.
RowLists == {<<>>, <<Row(0, 7, 1, 0), Row(5, 3, 64, 2)>>, <<Row(14, 7, 1, 0)>>}

NoTable == [ok |-> FALSE, size |-> 0, relocs |-> <<>>]

\* A section with relocations, or with debug rows, is not empty.
Possible(i) ==
    /\ \A k \in DOMAIN i.relocs : i.size[i.relocs[k].section] > 0
    /\ i.lines # <<>> => i.size.TEXT > 0

MCInputs ==
    {i \in [size : Sizes, nodes : Tables, relocs : RelocLists,
            lines : RowLists, table : {NoTable}, source_len : {6, 12},
            alignment : {[DATA |-> 0, RODATA |-> 0, BSS |-> 0],
                         [DATA |-> 32, RODATA |-> 2, BSS |-> 16]}] :
        Possible(i)}
=============================================================================
