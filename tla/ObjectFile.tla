----------------------------- MODULE ObjectFile -----------------------------
(***************************************************************************)
(* What both object writers are given (OutputInput in src/output/output.h) *)
(* and how they pile bytes up: a file is a sequence of pieces, a piece is  *)
(* what it holds, where it starts and how long it is; a string table is    *)
(* the texts added to it and where each one starts.                        *)
(*                                                                         *)
(* An input is a record of: size, the bytes of each section; alignment,    *)
(* the largest .align of each data section (0 for none); nodes, the symbol *)
(* table in walking order; relocs, pass 2's relocation list; lines, its    *)
(* debug rows, and table, the line table made of them: whether it could be *)
(* made, its size and where it is to be relocated; source_len, the length  *)
(* of the source name.                                                     *)
(***************************************************************************)
EXTENDS SymbolList

CONSTANTS
    Names,        \* symbol names
    NameLen,      \* [Names -> Nat], bytes of a name
    UINT32_MAX,   \* the limit of the 32-bit fields, scaled down for TLC
    Inputs        \* the inputs to write

ASSUME NameLenAssumption == NameLen \in [Names -> Nat \ {0}]
ASSUME LimitAssumption == UINT32_MAX \in Nat

DataSections == {"DATA", "RODATA", "BSS"}

has(in, s) == s = "TEXT" \/ in.size[s] > 0
has_debug(in) == in.lines # <<>>

Symbols(in) == output_symbols_collect(in.nodes)
RelocsIn(in, s) == SelectSeq(in.relocs, LAMBDA r : r.section = s)

relocations_have_symbols(in) ==
    \A r \in Range(in.relocs) :
        output_symbols_find_index(Symbols(in), r.symbol) # 0

\* output_symbols_collect fails when an index would not fit its field.
SymbolCountFits(in) == count_output_symbols(in.nodes) <= UINT32_MAX - 1

Narrow32(n) == n % (UINT32_MAX + 1)

-----------------------------------------------------------------------------
(* The output buffer *)

End(file) == IF file = <<>> THEN 0 ELSE Last(file).at + Last(file).size

AlignUp(n, alignment) == n + ((alignment - (n % alignment)) % alignment)

Place(file, what, size, alignment) ==
    Append(file, [what |-> what, at |-> AlignUp(End(file), alignment),
                  size |-> size])

Piece(file, what) == file[SelectInSeq(file, LAMBDA p : p.what = what)]

-----------------------------------------------------------------------------
(* String tables *)

strtab_add(st, text, len) ==
    [texts |-> Append(st.texts, [text |-> text, at |-> st.size]),
     size |-> st.size + len + 1]

\* The text that starts at an offset of the finished table.
TextAt(st, offset) ==
    LET k == SelectInSeq(st.texts, LAMBDA t : t.at = offset)
    IN  IF k = 0 THEN "none" ELSE st.texts[k].text
=============================================================================
