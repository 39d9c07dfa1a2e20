----------------------------- MODULE SymbolList -----------------------------
(***************************************************************************)
(* The object's symbol list (src/output/symbols.c): what the writers are   *)
(* given of the symbol table.  `nodes' is the table as the collection      *)
(* loops walk it, bucket by bucket and along each chain.                   *)
(***************************************************************************)
EXTENDS SymEntry, Sequences, SequencesExt

\* Entries output_symbols_collect counts before it allocates.
count_output_symbols(nodes) ==
    Len(SelectSeq(nodes, LAMBDA node : IsOutputSymbol(node.entry)))

collect_binding(nodes, binding) ==
    SelectSeq(nodes, LAMBDA node : /\ IsOutputSymbol(node.entry)
                                   /\ node.entry.binding = binding)

output_symbols_collect(nodes) ==
    collect_binding(nodes, "LOCAL") \o collect_binding(nodes, "GLOBAL")

LocalCount(nodes) == Len(collect_binding(nodes, "LOCAL"))

\* The index a relocation against n is given, 0 when the writer must refuse it.
output_symbols_find_index(list, n) ==
    SelectInSeq(list, LAMBDA node : node.name = n)
=============================================================================
