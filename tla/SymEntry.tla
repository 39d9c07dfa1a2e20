------------------------------ MODULE SymEntry ------------------------------
(***************************************************************************)
(* One entry of the symbol table (src/symtable/symtable.c): its fields and *)
(* what each table operation does to it.  ARENA_ALLOC returns zeroed       *)
(* memory, so the operations that create an entry write exactly what the   *)
(* same operation writes over ZeroEntry; a name without an entry is        *)
(* therefore read as ZeroEntry.                                            *)
(***************************************************************************)
EXTENDS Integers

Section == {"TEXT", "DATA", "RODATA", "BSS"}
Binding == {"LOCAL", "GLOBAL"}

Entry == [offset : Int, section : Section \union {"UNKNOWN"},
          binding : Binding, defined : BOOLEAN,
          binding_declared : BOOLEAN, external_declared : BOOLEAN]

ZeroEntry == [offset |-> 0, section |-> "UNKNOWN", binding |-> "LOCAL",
              defined |-> FALSE, binding_declared |-> FALSE,
              external_declared |-> FALSE]

-----------------------------------------------------------------------------
(* Whether each operation returns true, and the entry it then leaves.      *)

\* Wrong form: the last definition of a name wins.
CanInsertAnything(e) == TRUE

CanInsert(e) == ~e.defined /\ ~e.external_declared

\* Wrong form: every label is a label of .text.
InsertInText(e, section, offset) ==
    [e EXCEPT !.offset = offset, !.section = "TEXT", !.defined = TRUE]

Insert(e, section, offset) ==
    [e EXCEPT !.offset = offset, !.section = section, !.defined = TRUE]

\* Wrong form: the last visibility of a name wins.
CanDeclareBindingAlways(e, binding) == TRUE

CanDeclareBinding(e, binding) ==
    e.binding_declared => e.binding = binding

DeclareBinding(e, binding) ==
    [e EXCEPT !.binding = binding, !.binding_declared = TRUE]

\* Wrong form: an external declaration may follow the definition.
CanDeclareExternalOverDefinition(e) ==
    e.binding_declared => e.binding = "GLOBAL"

CanDeclareExternal(e) ==
    /\ ~e.defined
    /\ e.binding_declared => e.binding = "GLOBAL"

DeclareExternal(e) ==
    [e EXCEPT !.section = "UNKNOWN", !.binding = "GLOBAL",
              !.binding_declared = TRUE, !.external_declared = TRUE]

-----------------------------------------------------------------------------
(* What the readers of the table ask of an entry.                          *)

IsExternal(e) == e.external_declared /\ ~e.defined

\* The entries output_symbols_collect copies into the object's symbol table.
IsOutputSymbol(e) == e.defined \/ e.external_declared

\* The entries report_undefined_visibility_symbols complains about.
IsUndefinedVisibility(e) ==
    ~e.defined /\ ~e.external_declared /\ e.binding_declared
=============================================================================
