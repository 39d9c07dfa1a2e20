------------------------------ MODULE SymTable ------------------------------
(***************************************************************************)
(* The symbol table of src/symtable/symtable.c: SYMTABLE_BUCKETS chains of *)
(* entries, a name living in the chain its hash selects, new entries at    *)
(* the head; and the symbol list that src/output/symbols.c collects from   *)
(* the chains for the object writers.                                      *)
(***************************************************************************)
EXTENDS SymbolList, FiniteSets

CONSTANTS
    Names,     \* symbol names
    Buckets,   \* SYMTABLE_BUCKETS
    Hash,      \* [Names -> Nat], the FNV value hash_str computes
    Places     \* <<section, offset>> pairs a label may be defined at

ASSUME BucketsAssumption == Buckets \in Nat \ {0}
ASSUME HashAssumption == Hash \in [Names -> Nat]
ASSUME PlacesAssumption == Places \subseteq Section \X Int

VARIABLES
    buckets,    \* the chains, [0 .. Buckets-1 -> sequences of [name, entry]]
    count,      \* st->count
    answer,     \* what the last call returned
    asked,      \* history: [Names -> facts any call, accepted or not, claimed]
    redefined,  \* history: names a second definition was asked for
    refused     \* history: names some call about which returned false

vars == <<buckets, count, answer, asked, redefined, refused>>

-----------------------------------------------------------------------------
(* hash_str and find_entry *)

BucketOf(n) == Hash[n] % Buckets

\* Wrong form: only the head of the chain is looked at.
find_entry_head(n) ==
    IF buckets[BucketOf(n)] # <<>> /\ buckets[BucketOf(n)][1].name = n THEN 1 ELSE 0

\* Position of the first node of n in its chain, 0 for NULL.
find_entry(n) ==
    SelectInSeq(buckets[BucketOf(n)], LAMBDA node : node.name = n)

EntryOf(n) ==
    IF find_entry(n) = 0 THEN ZeroEntry
    ELSE buckets[BucketOf(n)][find_entry(n)].entry

\* Write e over the entry of n, or put a new node at the head of the chain.
Store(n, e) ==
    IF find_entry(n) # 0
    THEN /\ buckets' = [buckets EXCEPT ![BucketOf(n)][find_entry(n)].entry = e]
         /\ UNCHANGED count
    ELSE /\ buckets' = [buckets EXCEPT ![BucketOf(n)] =
                            <<[name |-> n, entry |-> e]>> \o @]
         /\ count' = count + 1

\* One call: store the new entry and return true, or refuse and touch nothing.
CallIf(accepted, n, e) ==
    /\ answer' = accepted
    /\ IF accepted THEN Store(n, e) ELSE UNCHANGED <<buckets, count>>
    /\ refused' = IF accepted THEN refused ELSE refused \union {n}

Asking(n, claim) ==
    /\ asked' = [asked EXCEPT ![n] = @ \union claim]
    /\ redefined' = IF "defined" \in claim /\ "defined" \in asked[n]
                    THEN redefined \union {n} ELSE redefined

-----------------------------------------------------------------------------
(* The table as the collection loops walk it, and the list they collect *)

Nodes == FlattenSeq([b \in 1 .. Buckets |-> buckets[b - 1]])

output_symbols == output_symbols_collect(Nodes)

-----------------------------------------------------------------------------
Rules == INSTANCE SymbolRules WITH
    facts <- [n \in Names |->
        LET e == EntryOf(n) IN
              (IF e.defined THEN {"defined"} ELSE {})
        \union (IF e.external_declared THEN {"external"} ELSE {})
        \union (IF ~e.binding_declared THEN {}
                ELSE IF e.binding = "GLOBAL" THEN {"global"} ELSE {"local"})]

Init ==
    /\ buckets = [b \in 0 .. Buckets - 1 |-> <<>>]
    /\ count = 0
    /\ answer = TRUE
    /\ asked = [n \in Names |-> {}]
    /\ redefined = {}
    /\ refused = {}

symtable_insert_section(n, section, offset) ==
    /\ CallIf(CanInsert(EntryOf(n)), n, Insert(EntryOf(n), section, offset))
    /\ Asking(n, Rules!Definition)

symtable_declare_binding(n, binding) ==
    /\ CallIf(CanDeclareBinding(EntryOf(n), binding), n,
              DeclareBinding(EntryOf(n), binding))
    /\ Asking(n, IF binding = "GLOBAL" THEN Rules!Global ELSE Rules!Local)

symtable_declare_external(n) ==
    /\ CallIf(CanDeclareExternal(EntryOf(n)), n, DeclareExternal(EntryOf(n)))
    /\ Asking(n, Rules!External)

Next ==
    \E n \in Names :
        \/ \E p \in Places : symtable_insert_section(n, p[1], p[2])
        \/ \E b \in Binding : symtable_declare_binding(n, b)
        \/ symtable_declare_external(n)

Spec == Init /\ [][Next]_vars

-----------------------------------------------------------------------------
(***************************************************************************)
(* symtable.h: "A declaration may precede the label definition".  Whether  *)
(* the calls about a name are all accepted depends only on which calls     *)
(* were made, never on their order: some call about n was refused exactly  *)
(* when the claims made for n contradict each other or define n twice.     *)
(***************************************************************************)
AcceptanceIsOrderFree ==
    \A n \in Names :
        n \in refused <=> n \in redefined \/ ~Rules!Consistent(asked[n])

(***************************************************************************)
(* A node only ever sits in the chain its name hashes to.  The list handed *)
(* to the writers (output_symbols_collect) holds each defined or external  *)
(* name exactly once and no other, count agrees with it (the index !=      *)
(* count test never fails), every local comes before local_count and every *)
(* global after it, and the index a relocation finds is that of its own    *)
(* symbol.                                                                 *)
(***************************************************************************)
OutputListIsExact ==
    /\ \A b \in DOMAIN buckets : \A k \in DOMAIN buckets[b] :
           BucketOf(buckets[b][k].name) = b
    /\ Len(output_symbols) = count_output_symbols(Nodes)
    /\ Cardinality({node.name : node \in Range(Nodes)}) = count
    /\ \A n \in Names :
        LET i == output_symbols_find_index(output_symbols, n) IN
        /\ i # 0 <=> IsOutputSymbol(EntryOf(n))
        /\ i # 0 => /\ output_symbols[i] = [name |-> n, entry |-> EntryOf(n)]
                    /\ (i <= LocalCount(Nodes)) = (EntryOf(n).binding = "LOCAL")
                    /\ \A j \in DOMAIN output_symbols :
                           output_symbols[j].name = n => j = i

(***************************************************************************)
(* A later call never moves a defined symbol, changes a declared binding,  *)
(* or forgets a declaration.                                               *)
(***************************************************************************)
EntriesAreFinal ==
    [][\A n \in Names :
        LET e == EntryOf(n)
            f == EntryOf(n)'
        IN  /\ e.defined => /\ f.defined
                            /\ f.section = e.section /\ f.offset = e.offset
            /\ e.binding_declared => f.binding_declared /\ f.binding = e.binding
            /\ e.external_declared => f.external_declared]_vars

(***************************************************************************)
(* The hash table implements the abstract rules: each call's answer and    *)
(* effect on the facts are those of SymbolRules.                           *)
(***************************************************************************)
ImplementsRules == Rules!Spec
=============================================================================
