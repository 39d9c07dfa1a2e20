--------------------------- MODULE SymTableProof ----------------------------
(***************************************************************************)
(* Proof that the symbol table of src/symtable/symtable.c implements the   *)
(* rules of SymbolRules, whatever the names, the hash and the number of    *)
(* buckets.  WellFoundedInduction is used for one fact: a nonempty set of  *)
(* numbers has a least element.                                            *)
(***************************************************************************)
EXTENDS SymTable, WellFoundedInduction, TLAPS

-----------------------------------------------------------------------------
(* Searching a chain *)

\* Min of FiniteSetsExt is the least element of a nonempty set of numbers.
LEMMA MinOfNaturals ==
    ASSUME NEW T, T \subseteq Nat, T # {}
    PROVE  Min(T) \in T /\ \A y \in T : Min(T) <= y
<1> DEFINE R == {ss \in Nat \X Nat : ss[1] < ss[2]}
<1>0. IsWellFoundedOn(R, Nat)
  BY NatLessThanWellFounded DEF OpToRel
<1>1. PICK x \in T : \A y \in T : ~(<<y, x>> \in R)
  <2> HIDE DEF R
  <2> QED BY <1>0, WFMin
<1>2. \A y \in T : ~(y < x)
  BY <1>1
<1>3. \A y \in T : x <= y
  BY <1>2
<1> QED BY <1>3 DEF Min

Node == [name : Names, entry : Entry]

\* find_entry on one chain: the position of the first node named n, 0 for NULL.
Position(chain, n) ==
    LET I == {k \in 1 .. Len(chain) : chain[k].name = n}
    IN  IF I # {} THEN Min(I) ELSE 0

\* No name has two nodes in the chain.
Distinct(chain) ==
    \A j, k \in 1 .. Len(chain) : chain[j].name = chain[k].name => j = k

\* What find_entry answers when n has a node: the place of that node.
LEMMA PositionFound ==
    ASSUME NEW chain \in Seq(Node), Distinct(chain), NEW n,
           NEW k \in 1 .. Len(chain), chain[k].name = n
    PROVE  Position(chain, n) = k
<1> DEFINE I == {j \in 1 .. Len(chain) : chain[j].name = n}
<1>1. I \subseteq Nat /\ k \in I
  OBVIOUS
<1>2. Position(chain, n) = Min(I)
  BY <1>1 DEF Position
<1>3. Min(I) \in I
  <2> HIDE DEF I
  <2> QED BY <1>1, MinOfNaturals
<1>4. \A j \in I : j = k
  BY DEF Distinct
<1> QED BY <1>2, <1>3, <1>4

\* What find_entry answers when n has no node: NULL.
LEMMA PositionMissing ==
    ASSUME NEW chain \in Seq(Node), NEW n,
           \A k \in 1 .. Len(chain) : chain[k].name # n
    PROVE  Position(chain, n) = 0
BY DEF Position

LEMMA FindEntryIsPosition ==
    ASSUME NEW n
    PROVE  /\ find_entry(n) = Position(buckets[BucketOf(n)], n)
           /\ find_entry(n)' = Position(buckets'[BucketOf(n)], n)
BY DEF find_entry, SelectInSeq, Position, BucketOf

-----------------------------------------------------------------------------
(* The inductive invariant *)

\* Chains of nodes, each node in the chain its name hashes to, once.
ChainsOK ==
    /\ buckets \in [0 .. Buckets - 1 -> Seq(Node)]
    /\ \A b \in 0 .. Buckets - 1 :
        /\ Distinct(buckets[b])
        /\ \A k \in 1 .. Len(buckets[b]) : BucketOf(buckets[b][k].name) = b

\* An external entry is a global one that is not defined.
EntryOK(e) ==
    /\ e \in Entry
    /\ e.external_declared =>
        e.binding_declared /\ e.binding = "GLOBAL" /\ ~e.defined

\* The facts an entry stands for, as the refinement mapping reads them.
FactsOf(e) ==
    (IF e.defined THEN {"defined"} ELSE {})
    \union (IF e.external_declared THEN {"external"} ELSE {})
    \union (IF ~e.binding_declared THEN {}
            ELSE IF e.binding = "GLOBAL" THEN {"global"} ELSE {"local"})

\* As long as nothing about n was refused, its entry holds all that was asked;
\* once something was, the claims made for n do contradict each other.
HistoryOK(n) ==
    /\ FactsOf(EntryOf(n)) \subseteq asked[n]
    /\ n \notin refused => FactsOf(EntryOf(n)) = asked[n] /\ n \notin redefined
    /\ n \in refused => n \in redefined \/ ~Rules!Consistent(asked[n])

TableInv ==
    /\ ChainsOK
    /\ asked \in [Names -> SUBSET Rules!Fact]
    /\ \A n \in Names : EntryOK(EntryOf(n)) /\ HistoryOK(n)

-----------------------------------------------------------------------------
(* Reading and writing one entry *)

LEMMA BucketExists ==
    ASSUME NEW n \in Names
    PROVE  BucketOf(n) \in 0 .. Buckets - 1
<1>1. Hash[n] \in Nat /\ Buckets \in Nat /\ Buckets > 0
  BY HashAssumption, BucketsAssumption
<1> QED BY <1>1 DEF BucketOf

\* find_entry returns NULL exactly when the chain has no node of that name,
\* and otherwise the place of its node.
LEMMA FindEntryFacts ==
    ASSUME ChainsOK, NEW n \in Names
    PROVE  LET chain == buckets[BucketOf(n)] IN
           /\ chain \in Seq(Node)
           /\ find_entry(n) = 0 <=> \A k \in 1 .. Len(chain) : chain[k].name # n
           /\ find_entry(n) # 0 => /\ find_entry(n) \in 1 .. Len(chain)
                                   /\ chain[find_entry(n)].name = n
<1> DEFINE chain == buckets[BucketOf(n)]
<1>1. chain \in Seq(Node) /\ Distinct(chain)
  BY BucketExists DEF ChainsOK
<1>2. find_entry(n) = Position(chain, n)
  BY FindEntryIsPosition
<1> HIDE DEF chain
<1>3. CASE \A k \in 1 .. Len(chain) : chain[k].name # n
  BY <1>1, <1>2, <1>3, PositionMissing DEF chain
<1>4. ASSUME NEW k \in 1 .. Len(chain), chain[k].name = n
      PROVE  find_entry(n) = k
  BY <1>1, <1>2, <1>4, PositionFound
<1>5. CASE \E k \in 1 .. Len(chain) : chain[k].name = n
  <2>1. PICK k \in 1 .. Len(chain) : chain[k].name = n
    BY <1>5
  <2>2. find_entry(n) = k /\ k # 0
    BY <1>4, <2>1
  <2> QED BY <1>1, <2>1, <2>2 DEF chain
<1> QED BY <1>3, <1>5

\* The entry find_entry leads to in one chain.
EntryIn(chain, n) ==
    IF Position(chain, n) = 0 THEN ZeroEntry ELSE chain[Position(chain, n)].entry

LEMMA EntryOfIsEntryIn ==
    ASSUME NEW n
    PROVE  /\ EntryOf(n) = EntryIn(buckets[BucketOf(n)], n)
           /\ EntryOf(n)' = EntryIn(buckets'[BucketOf(n)], n)
<1>1. EntryOf(n) = EntryIn(buckets[BucketOf(n)], n)
  BY FindEntryIsPosition DEF EntryOf, EntryIn
<1>2. EntryOf(n)' = IF find_entry(n)' = 0 THEN ZeroEntry
                    ELSE buckets'[BucketOf(n)][find_entry(n)'].entry
  BY DEF EntryOf, BucketOf
<1> QED BY <1>1, <1>2, FindEntryIsPosition DEF EntryIn

\* Two chains with the same nodes named n lead to the same entry of n.
LEMMA EntryInTransfers ==
    ASSUME NEW old \in Seq(Node), NEW new \in Seq(Node), Distinct(old), Distinct(new),
           NEW n,
           \A k \in 1 .. Len(old) : old[k].name = n =>
               \E j \in 1 .. Len(new) : new[j] = old[k],
           \A j \in 1 .. Len(new) : new[j].name = n =>
               \E k \in 1 .. Len(old) : old[k].name = n
    PROVE  EntryIn(new, n) = EntryIn(old, n)
<1>1. CASE \E k \in 1 .. Len(old) : old[k].name = n
  <2>1. PICK k \in 1 .. Len(old) : old[k].name = n
    BY <1>1
  <2>2. PICK j \in 1 .. Len(new) : new[j] = old[k]
    BY <2>1
  <2>3. Position(old, n) = k /\ Position(new, n) = j
    BY <2>1, <2>2, PositionFound
  <2>4. k # 0 /\ j # 0
    OBVIOUS
  <2> QED BY <2>2, <2>3, <2>4 DEF EntryIn
<1>2. CASE \A k \in 1 .. Len(old) : old[k].name # n
  <2>1. Position(old, n) = 0 /\ Position(new, n) = 0
    BY <1>2, PositionMissing
  <2> QED BY <2>1 DEF EntryIn
<1> QED BY <1>1, <1>2

\* Writing over the entry of a node.
LEMMA ReplaceEntry ==
    ASSUME NEW chain \in Seq(Node), Distinct(chain), NEW e \in Entry,
           NEW n \in Names, NEW k \in 1 .. Len(chain), chain[k].name = n
    PROVE  LET new == [chain EXCEPT ![k].entry = e] IN
           /\ new \in Seq(Node) /\ Distinct(new) /\ Len(new) = Len(chain)
           /\ \A j \in 1 .. Len(chain) : new[j].name = chain[j].name
           /\ EntryIn(new, n) = e
           /\ \A m \in Names \ {n} : EntryIn(new, m) = EntryIn(chain, m)
<1> DEFINE new == [chain EXCEPT ![k].entry = e]
<1>1. chain[k] \in Node
  OBVIOUS
<1>2. [chain[k] EXCEPT !.entry = e] = [name |-> n, entry |-> e]
  BY <1>1 DEF Node
<1>3. new = [chain EXCEPT ![k] = [name |-> n, entry |-> e]]
  BY <1>2
<1>4. [name |-> n, entry |-> e] \in Node
  BY DEF Node
<1> HIDE DEF new
<1>5. new \in Seq(Node) /\ Len(new) = Len(chain)
  BY <1>3, <1>4
<1>6. \A j \in 1 .. Len(chain) :
        new[j] = IF j = k THEN [name |-> n, entry |-> e] ELSE chain[j]
  BY <1>3
<1>7. \A j \in 1 .. Len(chain) : new[j].name = chain[j].name
  BY <1>6
<1>8. Distinct(new)
  BY <1>5, <1>7 DEF Distinct
<1>9. EntryIn(new, n) = e
  <2>1. new[k].name = n /\ new[k].entry = e /\ k # 0
    BY <1>6
  <2>2. Position(new, n) = k
    BY <1>5, <1>8, <2>1, PositionFound
  <2> QED BY <2>1, <2>2 DEF EntryIn
<1>10. ASSUME NEW m \in Names \ {n} PROVE EntryIn(new, m) = EntryIn(chain, m)
  <2>1. \A j \in 1 .. Len(chain) : chain[j].name = m =>
            \E l \in 1 .. Len(new) : new[l] = chain[j]
    BY <1>5, <1>6
  <2>2. \A l \in 1 .. Len(new) : new[l].name = m =>
            \E j \in 1 .. Len(chain) : chain[j].name = m
    BY <1>5, <1>7
  <2> QED BY <1>5, <1>8, <2>1, <2>2, EntryInTransfers
<1> QED BY <1>5, <1>7, <1>8, <1>9, <1>10 DEF new

\* A new node at the head of the chain.
LEMMA PrependNode ==
    ASSUME NEW chain \in Seq(Node), Distinct(chain), NEW e \in Entry,
           NEW n \in Names, \A k \in 1 .. Len(chain) : chain[k].name # n
    PROVE  LET new == <<[name |-> n, entry |-> e]>> \o chain IN
           /\ new \in Seq(Node) /\ Distinct(new) /\ Len(new) = Len(chain) + 1
           /\ new[1].name = n
           /\ \A j \in 1 .. Len(chain) : new[j + 1] = chain[j]
           /\ EntryIn(new, n) = e
           /\ \A m \in Names \ {n} : EntryIn(new, m) = EntryIn(chain, m)
<1> DEFINE node == [name |-> n, entry |-> e]
           new  == <<node>> \o chain
<1>1. node \in Node /\ node.name = n /\ node.entry = e
  BY DEF Node
<1> HIDE DEF node
<1>2. new \in Seq(Node) /\ Len(new) = Len(chain) + 1 /\ Len(chain) \in Nat
  BY <1>1
<1>3. new[1] = node /\ \A j \in 1 .. Len(chain) : new[j + 1] = chain[j]
  BY <1>1
<1> HIDE DEF new
<1>4. \A j \in 1 .. Len(new) : j = 1 \/ (j - 1 \in 1 .. Len(chain) /\ new[j] = chain[j - 1])
  <2> TAKE j \in 1 .. Len(new)
  <2>1. j # 1 => j - 1 \in 1 .. Len(chain) /\ (j - 1) + 1 = j
    BY <1>2
  <2> QED BY <1>3, <2>1
<1>5. Distinct(new)
  <2> SUFFICES ASSUME NEW j \in 1 .. Len(new), NEW l \in 1 .. Len(new),
                      new[j].name = new[l].name
               PROVE  j = l
    BY DEF Distinct
  <2>1. CASE j = 1 \/ l = 1
    BY <1>1, <1>3, <1>4, <2>1
  <2>2. CASE j # 1 /\ l # 1
    BY <1>4, <2>2 DEF Distinct
  <2> QED BY <2>1, <2>2
<1>6. EntryIn(new, n) = e
  <2>1. 1 \in 1 .. Len(new)
    BY <1>2
  <2>2. Position(new, n) = 1
    BY <1>1, <1>2, <1>3, <1>5, <2>1, PositionFound
  <2> QED BY <1>1, <1>3, <2>2 DEF EntryIn
<1>7. ASSUME NEW m \in Names \ {n} PROVE EntryIn(new, m) = EntryIn(chain, m)
  <2>1. \A j \in 1 .. Len(chain) : chain[j].name = m =>
            \E l \in 1 .. Len(new) : new[l] = chain[j]
    <3> TAKE j \in 1 .. Len(chain)
    <3>1. j + 1 \in 1 .. Len(new)
      BY <1>2
    <3> QED BY <1>3, <3>1
  <2>2. \A l \in 1 .. Len(new) : new[l].name = m =>
            \E j \in 1 .. Len(chain) : chain[j].name = m
    BY <1>1, <1>3, <1>4
  <2> QED BY <1>2, <1>5, <2>1, <2>2, EntryInTransfers
<1> QED BY <1>1, <1>2, <1>3, <1>5, <1>6, <1>7 DEF new, node

\* The step every operation of symtable.c ends in: the entry of n becomes e,
\* the entry of every other name stays, the chains stay well formed.
LEMMA StoreFacts ==
    ASSUME ChainsOK, NEW n \in Names, NEW e \in Entry, Store(n, e)
    PROVE  /\ ChainsOK'
           /\ EntryOf(n)' = e
           /\ \A m \in Names \ {n} : EntryOf(m)' = EntryOf(m)
<1> DEFINE b     == BucketOf(n)
           chain == buckets[b]
           new   == buckets'[b]
<1>1. b \in 0 .. Buckets - 1 /\ chain \in Seq(Node) /\ Distinct(chain)
  BY BucketExists DEF ChainsOK
<1>2. buckets \in [0 .. Buckets - 1 -> Seq(Node)]
  BY DEF ChainsOK
<1>3. /\ buckets' = [buckets EXCEPT ![b] = new]
      /\ new \in Seq(Node) /\ Distinct(new)
      /\ \A k \in 1 .. Len(new) : BucketOf(new[k].name) = b
      /\ EntryIn(new, n) = e
      /\ \A m \in Names \ {n} : EntryIn(new, m) = EntryIn(chain, m)
  <2>0. \A k \in 1 .. Len(chain) : BucketOf(chain[k].name) = b
    BY <1>1 DEF ChainsOK
  <2>1. CASE find_entry(n) # 0
    <3> DEFINE k == find_entry(n)
               put == [chain EXCEPT ![k].entry = e]
    <3>1. k \in 1 .. Len(chain) /\ chain[k].name = n
      BY <2>1, FindEntryFacts
    <3>2. buckets' = [buckets EXCEPT ![b] = put]
      BY <2>1 DEF Store
    <3>3. new = put
      BY <1>1, <1>2, <3>2
    <3> HIDE DEF k
    <3>4. /\ put \in Seq(Node) /\ Distinct(put) /\ Len(put) = Len(chain)
          /\ \A j \in 1 .. Len(chain) : put[j].name = chain[j].name
          /\ EntryIn(put, n) = e
          /\ \A m \in Names \ {n} : EntryIn(put, m) = EntryIn(chain, m)
      BY <1>1, <3>1, ReplaceEntry
    <3> HIDE DEF put, new, chain
    <3> QED BY <2>0, <3>2, <3>3, <3>4
  <2>2. CASE find_entry(n) = 0
    <3> DEFINE put == <<[name |-> n, entry |-> e]>> \o chain
    <3>1. \A k \in 1 .. Len(chain) : chain[k].name # n
      BY <2>2, FindEntryFacts
    <3>2. buckets' = [buckets EXCEPT ![b] = put]
      BY <2>2 DEF Store
    <3>3. new = put
      BY <1>1, <1>2, <3>2
    <3>4. /\ put \in Seq(Node) /\ Distinct(put) /\ Len(put) = Len(chain) + 1
          /\ put[1].name = n
          /\ \A j \in 1 .. Len(chain) : put[j + 1] = chain[j]
          /\ EntryIn(put, n) = e
          /\ \A m \in Names \ {n} : EntryIn(put, m) = EntryIn(chain, m)
      BY <1>1, <3>1, PrependNode
    <3> HIDE DEF put
    <3>5. \A k \in 1 .. Len(put) : BucketOf(put[k].name) = b
      <4> TAKE k \in 1 .. Len(put)
      <4>1. CASE k = 1
        BY <3>4, <4>1
      <4>2. CASE k # 1
        <5>1. k - 1 \in 1 .. Len(chain) /\ (k - 1) + 1 = k
          BY <1>1, <3>4, <4>2
        <5>2. put[k] = chain[k - 1]
          BY <3>4, <5>1
        <5> HIDE DEF b, chain
        <5> QED BY <2>0, <5>1, <5>2
      <4> QED BY <4>1, <4>2
    <3> HIDE DEF new, chain
    <3> QED BY <3>2, <3>3, <3>4, <3>5
  <2> QED BY <2>1, <2>2
<1>4. \A c \in 0 .. Buckets - 1 : buckets'[c] = IF c = b THEN new ELSE buckets[c]
  BY <1>2, <1>3
<1>5. ChainsOK'
  <2> HIDE DEF new, b, chain
  <2>1. buckets' \in [0 .. Buckets - 1 -> Seq(Node)]
    BY <1>1, <1>2, <1>3
  <2>2. \A c \in 0 .. Buckets - 1 :
          /\ Distinct(buckets'[c])
          /\ \A k \in 1 .. Len(buckets'[c]) : BucketOf(buckets'[c][k].name) = c
    BY <1>3, <1>4 DEF ChainsOK
  <2> QED BY <2>1, <2>2 DEF ChainsOK, BucketOf
<1>6. EntryOf(n)' = e
  BY <1>3, EntryOfIsEntryIn
<1>7. ASSUME NEW m \in Names \ {n} PROVE EntryOf(m)' = EntryOf(m)
  <2>1. CASE BucketOf(m) = b
    BY <1>3, <2>1, EntryOfIsEntryIn
  <2>2. CASE BucketOf(m) # b
    <3>1. buckets'[BucketOf(m)] = buckets[BucketOf(m)]
      BY <1>4, <2>2, BucketExists
    <3> QED BY <3>1, EntryOfIsEntryIn
  <2> QED BY <2>1, <2>2
<1> QED BY <1>5, <1>6, <1>7

-----------------------------------------------------------------------------
(* Each operation against the rules, on one entry *)

\* From e to f nothing that was settled about the symbol changes.
Keeps(e, f) ==
    /\ e.defined => f.defined /\ f.section = e.section /\ f.offset = e.offset
    /\ e.binding_declared => f.binding_declared /\ f.binding = e.binding
    /\ e.external_declared => f.external_declared

LEMMA FactsOfIsFacts ==
    ASSUME NEW e
    PROVE  FactsOf(e) \in SUBSET Rules!Fact
BY DEF FactsOf, Rules!Fact

\* The facts of a well-formed entry never contradict each other.
LEMMA FactsAreConsistent ==
    ASSUME NEW e, EntryOK(e)
    PROVE  Rules!Consistent(FactsOf(e))
BY DEF FactsOf, EntryOK, Rules!Consistent

\* symtable_insert_section accepts what the rules admit, and no more.
LEMMA InsertRule ==
    ASSUME NEW e, EntryOK(e), NEW p \in Section \X Int
    PROVE  /\ CanInsert(e) <=> Rules!Admissible(FactsOf(e), Rules!Definition)
           /\ CanInsert(e) =>
                LET f == Insert(e, p[1], p[2]) IN
                EntryOK(f) /\ FactsOf(f) = FactsOf(e) \union Rules!Definition /\ Keeps(e, f)
<1>1. p[1] \in Section /\ p[2] \in Int
  OBVIOUS
<1>2. CanInsert(e) <=> Rules!Admissible(FactsOf(e), Rules!Definition)
  BY DEF CanInsert, EntryOK, FactsOf, Rules!Admissible, Rules!Definition, Rules!Consistent
<1>3. ASSUME CanInsert(e)
      PROVE  LET f == Insert(e, p[1], p[2]) IN
             EntryOK(f) /\ FactsOf(f) = FactsOf(e) \union Rules!Definition /\ Keeps(e, f)
  BY <1>1, <1>3 DEF CanInsert, EntryOK, Entry, Insert, FactsOf, Keeps, Rules!Definition
<1> QED BY <1>2, <1>3

\* The facts a visibility directive claims.
BindingClaim(b) == IF b = "GLOBAL" THEN Rules!Global ELSE Rules!Local

LEMMA BindingRule ==
    ASSUME NEW e, EntryOK(e), NEW b \in Binding
    PROVE  /\ CanDeclareBinding(e, b) <=> Rules!Admissible(FactsOf(e), BindingClaim(b))
           /\ CanDeclareBinding(e, b) =>
                LET f == DeclareBinding(e, b) IN
                EntryOK(f) /\ FactsOf(f) = FactsOf(e) \union BindingClaim(b) /\ Keeps(e, f)
<1>1. CanDeclareBinding(e, b) <=> Rules!Admissible(FactsOf(e), BindingClaim(b))
  BY DEF CanDeclareBinding, EntryOK, Entry, Binding, FactsOf, BindingClaim,
         Rules!Admissible, Rules!Global, Rules!Local, Rules!Consistent
<1>2. ASSUME CanDeclareBinding(e, b)
      PROVE  LET f == DeclareBinding(e, b) IN
             EntryOK(f) /\ FactsOf(f) = FactsOf(e) \union BindingClaim(b) /\ Keeps(e, f)
  BY <1>2 DEF CanDeclareBinding, EntryOK, Entry, Binding, DeclareBinding, FactsOf,
              BindingClaim, Keeps, Rules!Global, Rules!Local
<1> QED BY <1>1, <1>2

LEMMA ExternalRule ==
    ASSUME NEW e, EntryOK(e)
    PROVE  /\ CanDeclareExternal(e) <=> Rules!Admissible(FactsOf(e), Rules!External)
           /\ CanDeclareExternal(e) =>
                LET f == DeclareExternal(e) IN
                EntryOK(f) /\ FactsOf(f) = FactsOf(e) \union Rules!External /\ Keeps(e, f)
<1>1. CanDeclareExternal(e) <=> Rules!Admissible(FactsOf(e), Rules!External)
  BY DEF CanDeclareExternal, EntryOK, Entry, Binding, FactsOf, Rules!Admissible,
         Rules!External, Rules!Consistent
<1>2. ASSUME CanDeclareExternal(e)
      PROVE  LET f == DeclareExternal(e) IN
             EntryOK(f) /\ FactsOf(f) = FactsOf(e) \union Rules!External /\ Keeps(e, f)
  BY <1>2 DEF CanDeclareExternal, EntryOK, Entry, Binding, DeclareExternal, FactsOf,
              Keeps, Rules!External
<1> QED BY <1>1, <1>2

-----------------------------------------------------------------------------
(* One call *)

\* The facts of all names, as the refinement mapping reads the table.
Facts == [n \in Names |-> FactsOf(EntryOf(n))]

\* What one call about n with the given claim does to the table, said of the
\* facts: the argument of the operations below.
CallStep(n, claim) ==
    LET ok == Rules!Admissible(FactsOf(EntryOf(n)), claim) IN
    /\ answer' = ok
    /\ refused' = IF ok THEN refused ELSE refused \union {n}
    /\ Asking(n, claim)
    /\ ChainsOK'
    /\ EntryOK(EntryOf(n)')
    /\ FactsOf(EntryOf(n)') =
           IF ok THEN FactsOf(EntryOf(n)) \union claim ELSE FactsOf(EntryOf(n))
    /\ Keeps(EntryOf(n), EntryOf(n)')
    /\ \A m \in Names \ {n} : EntryOf(m)' = EntryOf(m)

\* An accepted call stores an entry with the claimed facts, a refused one
\* touches nothing.
LEMMA CallIfIsCallStep ==
    ASSUME TableInv, NEW n \in Names, NEW claim, NEW accepted, NEW e,
           accepted \in BOOLEAN,
           accepted <=> Rules!Admissible(FactsOf(EntryOf(n)), claim),
           accepted => /\ EntryOK(e) /\ Keeps(EntryOf(n), e)
                       /\ FactsOf(e) = FactsOf(EntryOf(n)) \union claim,
           CallIf(accepted, n, e), Asking(n, claim)
    PROVE  CallStep(n, claim)
<1> DEFINE ok == Rules!Admissible(FactsOf(EntryOf(n)), claim)
<1>1. ok \in BOOLEAN
  BY DEF Rules!Admissible, Rules!Consistent
<1>2. accepted = ok
  <2>1. accepted <=> ok
    OBVIOUS
  <2> HIDE DEF ok
  <2> QED BY <1>1, <2>1
<1>3. answer' = ok /\ refused' = IF ok THEN refused ELSE refused \union {n}
  BY <1>2 DEF CallIf
<1>4. CASE accepted
  <2>1. e \in Entry /\ EntryOK(e) /\ Store(n, e) /\ ChainsOK
    BY <1>4 DEF EntryOK, CallIf, TableInv
  <2>2. /\ ChainsOK' /\ EntryOf(n)' = e
        /\ \A m \in Names \ {n} : EntryOf(m)' = EntryOf(m)
    BY <2>1, StoreFacts
  <2> QED BY <1>3, <1>4, <2>1, <2>2 DEF CallStep
<1>5. CASE ~accepted
  <2>1. buckets' = buckets
    BY <1>5 DEF CallIf
  <2>2. ChainsOK' /\ \A m \in Names : EntryOf(m)' = EntryOf(m)
    BY <2>1, EntryOfIsEntryIn DEF TableInv, ChainsOK, BucketOf
  <2> QED BY <1>3, <1>5, <2>2 DEF CallStep, TableInv, Keeps
<1> QED BY <1>4, <1>5

\* More claims never undo a contradiction.
LEMMA ContradictionsStay ==
    ASSUME NEW S, NEW T, S \subseteq T, ~Rules!Consistent(S)
    PROVE  ~Rules!Consistent(T)
BY DEF Rules!Consistent

LEMMA CallStepKeepsInv ==
    ASSUME TableInv, NEW n \in Names, NEW claim \in SUBSET Rules!Fact,
           CallStep(n, claim)
    PROVE  TableInv'
<1> DEFINE F  == FactsOf(EntryOf(n))
           G  == FactsOf(EntryOf(n)')
           ok == Rules!Admissible(F, claim)
<1>1. asked' = [asked EXCEPT ![n] = @ \union claim]
      /\ redefined' = IF "defined" \in claim /\ "defined" \in asked[n]
                      THEN redefined \union {n} ELSE redefined
  BY DEF CallStep, Asking
<1>2. asked \in [Names -> SUBSET Rules!Fact]
  BY DEF TableInv
<1>3. asked' \in [Names -> SUBSET Rules!Fact] /\ asked'[n] = asked[n] \union claim
      /\ \A m \in Names \ {n} : asked'[m] = asked[m]
  BY <1>1, <1>2
<1>4. /\ F \subseteq asked[n]
      /\ n \notin refused => F = asked[n] /\ n \notin redefined
      /\ n \in refused => n \in redefined \/ ~Rules!Consistent(asked[n])
  BY DEF TableInv, HistoryOK
<1>5. G = (IF ok THEN F \union claim ELSE F)
      /\ refused' = IF ok THEN refused ELSE refused \union {n}
  BY DEF CallStep
<1>6. /\ G \subseteq asked'[n]
      /\ n \notin refused' => G = asked'[n] /\ n \notin redefined'
      /\ n \in refused' => n \in redefined' \/ ~Rules!Consistent(asked'[n])
  <2> HIDE DEF F, G
  <2>1. G \subseteq asked'[n]
    BY <1>3, <1>4, <1>5
  <2>2. CASE ok
    <3>1. refused' = refused /\ G = F \union claim
      BY <1>5, <2>2
    <3>2. CASE n \in refused
      <4>1. n \in redefined' \/ ~Rules!Consistent(asked[n])
        BY <1>1, <1>4, <3>2
      <4>2. asked[n] \subseteq asked'[n]
        BY <1>3
      <4> QED BY <2>1, <3>1, <3>2, <4>1, <4>2, ContradictionsStay
    <3>3. CASE n \notin refused
      <4>1. G = asked'[n]
        BY <1>3, <1>4, <3>1, <3>3
      <4>2. ~("defined" \in F /\ "defined" \in claim)
        BY <2>2 DEF Rules!Admissible
      <4>3. n \notin redefined'
        BY <1>1, <1>4, <3>3, <4>2
      <4> QED BY <2>1, <3>1, <3>3, <4>1, <4>3
    <3> QED BY <3>2, <3>3
  <2>3. CASE ~ok
    <3>1. n \in refused'
      BY <1>5, <2>3
    <3>2. CASE "defined" \in F /\ "defined" \in claim
      BY <1>1, <1>4, <2>1, <3>1, <3>2
    <3>3. CASE ~Rules!Consistent(F \union claim)
      <4>1. F \union claim \subseteq asked'[n]
        BY <1>3, <1>4
      <4>2. ~Rules!Consistent(asked'[n])
        BY <3>3, <4>1, ContradictionsStay
      <4> QED BY <2>1, <3>1, <4>2
    <3> QED BY <2>3, <3>2, <3>3 DEF Rules!Admissible
  <2> QED BY <2>2, <2>3
<1>7. HistoryOK(n)' /\ EntryOK(EntryOf(n))'
  BY <1>6 DEF HistoryOK, CallStep, EntryOK, FactsOf, Rules!Consistent
<1>8. ASSUME NEW m \in Names \ {n} PROVE HistoryOK(m)' /\ EntryOK(EntryOf(m))'
  <2>1. EntryOf(m)' = EntryOf(m) /\ asked'[m] = asked[m]
    BY <1>3 DEF CallStep
  <2>2. (m \in refused' <=> m \in refused) /\ (m \in redefined' <=> m \in redefined)
    BY <1>1, <1>5
  <2>3. EntryOK(EntryOf(m)) /\ HistoryOK(m)
    BY DEF TableInv
  <2> QED BY <2>1, <2>2, <2>3 DEF HistoryOK, EntryOK, FactsOf, Rules!Consistent
<1>9. ChainsOK'
  BY DEF CallStep
<1> QED BY <1>3, <1>7, <1>8, <1>9 DEF TableInv, Rules!Fact

\* Every call of the table is one call of the rules.
LEMMA NextIsCallStep ==
    ASSUME TableInv, Next
    PROVE  \E n \in Names, claim \in Rules!Claims : CallStep(n, claim)
<1> USE DEF Rules!Claims
<1>0. PICK n \in Names :
        \/ \E p \in Places : symtable_insert_section(n, p[1], p[2])
        \/ \E b \in Binding : symtable_declare_binding(n, b)
        \/ symtable_declare_external(n)
  BY DEF Next
<1>1. EntryOK(EntryOf(n))
  BY DEF TableInv
<1>2. CASE \E p \in Places : symtable_insert_section(n, p[1], p[2])
  <2>1. PICK p \in Places : symtable_insert_section(n, p[1], p[2])
    BY <1>2
  <2>2. p \in Section \X Int
    BY PlacesAssumption
  <2>3. CanInsert(EntryOf(n)) \in BOOLEAN
    BY DEF CanInsert
  <2>4. CallStep(n, Rules!Definition)
    BY <1>1, <2>1, <2>2, <2>3, InsertRule, CallIfIsCallStep DEF symtable_insert_section
  <2> QED BY <2>4
<1>3. CASE \E b \in Binding : symtable_declare_binding(n, b)
  <2>1. PICK b \in Binding : symtable_declare_binding(n, b)
    BY <1>3
  <2>2. CanDeclareBinding(EntryOf(n), b) \in BOOLEAN
    BY DEF CanDeclareBinding
  <2>3. Asking(n, BindingClaim(b))
    BY <2>1 DEF symtable_declare_binding, BindingClaim
  <2>4. CallStep(n, BindingClaim(b))
    BY <1>1, <2>1, <2>2, <2>3, BindingRule, CallIfIsCallStep
       DEF symtable_declare_binding
  <2> QED BY <2>4 DEF BindingClaim
<1>4. CASE symtable_declare_external(n)
  <2>1. CanDeclareExternal(EntryOf(n)) \in BOOLEAN
    BY DEF CanDeclareExternal
  <2>2. CallStep(n, Rules!External)
    BY <1>1, <1>4, <2>1, ExternalRule, CallIfIsCallStep DEF symtable_declare_external
  <2> QED BY <2>2
<1> QED BY <1>0, <1>2, <1>3, <1>4

-----------------------------------------------------------------------------
(* The theorems *)

LEMMA InitTableInv == Init => TableInv
<1> SUFFICES ASSUME Init PROVE TableInv
  OBVIOUS
<1>1. ASSUME NEW b \in 0 .. Buckets - 1 PROVE buckets[b] = <<>>
  BY DEF Init
<1>2. ChainsOK
  <2>1. buckets \in [0 .. Buckets - 1 -> Seq(Node)]
    BY DEF Init
  <2> QED BY <1>1, <2>1 DEF ChainsOK, Distinct
<1>3. ASSUME NEW n \in Names PROVE EntryOf(n) = ZeroEntry
  <2>1. buckets[BucketOf(n)] = <<>>
    BY <1>1, BucketExists
  <2>2. find_entry(n) = 0
    BY <1>2, <2>1, FindEntryFacts
  <2> QED BY <2>2 DEF EntryOf
<1>4. EntryOK(ZeroEntry) /\ FactsOf(ZeroEntry) = {}
  BY DEF EntryOK, ZeroEntry, Entry, Binding, FactsOf
<1>5. asked = [n \in Names |-> {}] /\ refused = {} /\ redefined = {}
  BY DEF Init
<1>6. ASSUME NEW n \in Names PROVE EntryOK(EntryOf(n)) /\ HistoryOK(n)
  BY <1>3, <1>4, <1>5 DEF HistoryOK
<1>7. asked \in [Names -> SUBSET Rules!Fact]
  BY <1>5
<1> QED BY <1>2, <1>6, <1>7 DEF TableInv

(***************************************************************************)
(* TableInv is inductive: whatever calls the passes make, every name has   *)
(* at most one node, in the chain its hash selects, the entry in it is     *)
(* well formed, and it holds exactly the claims accepted for that name.    *)
(***************************************************************************)
THEOREM TableStaysSound == Spec => []TableInv
<1>1. TableInv /\ [Next]_vars => TableInv'
  <2> SUFFICES ASSUME TableInv, [Next]_vars PROVE TableInv'
    OBVIOUS
  <2>1. CASE Next
    <3>1. PICK n \in Names, claim \in Rules!Claims : CallStep(n, claim)
      BY <2>1, NextIsCallStep
    <3>2. claim \in SUBSET Rules!Fact
      BY DEF Rules!Claims, Rules!Fact, Rules!Definition, Rules!Global, Rules!Local,
             Rules!External
    <3> QED BY <3>1, <3>2, CallStepKeepsInv
  <2>2. CASE UNCHANGED vars
    <3>1. \A n \in Names : EntryOf(n)' = EntryOf(n)
      BY <2>2, EntryOfIsEntryIn DEF vars
    <3>2. ChainsOK'
      BY <2>2 DEF vars, TableInv, ChainsOK, BucketOf
    <3>3. \A n \in Names : EntryOK(EntryOf(n))' /\ HistoryOK(n)'
      BY <2>2, <3>1 DEF vars, TableInv, HistoryOK, EntryOK, FactsOf, Rules!Consistent
    <3> QED BY <2>2, <3>2, <3>3 DEF vars, TableInv, Rules!Fact
  <2> QED BY <2>1, <2>2
<1> QED BY <1>1, InitTableInv, PTL DEF Spec

(***************************************************************************)
(* symtable.h's "a declaration may precede the label definition", for any  *)
(* names and any hash: whether all calls about a name succeed does not     *)
(* depend on the order they were made in.                                  *)
(***************************************************************************)
THEOREM OrderNeverMatters == Spec => []AcceptanceIsOrderFree
<1>1. TableInv => AcceptanceIsOrderFree
  <2> SUFFICES ASSUME TableInv, NEW n \in Names
               PROVE  n \in refused <=> n \in redefined \/ ~Rules!Consistent(asked[n])
    BY DEF AcceptanceIsOrderFree
  <2>1. HistoryOK(n) /\ EntryOK(EntryOf(n))
    BY DEF TableInv
  <2>2. Rules!Consistent(FactsOf(EntryOf(n)))
    BY <2>1, FactsAreConsistent
  <2>3. CASE n \in refused
    BY <2>1, <2>3 DEF HistoryOK
  <2>4. CASE n \notin refused
    <3>1. asked[n] = FactsOf(EntryOf(n)) /\ n \notin redefined
      BY <2>1, <2>4 DEF HistoryOK
    <3>2. Rules!Consistent(asked[n])
      BY <2>2, <3>1
    <3> QED BY <2>4, <3>1, <3>2
  <2> QED BY <2>3, <2>4
<1> QED BY <1>1, TableStaysSound, PTL

(***************************************************************************)
(* Refinement: seen through the facts its entries stand for, the chained   *)
(* hash table of symtable.c behaves as SymbolRules says, call by call.     *)
(***************************************************************************)
THEOREM TableImplementsRules == Spec => ImplementsRules
<1> DEFINE facts == [n \in Names |->
                LET e == EntryOf(n) IN
                      (IF e.defined THEN {"defined"} ELSE {})
                \union (IF e.external_declared THEN {"external"} ELSE {})
                \union (IF ~e.binding_declared THEN {}
                        ELSE IF e.binding = "GLOBAL" THEN {"global"} ELSE {"local"})]
<1>1. facts = Facts
  BY DEF Facts, FactsOf
<1>2. Init => Rules!Init
  <2> SUFFICES ASSUME Init PROVE Rules!Init
    OBVIOUS
  <2>1. \A n \in Names : FactsOf(EntryOf(n)) = {}
    <3>1. TableInv
      BY InitTableInv
    <3> QED BY <3>1 DEF TableInv, HistoryOK, Init
  <2>2. Facts = [n \in Names |-> {}]
    BY <2>1 DEF Facts
  <2> QED BY <1>1, <2>2 DEF Rules!Init, Init
<1>3. TableInv /\ [Next]_vars => [Rules!Next]_(Rules!vars)
  <2> SUFFICES ASSUME TableInv, [Next]_vars PROVE [Rules!Next]_(Rules!vars)
    OBVIOUS
  <2>0. facts' = [n \in Names |-> FactsOf(EntryOf(n)')]
    BY DEF FactsOf
  <2>1. CASE Next
    <3>1. PICK n \in Names, claim \in Rules!Claims : CallStep(n, claim)
      BY <2>1, NextIsCallStep
    <3> DEFINE ok == Rules!Admissible(FactsOf(EntryOf(n)), claim)
    <3>2. /\ answer' = ok
          /\ FactsOf(EntryOf(n)') = (IF ok THEN FactsOf(EntryOf(n)) \union claim
                                     ELSE FactsOf(EntryOf(n)))
          /\ \A m \in Names \ {n} : FactsOf(EntryOf(m)') = FactsOf(EntryOf(m))
      BY <3>1 DEF CallStep
    <3>3. Facts[n] = FactsOf(EntryOf(n))
      BY DEF Facts
    <3>4. answer' = Rules!Admissible(Facts[n], claim)
      BY <3>2, <3>3
    <3>5. facts' = IF ok THEN [Facts EXCEPT ![n] = @ \union claim] ELSE Facts
      <4> HIDE DEF ok, facts
      <4> QED BY <2>0, <3>2 DEF Facts
    <3>6. facts' = IF Rules!Admissible(Facts[n], claim)
                   THEN [Facts EXCEPT ![n] = @ \union claim] ELSE Facts
      BY <3>3, <3>5
    <3>7. Rules!Call(n, claim)
      BY <1>1, <3>4, <3>6 DEF Rules!Call
    <3> QED BY <3>7 DEF Rules!Next
  <2>2. CASE UNCHANGED vars
    <3>1. \A n \in Names : EntryOf(n)' = EntryOf(n)
      BY <2>2, EntryOfIsEntryIn DEF vars
    <3>2. facts' = facts /\ answer' = answer
      BY <2>0, <2>2, <3>1 DEF vars, FactsOf
    <3> QED BY <3>2 DEF Rules!vars
  <2> QED BY <2>1, <2>2
<1> QED BY <1>2, <1>3, TableStaysSound, PTL DEF Spec, ImplementsRules, Rules!Spec

(***************************************************************************)
(* Of every step of the table: a defined symbol is never moved, a declared *)
(* binding never changed and no declaration forgotten (symtable.c returns  *)
(* false before it would overwrite one).                                   *)
(***************************************************************************)
THEOREM EntriesNeverChangeBack == Spec => EntriesAreFinal
<1> DEFINE A == \A n \in Names :
            LET e == EntryOf(n)
                f == EntryOf(n)'
            IN  /\ e.defined => /\ f.defined
                                /\ f.section = e.section /\ f.offset = e.offset
                /\ e.binding_declared => f.binding_declared /\ f.binding = e.binding
                /\ e.external_declared => f.external_declared
<1>1. TableInv /\ [Next]_vars => [A]_vars
  <2> SUFFICES ASSUME TableInv, Next PROVE A
    OBVIOUS
  <2>1. PICK n \in Names, claim \in Rules!Claims : CallStep(n, claim)
    BY NextIsCallStep
  <2>2. ASSUME NEW m \in Names PROVE Keeps(EntryOf(m), EntryOf(m)')
    BY <2>1 DEF CallStep, Keeps
  <2> QED BY <2>2 DEF Keeps
<1> QED BY <1>1, TableStaysSound, PTL DEF Spec, EntriesAreFinal
=============================================================================
