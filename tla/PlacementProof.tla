--------------------------- MODULE PlacementProof ---------------------------
(***************************************************************************)
(* Where pass2_run puts things, for every program: the spans, the encoded  *)
(* branches, the debug rows and the relocations are where pass1_run's      *)
(* layout says.  Pass2Kept is the inductive invariant, on top of           *)
(* PassesAgree and Pass1Kept.                                              *)
(***************************************************************************)
EXTENDS PassesProof

NoLocation == [file |-> 0, line |-> 0, column |-> 0]

\* What pass 2 has produced before it starts, at each statement, and when it is
\* over: all spans, or those up to the statement it stopped at.
Progress ==
    /\ phase \in {"pass1", "failed"} =>
           /\ emissions = <<>> /\ code = <<>> /\ relocs = <<>> /\ lines = <<>>
           /\ location = NoLocation
    /\ phase = "pass2" => Len(emissions) = i - 1
    /\ phase = "done" /\ ~Interrupted => Len(emissions) = Len(prog) /\ size = offset
    /\ phase = "done" /\ Interrupted =>
           /\ i \in DOMAIN prog /\ Len(emissions) = i
           /\ text_size <= offset["TEXT"]

\* The k-th span starts where pass 1 put the k-th statement, and ends where it
\* put the next one, unless the statement is a string that overflows.
SpanFollows(k) ==
    LET span == emissions[k] IN
    /\ span.section = layout[k + 1].section
    /\ span.offset = layout[k].offset[span.section]
    /\ span.section # "BSS" /\ ~Overflows(prog[k]) =>
           span.offset + span.size = layout[k + 1].offset[span.section]

SpansFollow == \A k \in DOMAIN emissions : SpanFollows(k)

\* A chunk of an encoded branch holds the displacement to its label.
BranchLands(chunk) ==
    LET stmt == prog[chunk.stmt]
        e    == symtab[stmt.ops[1].sym]
    IN  (/\ opcode_uses_relative_label(stmt.opcode)
         /\ HasKind(stmt, "LABEL") /\ e.defined) =>
            /\ e.section = "TEXT"
            /\ chunk.offset + chunk.len + chunk.rel = e.offset

ChunksFollow ==
    \A c \in DOMAIN code :
        /\ code[c].stmt \in DOMAIN emissions
        /\ errors2 = {} => BranchLands(code[c])

\* A position the line program can express.
GoodPosition(p) ==
    /\ debug_file_find(p.file)
    /\ p.line \in 1 .. MaxLine /\ p.column \in 1 .. MaxColumn

RowsFollow ==
    /\ location = NoLocation \/ GoodPosition(location)
    /\ \A a \in DOMAIN lines :
           /\ lines[a].offset < text_size
           /\ GoodPosition(lines[a])
           /\ \A b \in DOMAIN lines : a < b => lines[a].offset < lines[b].offset
           /\ \E c \in DOMAIN code : code[c].offset = lines[a].offset

\* The field of r lies in the span of the statement that asked for it.
Inside(r) ==
    LET span == emissions[r.stmt] IN
    /\ r.section = span.section
    /\ span.offset <= r.offset
    /\ r.offset + FieldBytes(r) <= span.offset + span.size

Apart(r, q) ==
    r.section = q.section =>
        \/ r.offset + FieldBytes(r) <= q.offset
        \/ q.offset + FieldBytes(q) <= r.offset

\* The j-th operand of the k-th statement is settled.
Settled(k, j) ==
    LET op == prog[k].ops[j] IN
    (emissions[k].size > 0 /\ op.kind \in {"LABEL", "RIP"}) =>
        \/ opcode_uses_relative_label(prog[k].opcode) /\ symtab[op.sym].defined
        \/ \E a \in DOMAIN relocs : relocs[a].stmt = k /\ relocs[a].symbol = op.sym

RelocsFollow ==
    /\ \A a \in DOMAIN relocs :
           /\ relocs[a].stmt \in DOMAIN emissions /\ relocs[a].section # "BSS"
           /\ IsOutputSymbol(symtab[relocs[a].symbol])
    /\ errors2 = {} =>
           /\ \A a \in DOMAIN relocs : Inside(relocs[a])
           /\ \A a, b \in DOMAIN relocs : a # b => Apart(relocs[a], relocs[b])
           /\ \A k \in DOMAIN emissions : \A j \in DOMAIN prog[k].ops : Settled(k, j)

Pass2Kept == Progress /\ SpansFollow /\ ChunksFollow /\ RowsFollow /\ RelocsFollow

-----------------------------------------------------------------------------
(* The layout, read without errors of pass 1 *)

\* A statement changes the offset of the section it leaves from, and no other.
LEMMA LayoutStep ==
    ASSUME PassesAgree, errors1 = {}, NEW k \in Handled
    PROVE  /\ prog[k] \in Stmts /\ layout[k] \in Layout /\ layout[k + 1] \in Layout
           /\ AcceptedAt(prog[k], layout[k].section)
           /\ layout[k + 1] = LayoutAfter(prog[k], layout[k])
           /\ \A s \in Section : s # layout[k + 1].section =>
                layout[k + 1].offset[s] = layout[k].offset[s]
           /\ Registers(prog[k]) => layout[k + 1].section = layout[k].section
<1> USE DEF PassesAgree, TypeOK
<1>1. k \in Nat /\ k \in 1 .. Len(layout) /\ k + 1 \in 1 .. Len(layout)
      /\ k \in 1 .. Len(prog) /\ layout \in Seq(Layout)
  BY DEF Handled, LayoutOK, ControlOK
<1>2. prog[k] \in Stmts /\ layout[k] \in Layout /\ layout[k + 1] \in Layout
  BY <1>1 DEF ControlOK
<1>3. /\ AcceptedAt(prog[k], layout[k].section)
      /\ layout[k + 1] = LayoutAfter(prog[k], layout[k])
  BY DEF Handled, LayoutOK
<1>4. layout[k].section \in Section /\ layout[k].offset \in [Section -> Nat]
  BY <1>2 DEF Layout
<1>5. \A s \in Section : s # layout[k + 1].section =>
        layout[k + 1].offset[s] = layout[k].offset[s]
  BY <1>3, <1>4 DEF LayoutAfter
<1>6. Registers(prog[k]) => layout[k + 1].section = layout[k].section
  BY <1>3 DEF LayoutAfter, Registers, SectionDirective, is_data_directive, IntDirective
<1> QED BY <1>2, <1>3, <1>5, <1>6

-----------------------------------------------------------------------------
(* The common part of the steps of pass 2 *)

\* A step of pass 2 adds one span, the one pass 1 counted for the statement.
LEMMA SpanStep ==
    ASSUME PassesAgree, PassesAgree', Progress, SpansFollow,
           phase = "pass2", i <= Len(prog), Proceed2(TRUE),
           NEW bytes \in Nat, Emit(section', bytes),
           section' # "BSS" => size[section'] + bytes = size'[section']
    PROVE  /\ Progress' /\ SpansFollow'
           /\ UNCHANGED <<prog, phase, offset, alignment, symtab, files, errors1, layout>>
           /\ i \in Nat /\ DOMAIN emissions = 1 .. i - 1 /\ DOMAIN emissions' = 1 .. i
           /\ \A k \in 1 .. i - 1 : emissions'[k] = emissions[k]
           /\ emissions'[i] = [section |-> section', offset |-> size[section'],
                               size |-> bytes]
           /\ Handled = 1 .. Len(prog) /\ i \in Handled
           /\ \A s \in Section : size[s] \in Nat /\ size[s] = layout[i].offset[s]
<1> USE DEF PassesAgree, TypeOK
<1> DEFINE new == [section |-> section', offset |-> size[section'], size |-> bytes]
<1>1. /\ i' = i + 1
      /\ UNCHANGED <<prog, phase, offset, alignment, symtab, files, errors1, layout>>
  BY DEF Proceed2, vars1
<1>2. i \in Nat /\ i \in 1 .. Len(prog) /\ Len(prog) \in Nat
  BY DEF ControlOK
<1>3. emissions \in Seq(Span) /\ Len(emissions) = i - 1 /\ new \in Span
  BY DEF Pass2ResultOK, Progress, Span, ControlOK
<1>4. emissions' = Append(emissions, new)
  BY DEF Emit
<1>5. /\ section' = layout[i + 1].section /\ size' = layout[i + 1].offset
      /\ size = layout[i].offset
  BY <1>1 DEF Retraces
<1>6. \A s \in Section : size[s] \in Nat /\ size[s] = layout[i].offset[s]
  BY <1>5 DEF Pass2ResultOK
<1>7. Handled = 1 .. Len(prog) /\ i \in Handled
  BY <1>2 DEF Handled, LayoutOK
<1>8. section' \in Section
  BY DEF ControlOK
<1>9. new.section = section' /\ new.offset = size[section'] /\ new.size = bytes
  OBVIOUS
<1> HIDE DEF new
<1>10. /\ DOMAIN emissions = 1 .. i - 1 /\ DOMAIN emissions' = 1 .. i
       /\ Len(emissions') = i /\ emissions'[i] = new
       /\ \A k \in 1 .. i - 1 : emissions'[k] = emissions[k]
  BY <1>2, <1>3, <1>4
<1>11. Progress'
  BY <1>1, <1>2, <1>10 DEF Progress
<1>12. SpansFollow'
  <2> SUFFICES ASSUME NEW k \in 1 .. i PROVE SpanFollows(k)'
    BY <1>10 DEF SpansFollow
  <2>1. CASE k = i
    BY <1>1, <1>5, <1>6, <1>8, <1>9, <1>10, <2>1 DEF SpanFollows
  <2>2. CASE k \in 1 .. i - 1
    <3>1. SpanFollows(k)
      BY <1>10, <2>2 DEF SpansFollow
    <3> QED BY <1>1, <1>10, <2>2, <3>1 DEF SpanFollows
  <2> QED BY <1>2, <2>1, <2>2
<1> QED BY <1>1, <1>2, <1>6, <1>7, <1>10, <1>11, <1>12 DEF new

\* .text never shrinks under pass 2.
LEMMA TextGrows ==
    ASSUME PassesAgree, PassesAgree', Grows, phase = "pass2", i <= Len(prog),
           Proceed2(TRUE)
    PROVE  text_size \in Nat /\ text_size' \in Nat /\ text_size <= text_size'
<1> USE DEF PassesAgree, TypeOK
<1>1. i' = i + 1 /\ UNCHANGED <<phase, layout>>
  BY DEF Proceed2, vars1
<1>2. size = layout[i].offset /\ size' = layout[i + 1].offset
  BY <1>1 DEF Retraces
<1>3. i \in 1 .. Len(layout) /\ i + 1 \in 1 .. Len(layout) /\ i <= i + 1
  BY DEF ControlOK, LayoutOK
<1>4. "TEXT" \in Section
  BY DEF Section
<1>5. size["TEXT"] <= size'["TEXT"]
  BY <1>2, <1>3, <1>4 DEF Grows
<1>6. text_size \in Nat /\ text_size' \in Nat
  BY <1>4 DEF text_size, Pass2ResultOK
<1> QED BY <1>5, <1>6 DEF text_size

\* Chunks and rows stay as they are under a step that adds none.
LEMMA ChunksStay ==
    ASSUME ChunksFollow, UNCHANGED <<prog, symtab, code>>,
           DOMAIN emissions \subseteq DOMAIN emissions',
           errors2' = {} => errors2 = {}
    PROVE  ChunksFollow'
BY DEF ChunksFollow, BranchLands, HasKind

LEMMA RowsStay ==
    ASSUME PassesAgree, RowsFollow, UNCHANGED <<files, code, lines>>,
           text_size \in Nat, text_size' \in Nat, text_size <= text_size',
           location' = location \/ location' = NoLocation \/ GoodPosition(location')
    PROVE  RowsFollow'
<1>1. location' = NoLocation \/ GoodPosition(location)'
  BY DEF RowsFollow, GoodPosition, debug_file_find
<1>2. \A a \in DOMAIN lines : lines[a].offset \in Nat
  <2>1. \A a \in DOMAIN lines : lines[a] \in DebugLine
    BY DEF PassesAgree, TypeOK, Pass2ResultOK
  <2> QED BY <2>1 DEF DebugLine
<1>3. \A a \in DOMAIN lines : lines[a].offset < text_size'
  BY <1>2 DEF RowsFollow
<1>4. \A a \in DOMAIN lines : GoodPosition(lines[a])'
  BY DEF RowsFollow, GoodPosition, debug_file_find
<1> QED BY <1>1, <1>3, <1>4 DEF RowsFollow

\* A statement without code or relocations keeps everything else in place.
LEMMA EmptySpanKeeps ==
    ASSUME PassesAgree, PassesAgree', Pass1Kept, Pass2Kept,
           phase = "pass2", i <= Len(prog), Proceed2(TRUE), Emit(section', 0),
           section' # "BSS" => size[section'] = size'[section'],
           UNCHANGED <<code, relocs, lines, errors2>>,
           location' = location \/ location' = NoLocation \/ GoodPosition(location')
    PROVE  Pass2Kept'
<1> USE DEF Pass2Kept
<1>1. /\ Progress' /\ SpansFollow'
      /\ UNCHANGED <<prog, symtab, files>>
      /\ i \in Nat /\ DOMAIN emissions = 1 .. i - 1 /\ DOMAIN emissions' = 1 .. i
      /\ \A k \in 1 .. i - 1 : emissions'[k] = emissions[k]
      /\ emissions'[i].size = 0
  <2>1. 0 \in Nat /\ (section' # "BSS" => size[section'] + 0 = size'[section'])
    <3>1. section' \in Section /\ size \in [Section -> Nat] /\ size' \in [Section -> Nat]
      BY DEF PassesAgree, TypeOK, ControlOK, Pass2ResultOK
    <3> QED BY <3>1
  <2>2. emissions'[i] = [section |-> section', offset |-> size[section'], size |-> 0]
    BY <2>1, SpanStep
  <2>3. emissions'[i].size = 0
    BY <2>2
  <2> QED BY <2>1, <2>3, SpanStep
<1>2. ChunksFollow'
  <2>1. 1 .. i - 1 \subseteq 1 .. i
    BY <1>1
  <2> QED BY <1>1, <2>1, ChunksStay
<1>3. RowsFollow'
  BY <1>1, TextGrows, RowsStay DEF Pass1Kept
<1>4. RelocsFollow'
  <2>1. \A a \in DOMAIN relocs : relocs[a].stmt \in 1 .. i - 1
    BY <1>1 DEF RelocsFollow
  <2>2. \A a \in DOMAIN relocs : Inside(relocs[a]) => Inside(relocs[a])'
    BY <1>1, <2>1 DEF Inside, FieldBytes
  <2>3. \A a, b \in DOMAIN relocs : Apart(relocs[a], relocs[b]) => Apart(relocs[a], relocs[b])'
    BY DEF Apart, FieldBytes
  <2>4. \A k \in 1 .. i : \A j \in DOMAIN prog[k].ops :
          (k \in 1 .. i - 1 => Settled(k, j)) => Settled(k, j)'
    BY <1>1 DEF Settled
  <2>5. \A a \in DOMAIN relocs :
          /\ relocs[a].stmt \in DOMAIN emissions' /\ relocs[a].section # "BSS"
          /\ IsOutputSymbol(symtab'[relocs[a].symbol])
    BY <1>1, <2>1 DEF RelocsFollow
  <2> QED BY <1>1, <2>2, <2>3, <2>4, <2>5 DEF RelocsFollow
<1> QED BY <1>1, <1>2, <1>3, <1>4

-----------------------------------------------------------------------------
(* The actions of pass 2 that write nothing *)

LEMMA Pass2SectionKeeps ==
    ASSUME PassesAgree, PassesAgree', Pass1Kept, Pass2Kept, Pass2Section
    PROVE  Pass2Kept'
<1>1. /\ phase = "pass2" /\ i <= Len(prog) /\ Proceed2(TRUE) /\ Emit(section', 0)
      /\ UNCHANGED <<size, code, relocs, location, lines, errors2>>
  BY DEF Pass2Section, InPass2
<1> QED BY <1>1, EmptySpanKeeps

LEMMA Pass2SkipKeeps ==
    ASSUME PassesAgree, PassesAgree', Pass1Kept, Pass2Kept, Pass2Skip \/ Pass2NoCode
    PROVE  Pass2Kept'
<1>1. /\ phase = "pass2" /\ i <= Len(prog) /\ Proceed2(TRUE) /\ Emit(section, 0)
      /\ UNCHANGED <<section, size, code, relocs, location, lines, errors2>>
  BY DEF Pass2Skip, Pass2NoCode, InPass2
<1>2. Emit(section', 0)
  BY <1>1
<1> QED BY <1>1, <1>2, EmptySpanKeeps

\* A location pass 2 takes over is one pass 1 validated.
LEMMA Pass2DebugLocationKeeps ==
    ASSUME PassesAgree, PassesAgree', Pass1Kept, Pass2Kept, Pass2DebugLocation
    PROVE  Pass2Kept'
<1>1. /\ phase = "pass2" /\ i <= Len(prog) /\ Proceed2(TRUE) /\ Emit(section, 0)
      /\ Stmt.directive = "DEBUG_LOCATION"
      /\ location' = IF IsLocation(Stmt)
                     THEN [file |-> Imm(Stmt, 1), line |-> Imm(Stmt, 2),
                           column |-> Imm(Stmt, 3)]
                     ELSE location
      /\ UNCHANGED <<section, size, code, relocs, lines, errors2>>
  BY DEF Pass2DebugLocation, InPass2
<1>2. i \in DOMAIN prog /\ i \in Handled /\ errors1 = {}
  BY <1>1 DEF PassesAgree, TypeOK, ControlOK, LayoutOK, Retraces, Handled
<1>3. validate_debug_location_directive(Stmt) /\ UndeclaredFileUse = {}
  BY <1>1, <1>2 DEF Pass1Kept, LocationsKept, Stmt
<1>4. CASE \A k \in 1 .. 3 : Imm(Stmt, k) = 0
  <2>1. location' = NoLocation
    BY <1>1, <1>3, <1>4 DEF validate_debug_location_directive, NoLocation
  <2>2. Emit(section', 0)
    BY <1>1
  <2> QED BY <1>1, <2>1, <2>2, EmptySpanKeeps
<1>5. CASE /\ Imm(Stmt, 1) \in 1 .. UINT32_MAX
           /\ Imm(Stmt, 2) \in 1 .. MaxLine
           /\ Imm(Stmt, 3) \in 1 .. MaxColumn
  <2>1. debug_file_find(Imm(Stmt, 1))
    BY <1>1, <1>2, <1>3, <1>5 DEF UndeclaredFileUse, validate_debug_location_directive, Stmt
  <2>2. location'.file = Imm(Stmt, 1) /\ location'.line = Imm(Stmt, 2)
        /\ location'.column = Imm(Stmt, 3)
    BY <1>1, <1>3 DEF validate_debug_location_directive
  <2>3. GoodPosition(location')
    BY <1>5, <2>1, <2>2 DEF GoodPosition
  <2>4. Emit(section', 0)
    BY <1>1
  <2> QED BY <1>1, <2>3, <2>4, EmptySpanKeeps
<1> QED BY <1>3, <1>4, <1>5 DEF validate_debug_location_directive

\* Room in .bss is counted in the total, never in a span.
LEMMA Pass2BssKeeps ==
    ASSUME PassesAgree, PassesAgree', Pass1Kept, Pass2Kept, Pass2Bss
    PROVE  Pass2Kept'
<1>1. /\ phase = "pass2" /\ i <= Len(prog) /\ section = "BSS"
      /\ Proceed2(TRUE) /\ Emit(section, 0)
      /\ UNCHANGED <<section, code, relocs, location, lines, errors2>>
  BY DEF Pass2Bss, InPass2Data, InPass2
<1>2. Emit(section', 0) /\ section' = "BSS"
  BY <1>1
<1> QED BY <1>1, <1>2, EmptySpanKeeps

-----------------------------------------------------------------------------
(* Relocations *)

\* The elements of a concatenation, and where they come from.
LEMMA ConcatFacts ==
    ASSUME NEW S, NEW q \in Seq(S), NEW p \in Seq(S)
    PROVE  /\ \A a \in DOMAIN q : a \in DOMAIN (q \o p) /\ (q \o p)[a] = q[a]
           /\ \A b \in DOMAIN p : /\ Len(q) + b \in DOMAIN (q \o p)
                                  /\ (q \o p)[Len(q) + b] = p[b]
           /\ \A a \in DOMAIN (q \o p) : a \notin DOMAIN q =>
                a - Len(q) \in DOMAIN p /\ (q \o p)[a] = p[a - Len(q)]
OBVIOUS

\* One more element at the end.
LEMMA SnocFacts ==
    ASSUME NEW S, NEW q \in Seq(S), NEW r \in S
    PROVE  /\ q \o <<r>> \in Seq(S)
           /\ DOMAIN (q \o <<r>>) = DOMAIN q \union {Len(q) + 1}
           /\ Len(q) + 1 \notin DOMAIN q
           /\ \A a \in DOMAIN q : (q \o <<r>>)[a] = q[a]
           /\ (q \o <<r>>)[Len(q) + 1] = r
OBVIOUS

\* Nothing more at either end.
LEMMA EmptyConcats ==
    ASSUME NEW S, NEW q \in Seq(S)
    PROVE  q \o << >> = q /\ << >> \o q = q
OBVIOUS

\* The fields asked for by one statement or by an earlier one end before the
\* bytes that follow, so a field placed there is apart from all of them.
LEMMA FieldBehind ==
    ASSUME NEW q \in Seq(Relocation), NEW r \in Relocation, NEW limit \in Nat,
           \A a, b \in DOMAIN q : a # b => Apart(q[a], q[b]),
           \A a \in DOMAIN q : q[a].section = r.section =>
             q[a].offset + FieldBytes(q[a]) <= limit,
           limit <= r.offset
    PROVE  \A a, b \in DOMAIN (q \o <<r>>) : a # b =>
             Apart((q \o <<r>>)[a], (q \o <<r>>)[b])
<1> DEFINE p == q \o <<r>>
           n == Len(q) + 1
<1>1. /\ DOMAIN p = DOMAIN q \union {n} /\ n \notin DOMAIN q
      /\ \A a \in DOMAIN q : p[a] = q[a]
      /\ p[n] = r
  BY SnocFacts
<1> HIDE DEF p, n
<1>2. \A a \in DOMAIN q : q[a] \in Relocation
  OBVIOUS
<1>3. \A x \in Relocation : x.offset \in Nat /\ FieldBytes(x) \in Nat
  BY DEF Relocation, FieldBytes
<1>4. \A a \in DOMAIN q : Apart(q[a], r) /\ Apart(r, q[a])
  <2> SUFFICES ASSUME NEW a \in DOMAIN q, q[a].section = r.section
               PROVE  q[a].offset + FieldBytes(q[a]) <= r.offset
    BY DEF Apart
  <2>1. q[a].offset \in Nat /\ FieldBytes(q[a]) \in Nat /\ r.offset \in Nat
    BY <1>2, <1>3
  <2>2. q[a].offset + FieldBytes(q[a]) <= limit
    OBVIOUS
  <2> QED BY <2>1, <2>2
<1>5. \A a, b \in DOMAIN p : a # b => Apart(p[a], p[b])
  BY <1>1, <1>4
<1> QED BY <1>5 DEF p

\* The fields asked for so far end where pass 2 has got to.
LEMMA OldFieldsEnd ==
    ASSUME PassesAgree, Grows, Progress, SpansFollow, RelocsFollow,
           phase = "pass2", i <= Len(prog), errors2 = {}, NEW a \in DOMAIN relocs
    PROVE  relocs[a].offset + FieldBytes(relocs[a]) <= size[relocs[a].section]
<1> USE DEF PassesAgree, TypeOK
<1> DEFINE r == relocs[a]
           k == r.stmt
           s == r.section
<1>1. r \in Relocation
  BY DEF Pass2ResultOK
<1>2. r.offset \in Nat /\ FieldBytes(r) \in Nat /\ s \in Section
  BY <1>1 DEF Relocation, FieldBytes
<1>3. k \in DOMAIN emissions /\ s # "BSS" /\ Inside(r)
  BY DEF RelocsFollow
<1>4. i \in Nat /\ i \in 1 .. Len(layout) /\ Len(emissions) = i - 1
      /\ emissions \in Seq(Span) /\ size = layout[i].offset
  BY DEF ControlOK, LayoutOK, Progress, Pass2ResultOK, Retraces
<1>5. k \in 1 .. i - 1 /\ emissions[k] \in Span
  BY <1>3, <1>4
<1>6. k + 1 \in 1 .. Len(layout) /\ k + 1 <= i
  BY <1>4, <1>5
<1>7. /\ emissions[k].section = s
      /\ r.offset + FieldBytes(r) <= emissions[k].offset + emissions[k].size
  BY <1>3 DEF Inside
<1>8. SpanFollows(k)
  BY <1>3 DEF SpansFollow
<1>9. emissions[k].offset + emissions[k].size = layout[k + 1].offset[s]
  <2>1. ~Overflows(prog[k])
    BY <1>5 DEF Retraces
  <2> QED BY <1>3, <1>7, <1>8, <2>1 DEF SpanFollows
<1>10. layout[k + 1].offset[s] <= size[s]
  BY <1>2, <1>4, <1>6 DEF Grows
<1>11. emissions[k].offset \in Nat /\ emissions[k].size \in Nat /\ size[s] \in Nat
  BY <1>2, <1>5 DEF Span, Pass2ResultOK
<1> HIDE DEF r, k, s
<1>12. r.offset + FieldBytes(r) <= size[s]
  BY <1>2, <1>7, <1>9, <1>10, <1>11
<1> QED BY <1>12 DEF r, s

\* The relocations after a step: the old ones, and those of its statement.
LEMMA RelocStep ==
    ASSUME PassesAgree, RelocsFollow, i \in Nat,
           UNCHANGED <<prog, symtab>>,
           DOMAIN emissions = 1 .. i - 1, DOMAIN emissions' = 1 .. i,
           \A k \in 1 .. i - 1 : emissions'[k] = emissions[k],
           \A a \in DOMAIN relocs : a \in DOMAIN relocs' /\ relocs'[a] = relocs[a],
           \A a \in DOMAIN relocs' : a \in DOMAIN relocs \/
             /\ relocs'[a].stmt = i /\ relocs'[a].section # "BSS"
             /\ IsOutputSymbol(symtab[relocs'[a].symbol]),
           errors2' = {} =>
             /\ errors2 = {}
             /\ \A a \in DOMAIN relocs' : a \in DOMAIN relocs \/ Inside(relocs[a])'
             /\ \A a, b \in DOMAIN relocs' : a # b => Apart(relocs'[a], relocs'[b])
             /\ \A k \in {i} : \A j \in DOMAIN prog[k].ops : Settled(k, j)'
    PROVE  RelocsFollow'
<1>0. 1 <= i
  <2>1. i \in 1 .. Len(prog) + 1
    BY DEF PassesAgree, TypeOK, ControlOK
  <2> QED BY <2>1
<1>1. \A a \in DOMAIN relocs :
        /\ relocs[a].stmt \in 1 .. i - 1 /\ relocs[a].section # "BSS"
        /\ IsOutputSymbol(symtab[relocs[a].symbol])
  BY DEF RelocsFollow
<1>2. \A a \in DOMAIN relocs' :
        /\ relocs'[a].stmt \in 1 .. i /\ relocs'[a].section # "BSS"
        /\ IsOutputSymbol(symtab[relocs'[a].symbol])
  <2> SUFFICES ASSUME NEW a \in DOMAIN relocs'
               PROVE  /\ relocs'[a].stmt \in 1 .. i /\ relocs'[a].section # "BSS"
                      /\ IsOutputSymbol(symtab[relocs'[a].symbol])
    OBVIOUS
  <2>1. CASE a \in DOMAIN relocs
    <3>1. relocs[a].stmt \in 1 .. i
      BY <1>1, <2>1
    <3> QED BY <1>1, <2>1, <3>1
  <2>2. CASE a \notin DOMAIN relocs
    BY <1>0, <2>2
  <2> QED BY <2>1, <2>2
<1>3. ASSUME errors2' = {}, NEW a \in DOMAIN relocs' PROVE Inside(relocs[a])'
  <2>1. CASE a \in DOMAIN relocs
    <3>1. Inside(relocs[a]) /\ emissions'[relocs[a].stmt] = emissions[relocs[a].stmt]
      BY <1>1, <1>3, <2>1 DEF RelocsFollow
    <3> QED BY <2>1, <3>1 DEF Inside, FieldBytes
  <2>2. CASE a \notin DOMAIN relocs
    BY <1>3, <2>2
  <2> QED BY <2>1, <2>2
<1>4. ASSUME errors2' = {}, NEW k \in 1 .. i, NEW j \in DOMAIN prog[k].ops
      PROVE  Settled(k, j)'
  <2>1. CASE k = i
    BY <1>4, <2>1
  <2>2. CASE k \in 1 .. i - 1
    <3>1. Settled(k, j)
      BY <1>4, <2>2 DEF RelocsFollow
    <3>2. emissions'[k] = emissions[k]
      BY <2>2
    <3> QED BY <3>1, <3>2 DEF Settled
  <2> QED BY <2>1, <2>2
<1>5. ASSUME errors2' = {}, NEW a \in DOMAIN relocs', NEW b \in DOMAIN relocs', a # b
      PROVE  Apart(relocs[a], relocs[b])'
  BY <1>5 DEF Apart, FieldBytes
<1> QED BY <1>2, <1>3, <1>4, <1>5 DEF RelocsFollow

-----------------------------------------------------------------------------
(* Data directives *)

\* A relocation of an element of the current statement.
IsElementField(r) ==
    /\ r.stmt = i /\ r.section = section /\ r.kind = "ABS64"
    /\ Stmt.directive = "INT64"
    /\ size[section] <= r.offset
    /\ r.offset + 8 <= size[section] + 8 * Len(Stmt.ops)
    /\ Resolvable(r.symbol)

\* The relocations after the first n elements of the current statement.
ElementsDone(q, n) ==
    /\ q \in Seq(Relocation)
    /\ \A a \in DOMAIN relocs : a \in DOMAIN q /\ q[a] = relocs[a]
    /\ \A a \in DOMAIN q : a \in DOMAIN relocs \/ IsElementField(q[a])
    /\ \A k \in DOMAIN Stmt.ops :
           (/\ k <= n /\ Stmt.directive = "INT64"
            /\ Stmt.ops[k].kind = "LABEL" /\ Resolvable(Stmt.ops[k].sym)) =>
               \E a \in DOMAIN q : q[a].stmt = i /\ q[a].symbol = Stmt.ops[k].sym
    /\ errors2 = {} =>
           /\ \A a, b \in DOMAIN q : a # b => Apart(q[a], q[b])
           /\ \A a \in DOMAIN q : q[a].section = section =>
                  q[a].offset + FieldBytes(q[a]) <= size[section] + 8 * n

\* The elements before any is looked at.
LEMMA NoElementsDone ==
    ASSUME PassesAgree, Grows, Progress, SpansFollow, RelocsFollow,
           phase = "pass2", i <= Len(prog)
    PROVE  ElementsDone(relocs, 0)
<1>1. relocs \in Seq(Relocation)
  BY DEF PassesAgree, TypeOK, Pass2ResultOK
<1>2. \A k \in DOMAIN Stmt.ops : ~(k <= 0)
  <2>1. DOMAIN Stmt.ops = 1 .. Len(Stmt.ops)
    BY WherePass1Was, StatementFacts
  <2> QED BY <2>1
<1>3. size[section] + 8 * 0 = size[section]
  <2>1. size[section] \in Nat
    BY DEF PassesAgree, TypeOK, Pass2ResultOK, ControlOK
  <2> QED BY <2>1
<1>4. errors2 = {} =>
        /\ \A a, b \in DOMAIN relocs : a # b => Apart(relocs[a], relocs[b])
        /\ \A a \in DOMAIN relocs : relocs[a].section = section =>
             relocs[a].offset + FieldBytes(relocs[a]) <= size[section]
  BY OldFieldsEnd DEF RelocsFollow
<1> QED BY <1>1, <1>2, <1>3, <1>4 DEF ElementsDone

\* The next element.
LEMMA NextElement ==
    ASSUME PassesAgree, phase = "pass2", i <= Len(prog), section # "BSS",
           NEW n \in {0, 1, 2}, NEW q, ElementsDone(q, n)
    PROVE  ElementsDone(q \o ElementReloc(n + 1), n + 1)
<1> DEFINE k == n + 1
           has == /\ Stmt.directive = "INT64" /\ k \in DOMAIN Stmt.ops
                  /\ Stmt.ops[k].kind = "LABEL" /\ Resolvable(Stmt.ops[k].sym)
           r == RelocAt(section, "ABS64", size[section] + (k - 1) * 8, Stmt.ops[k].sym, 0)
<1>1. /\ DOMAIN Stmt.ops = 1 .. Len(Stmt.ops) /\ Len(Stmt.ops) \in Nat
      /\ size[section] \in Nat /\ section \in Section /\ i \in Nat
  <2>1. DOMAIN Stmt.ops = 1 .. Len(Stmt.ops) /\ Len(Stmt.ops) \in 0 .. 3
    BY WherePass1Was, StatementFacts
  <2>2. size[section] \in Nat /\ section \in Section /\ i \in Nat
    BY DEF PassesAgree, TypeOK, Pass2ResultOK, ControlOK
  <2> QED BY <2>1, <2>2
<1>2. q \in Seq(Relocation) /\ \A x \in Relocation : x.offset \in Nat /\ FieldBytes(x) \in Nat
  BY DEF ElementsDone, Relocation, FieldBytes
<1>3. \A m \in DOMAIN Stmt.ops : m <= k <=> m <= n \/ m = k
  BY <1>1
<1>4. CASE has
  <2>1. ElementReloc(k) = <<r>>
    BY <1>4 DEF ElementReloc
  <2>2. <<r>> \in Seq(Relocation) /\ r \in Relocation
    <3>1. Stmt.ops[k].sym \in Names
      BY <1>4, WherePass1Was, StatementFacts
    <3>2. size[section] + (k - 1) * 8 \in Nat
      BY <1>1
    <3> QED BY <1>1, <3>1, <3>2 DEF RelocAt, Relocation
  <2>3. /\ r.stmt = i /\ r.section = section /\ r.kind = "ABS64"
        /\ r.offset = size[section] + 8 * n /\ r.symbol = Stmt.ops[k].sym
    BY <1>1 DEF RelocAt
  <2> HIDE DEF r
  <2>4. IsElementField(r) /\ FieldBytes(r) = 8
    <3>1. k \in 1 .. Len(Stmt.ops) /\ r.offset = size[section] + 8 * n
      BY <1>1, <1>4, <2>3
    <3>2. \A z \in Nat, l \in Nat : k \in 1 .. l =>
            z <= z + 8 * n /\ z + 8 * n + 8 <= z + 8 * l
      OBVIOUS
    <3>3. /\ size[section] <= r.offset
          /\ r.offset + 8 <= size[section] + 8 * Len(Stmt.ops)
      BY <1>1, <3>1, <3>2
    <3> QED BY <1>4, <2>3, <3>3 DEF IsElementField, FieldBytes
  <2> DEFINE p == q \o <<r>>
             m == Len(q) + 1
  <2>5. /\ p \in Seq(Relocation) /\ DOMAIN p = DOMAIN q \union {m} /\ m \notin DOMAIN q
        /\ \A a \in DOMAIN q : p[a] = q[a]
        /\ p[m] = r
    BY <1>2, <2>2, SnocFacts
  <2>6. \A a, b \in DOMAIN p : errors2 = {} => (a # b => Apart(p[a], p[b]))
    <3>1. \A z \in Nat : z + 8 * n \in Nat /\ z + 8 * n <= z + 8 * n
      OBVIOUS
    <3>2. size[section] + 8 * n \in Nat /\ size[section] + 8 * n <= r.offset
      BY <1>1, <2>3, <3>1
    <3> QED BY <1>2, <2>2, <2>3, <3>2, FieldBehind DEF ElementsDone
  <2> HIDE DEF p, m
  <2>7. ASSUME errors2 = {}, NEW a \in DOMAIN p, p[a].section = section
        PROVE  p[a].offset + FieldBytes(p[a]) <= size[section] + 8 * k
    <3>1. CASE a \in DOMAIN q
      <4>1. q[a] \in Relocation
        BY <1>2, <3>1
      <4>2. q[a].offset + FieldBytes(q[a]) <= size[section] + 8 * n
        BY <2>5, <2>7, <3>1 DEF ElementsDone
      <4>3. q[a].offset \in Nat /\ FieldBytes(q[a]) \in Nat
        BY <1>2, <4>1
      <4> QED BY <1>1, <2>5, <3>1, <4>2, <4>3
    <3>2. CASE a = m
      BY <1>1, <2>3, <2>4, <2>5, <3>2
    <3> QED BY <2>5, <3>1, <3>2
  <2>8. \A a \in DOMAIN relocs : a \in DOMAIN p /\ p[a] = relocs[a]
    BY <2>5 DEF ElementsDone
  <2>9. \A a \in DOMAIN p : a \in DOMAIN relocs \/ IsElementField(p[a])
    BY <2>4, <2>5 DEF ElementsDone
  <2>10. \A x \in DOMAIN Stmt.ops :
           (/\ x <= k /\ Stmt.directive = "INT64"
            /\ Stmt.ops[x].kind = "LABEL" /\ Resolvable(Stmt.ops[x].sym)) =>
               \E a \in DOMAIN p : p[a].stmt = i /\ p[a].symbol = Stmt.ops[x].sym
    <3> SUFFICES ASSUME NEW x \in DOMAIN Stmt.ops, x <= k, Stmt.directive = "INT64",
                        Stmt.ops[x].kind = "LABEL", Resolvable(Stmt.ops[x].sym)
                 PROVE  \E a \in DOMAIN p : p[a].stmt = i /\ p[a].symbol = Stmt.ops[x].sym
      OBVIOUS
    <3>1. CASE x = k
      BY <2>3, <2>5, <3>1
    <3>2. CASE x <= n
      <4>1. PICK a \in DOMAIN q : q[a].stmt = i /\ q[a].symbol = Stmt.ops[x].sym
        BY <3>2 DEF ElementsDone
      <4> QED BY <2>5, <4>1
    <3> QED BY <1>3, <3>1, <3>2
  <2>11. ElementsDone(p, k)
    BY <2>5, <2>6, <2>7, <2>8, <2>9, <2>10 DEF ElementsDone
  <2> QED BY <2>1, <2>11 DEF p
<1>5. CASE ~has
  <2>1. ElementReloc(k) = << >>
    BY <1>5 DEF ElementReloc
  <2>2. q \o ElementReloc(k) = q
    BY <1>2, <2>1, EmptyConcats
  <2>3. ASSUME errors2 = {}, NEW a \in DOMAIN q, q[a].section = section
        PROVE  q[a].offset + FieldBytes(q[a]) <= size[section] + 8 * k
    <3>1. q[a] \in Relocation
      BY <1>2
    <3>2. q[a].offset + FieldBytes(q[a]) <= size[section] + 8 * n
      BY <2>3 DEF ElementsDone
    <3>3. q[a].offset \in Nat /\ FieldBytes(q[a]) \in Nat
      BY <1>2, <3>1
    <3> QED BY <1>1, <3>2, <3>3
  <2>4. \A x \in DOMAIN Stmt.ops :
          (/\ x <= k /\ Stmt.directive = "INT64"
           /\ Stmt.ops[x].kind = "LABEL" /\ Resolvable(Stmt.ops[x].sym)) =>
              \E a \in DOMAIN q : q[a].stmt = i /\ q[a].symbol = Stmt.ops[x].sym
    BY <1>3, <1>5 DEF ElementsDone
  <2>5. ElementsDone(q, k)
    BY <2>3, <2>4 DEF ElementsDone
  <2> QED BY <2>2, <2>5
<1> QED BY <1>4, <1>5

\* Of the data directives only a 64-bit one names symbols, as plain labels.
LEMMA DataOperands ==
    ASSUME NEW s \in Stmts, is_data_directive(s.directive), validate_data_directive(s),
           NEW j \in DOMAIN s.ops, s.ops[j].kind \in {"LABEL", "RIP"}
    PROVE  s.directive = "INT64" /\ s.ops[j].kind = "LABEL"
<1>1. CASE s.directive = "NUL_STRING"
  <2>1. s.ops[j].kind = "STRING"
    BY <1>1 DEF validate_data_directive, IntDirective
  <2> QED BY <2>1
<1>2. CASE s.directive \in {"ZERO_SPACE", "ALIGNMENT"}
  <2>1. OneImm(s)
    BY <1>2 DEF validate_data_directive, IntDirective
  <2>2. Len(s.ops) = 1 /\ s.ops[1].kind = "IMM" /\ DOMAIN s.ops = 1 .. Len(s.ops)
    BY <2>1, OneImmFacts, StatementFacts
  <2>3. j = 1
    BY <2>2
  <2> QED BY <2>2, <2>3
<1>3. CASE s.directive \in IntDirective
  <2>1. ValidElement(s, j)
    BY <1>3 DEF validate_data_directive, IntDirective
  <2> QED BY <2>1 DEF ValidElement
<1> QED BY <1>1, <1>2, <1>3 DEF is_data_directive

LEMMA CountedDataKeeps ==
    ASSUME PassesAgree, PassesAgree', Pass1Kept, Pass2Kept, Pass2Data, ~Overflows(Stmt)
    PROVE  Pass2Kept'
<1> USE DEF Pass2Kept
<1> DEFINE expected == ExpectedSize
<1>0. /\ phase = "pass2" /\ i <= Len(prog) /\ section \notin {"BSS", "TEXT"}
      /\ expected \in Nat /\ Proceed2(TRUE) /\ Emit(section, expected)
      /\ size' = [size EXCEPT ![section] = @ + expected]
      /\ relocs' = relocs \o ElementReloc(1) \o ElementReloc(2) \o ElementReloc(3)
      /\ Report2(HasUnresolvedElement, FALSE)
      /\ UNCHANGED <<section, code, location, lines>>
  BY DataWritten
<1>1. is_data_directive(Stmt.directive) /\ validate_data_directive(Stmt)
  BY <1>0, WherePass1Was
     DEF Pass2Data, InPass2Data, InPass2, DataDirective, AcceptedAt, AllowedIn
<1>2. /\ Stmt \in Stmts /\ section \in Section /\ size \in [Section -> Nat]
      /\ DOMAIN Stmt.ops = 1 .. Len(Stmt.ops) /\ Len(Stmt.ops) \in 0 .. 3
  BY <1>0, <1>1, WherePass1Was, StatementFacts
<1>3. Stmt.directive = "INT64" => expected = 8 * Len(Stmt.ops)
  BY <1>2 DEF ExpectedSize, data_directive_size_at, data_directive_size, IntDirective, ElementSize
<1> HIDE DEF expected
<1>4. /\ Progress' /\ SpansFollow'
      /\ UNCHANGED <<prog, symtab, files>>
      /\ i \in Nat /\ DOMAIN emissions = 1 .. i - 1 /\ DOMAIN emissions' = 1 .. i
      /\ \A k \in 1 .. i - 1 : emissions'[k] = emissions[k]
      /\ emissions'[i] = [section |-> section, offset |-> size[section], size |-> expected]
  <2>1. Emit(section', expected) /\ size[section'] + expected = size'[section']
    BY <1>0, <1>1, <1>2
  <2>2. emissions'[i] = [section |-> section', offset |-> size[section'], size |-> expected]
    BY <1>0, <1>1, <2>1, SpanStep
  <2> QED BY <1>0, <1>1, <2>1, <2>2, SpanStep
<1>5. errors2' = {} => errors2 = {} /\ ~HasUnresolvedElement
  BY <1>0, <1>1 DEF Report2
<1>6. ChunksFollow'
  <2>1. 1 .. i - 1 \subseteq 1 .. i
    BY <1>4
  <2> QED BY <1>0, <1>1, <1>4, <1>5, <2>1, ChunksStay
<1>7. RowsFollow'
  BY <1>0, <1>1, <1>4, TextGrows, RowsStay DEF Pass1Kept
<1>8. ElementsDone(relocs', 3)
  <2>1. ElementsDone(relocs, 0)
    BY <1>0, <1>1, NoElementsDone DEF Pass1Kept
  <2>2. ElementsDone(relocs \o ElementReloc(0 + 1), 0 + 1)
    BY <1>0, <1>1, <2>1, NextElement
  <2>3. ElementsDone(relocs \o ElementReloc(1) \o ElementReloc(1 + 1), 1 + 1)
    BY <1>0, <1>1, <2>2, NextElement
  <2>4. ElementsDone(relocs \o ElementReloc(1) \o ElementReloc(2) \o ElementReloc(2 + 1), 2 + 1)
    BY <1>0, <1>1, <2>3, NextElement
  <2> QED BY <1>0, <1>1, <2>4
<1>9. RelocsFollow'
  <2>1. \A a \in DOMAIN relocs : a \in DOMAIN relocs' /\ relocs'[a] = relocs[a]
    BY <1>8 DEF ElementsDone
  <2>2. \A a \in DOMAIN relocs' : a \in DOMAIN relocs \/ IsElementField(relocs'[a])
    BY <1>8 DEF ElementsDone
  <2>3. \A a \in DOMAIN relocs' : IsElementField(relocs'[a]) =>
          /\ relocs'[a].stmt = i /\ relocs'[a].section # "BSS"
          /\ IsOutputSymbol(symtab[relocs'[a].symbol])
    BY <1>0, <1>1 DEF IsElementField, Resolvable, IsOutputSymbol, IsExternal
  <2>4. \A a \in DOMAIN relocs' : IsElementField(relocs'[a]) => Inside(relocs[a])'
    BY <1>3, <1>4 DEF IsElementField, Inside, FieldBytes
  <2>5. ASSUME errors2' = {}, NEW j \in DOMAIN Stmt.ops,
               Stmt.ops[j].kind \in {"LABEL", "RIP"}
        PROVE  \E a \in DOMAIN relocs' : /\ relocs'[a].stmt = i
                                         /\ relocs'[a].symbol = Stmt.ops[j].sym
    <3>1. Stmt.directive = "INT64" /\ Stmt.ops[j].kind = "LABEL" /\ j <= 3
      BY <1>0, <1>1, <1>2, <2>5, DataOperands
    <3>2. Resolvable(Stmt.ops[j].sym)
      BY <1>5, <2>5, <3>1 DEF HasUnresolvedElement
    <3> QED BY <1>8, <3>1, <3>2 DEF ElementsDone
  <2>6. errors2' = {} => \A k \in {i} : \A j \in DOMAIN prog[k].ops : Settled(k, j)'
    BY <1>4, <2>5 DEF Settled, Stmt
  <2>7. errors2' = {} => \A a, b \in DOMAIN relocs' : a # b => Apart(relocs'[a], relocs'[b])
    BY <1>5, <1>8 DEF ElementsDone
  <2> QED BY <1>4, <1>5, <2>1, <2>2, <2>3, <2>4, <2>6, <2>7, RelocStep
<1> QED BY <1>4, <1>6, <1>7, <1>9

\* A step that ends pass 2 at a string that overflows.
LEMMA InterruptKeeps ==
    ASSUME PassesAgree, PassesAgree', Pass2Kept, phase = "pass2", i <= Len(prog),
           Overflows(Stmt), Proceed2(FALSE), NEW unresolved, Report2(unresolved, TRUE),
           NEW bytes \in Nat, Emit(section, bytes), UNCHANGED text_size,
           UNCHANGED <<section, code, relocs, location, lines>>
    PROVE  Pass2Kept'
<1> USE DEF Pass2Kept
<1> DEFINE new == [section |-> section, offset |-> size[section], size |-> bytes]
<1>1. /\ phase' = "done"
      /\ UNCHANGED <<prog, i, offset, alignment, symtab, files, errors1, layout>>
  BY DEF Proceed2, vars1
<1>2. i \in Nat /\ i \in DOMAIN prog /\ emissions \in Seq(Span) /\ Len(emissions) = i - 1
  BY DEF PassesAgree, TypeOK, ControlOK, Pass2ResultOK, Progress
<1>3. /\ section \in Section /\ size \in [Section -> Nat] /\ "TEXT" \in Section
      /\ text_size <= offset["TEXT"]
      /\ layout[i + 1] = LayoutAfter(Stmt, [section |-> section, offset |-> size])
  BY WherePass1Was DEF text_size, Section
<1>4. /\ new \in Span /\ emissions' = Append(emissions, new)
      /\ new.section = section /\ new.offset = size[section]
  BY <1>3 DEF Emit, Span
<1>5. layout[i + 1].section = section /\ layout[i].offset = size
  BY <1>3 DEF LayoutAfter, Overflows, SectionDirective, is_data_directive, PassesAgree,
     Retraces
<1> HIDE DEF new
<1>6. /\ DOMAIN emissions = 1 .. i - 1 /\ DOMAIN emissions' = 1 .. i
      /\ Len(emissions') = i /\ emissions'[i] = new
      /\ \A k \in 1 .. i - 1 : emissions'[k] = emissions[k]
  BY <1>2, <1>4
<1>7. errors2' # {} /\ Interrupted'
  <2>1. Diagnostic("internal") \in errors2' /\ Diagnostic("internal").why = "internal"
    BY DEF Report2, Diagnostic
  <2> QED BY <2>1 DEF Interrupted
<1>8. Progress'
  BY <1>1, <1>2, <1>3, <1>6, <1>7 DEF Progress
<1>9. SpansFollow'
  <2> SUFFICES ASSUME NEW k \in 1 .. i PROVE SpanFollows(k)'
    BY <1>6 DEF SpansFollow
  <2>1. CASE k = i
    BY <1>1, <1>4, <1>5, <1>6, <2>1 DEF SpanFollows, Stmt
  <2>2. CASE k \in 1 .. i - 1
    <3>1. SpanFollows(k)
      BY <1>6, <2>2 DEF SpansFollow
    <3> QED BY <1>1, <1>6, <2>2, <3>1 DEF SpanFollows
  <2> QED BY <1>2, <2>1, <2>2
<1>10. DOMAIN emissions \subseteq DOMAIN emissions'
  BY <1>2, <1>6
<1>11. ChunksFollow'
  BY <1>7, <1>10 DEF ChunksFollow
<1>12. RowsFollow'
  BY <1>1 DEF RowsFollow, GoodPosition, debug_file_find
<1>13. RelocsFollow'
  BY <1>1, <1>7, <1>10 DEF RelocsFollow
<1> QED BY <1>8, <1>9, <1>11, <1>12, <1>13

LEMMA Pass2NegativeSizeKeeps ==
    ASSUME PassesAgree, PassesAgree', Pass2Kept, Pass2NegativeSize
    PROVE  Pass2Kept'
<1>1. /\ InPass2Data /\ ExpectedSize < 0 /\ Emit(section, 0)
      /\ Report2(FALSE, TRUE) /\ Proceed2(FALSE)
      /\ UNCHANGED <<section, size, code, relocs, location, lines>>
  BY DEF Pass2NegativeSize
<1>2. phase = "pass2" /\ i <= Len(prog) /\ Overflows(Stmt)
  BY <1>1, DataStep
<1>3. 0 \in Nat /\ UNCHANGED text_size
  BY <1>1 DEF text_size
<1> QED BY <1>1, <1>2, <1>3, InterruptKeeps

LEMMA Pass2DataKeeps ==
    ASSUME PassesAgree, PassesAgree', Pass1Kept, Pass2Kept, Pass2Data
    PROVE  Pass2Kept'
<1>1. CASE Overflows(Stmt)
  <2>1. /\ phase = "pass2" /\ i <= Len(prog) /\ section \in Section \ {"TEXT"}
        /\ Proceed2(FALSE) /\ Report2(HasUnresolvedElement, TRUE)
        /\ UNCHANGED <<section, code, relocs, location, lines>>
    BY <1>1, OverflowStops
  <2>2. UNCHANGED text_size
    <3>1. PICK bytes \in Nat : size' = [size EXCEPT ![section] = @ + bytes]
      BY <1>1, OverflowStops
    <3>2. size \in [Section -> Nat] /\ "TEXT" \in Section
      BY DEF PassesAgree, TypeOK, Pass2ResultOK, Section
    <3> QED BY <2>1, <3>1, <3>2 DEF text_size
  <2>3. PICK bytes \in Nat : Emit(section, bytes)
    BY <1>1, OverflowStops
  <2> QED BY <1>1, <2>1, <2>2, <2>3, InterruptKeeps
<1>2. CASE ~Overflows(Stmt)
  BY <1>2, CountedDataKeeps
<1> QED BY <1>1, <1>2

-----------------------------------------------------------------------------
(* Instructions *)

\* The chunk and the span of an instruction.
LEMMA TextWritten ==
    ASSUME PassesAgree, PassesAgree', Pass2Kept, InPass2Text,
           NEW bytes \in Nat, NEW rel \in Int, WriteText(bytes, rel, TRUE),
           Proceed2(TRUE), UNCHANGED section
    PROVE  LET chunk == [stmt |-> i, offset |-> text_size, len |-> bytes, rel |-> rel] IN
           /\ Progress' /\ SpansFollow' /\ UNCHANGED <<prog, symtab, files>>
           /\ i \in Nat /\ DOMAIN emissions = 1 .. i - 1 /\ DOMAIN emissions' = 1 .. i
           /\ \A k \in 1 .. i - 1 : emissions'[k] = emissions[k]
           /\ emissions'[i] = [section |-> "TEXT", offset |-> text_size, size |-> bytes]
           /\ i \in 1 .. i
           /\ text_size \in Nat /\ text_size' = text_size + bytes
           /\ DOMAIN code' = DOMAIN code \union {Len(code) + 1}
           /\ \A c \in DOMAIN code : code'[c] = code[c]
           /\ code'[Len(code) + 1] = chunk
<1> DEFINE chunk == [stmt |-> i, offset |-> text_size, len |-> bytes, rel |-> rel]
<1>1. /\ phase = "pass2" /\ i <= Len(prog) /\ section = "TEXT"
      /\ "TEXT" \in Section /\ size \in [Section -> Nat] /\ text_size \in Nat
  BY TextStep
<1>2. /\ size' = [size EXCEPT !["TEXT"] = @ + bytes] /\ code' = Append(code, chunk)
      /\ Emit("TEXT", bytes)
  BY DEF WriteText
<1>3. section' = "TEXT" /\ Emit(section', bytes) /\ size[section'] + bytes = size'[section']
  BY <1>1, <1>2
<1>4. /\ Progress' /\ SpansFollow' /\ UNCHANGED <<prog, symtab, files>>
      /\ i \in Nat /\ DOMAIN emissions = 1 .. i - 1 /\ DOMAIN emissions' = 1 .. i
      /\ \A k \in 1 .. i - 1 : emissions'[k] = emissions[k]
  BY <1>1, <1>3, SpanStep DEF Pass2Kept
<1>5. emissions'[i] = [section |-> section', offset |-> size[section'], size |-> bytes]
  BY <1>1, <1>3, SpanStep DEF Pass2Kept
<1>6. emissions'[i] = [section |-> "TEXT", offset |-> text_size, size |-> bytes]
  BY <1>3, <1>5 DEF text_size
<1>7. text_size' = text_size + bytes
  BY <1>1, <1>2 DEF text_size
<1>8. chunk \in Chunk /\ code \in Seq(Chunk)
  BY <1>1, <1>4 DEF Chunk, PassesAgree, TypeOK, Pass2ResultOK
<1>9. i \in 1 .. i
  BY <1>4 DEF PassesAgree, TypeOK, ControlOK
<1> HIDE DEF chunk
<1>10. /\ DOMAIN code' = DOMAIN code \union {Len(code) + 1}
       /\ \A c \in DOMAIN code : code'[c] = code[c]
       /\ code'[Len(code) + 1] = chunk
  BY <1>2, <1>8
<1> QED BY <1>1, <1>4, <1>6, <1>7, <1>9, <1>10 DEF chunk

\* The new chunk lands where its label is, or an error was reported.
LEMMA ChunkStep ==
    ASSUME PassesAgree, PassesAgree', Pass2Kept, InPass2Text,
           NEW bytes \in Nat, NEW rel \in Int, WriteText(bytes, rel, TRUE),
           Proceed2(TRUE), UNCHANGED section,
           errors2' = {} =>
             /\ errors2 = {}
             /\ BranchLands([stmt |-> i, offset |-> text_size, len |-> bytes, rel |-> rel])
    PROVE  ChunksFollow'
<1> DEFINE chunk == [stmt |-> i, offset |-> text_size, len |-> bytes, rel |-> rel]
<1>1. /\ UNCHANGED <<prog, symtab>> /\ i \in Nat /\ i \in 1 .. i
      /\ DOMAIN emissions = 1 .. i - 1 /\ DOMAIN emissions' = 1 .. i
      /\ DOMAIN code' = DOMAIN code \union {Len(code) + 1}
      /\ \A c \in DOMAIN code : code'[c] = code[c]
      /\ code'[Len(code) + 1] = chunk
  BY TextWritten
<1>2. chunk.stmt = i /\ (errors2' = {} => errors2 = {} /\ BranchLands(chunk))
  OBVIOUS
<1> HIDE DEF chunk
<1>3. ASSUME NEW c \in DOMAIN code'
      PROVE  code'[c].stmt \in 1 .. i /\ (errors2' = {} => BranchLands(code[c])')
  <2>1. CASE c \in DOMAIN code
    <3>1. code[c].stmt \in 1 .. i - 1 /\ (errors2' = {} => BranchLands(code[c]))
      BY <1>1, <1>2, <2>1 DEF Pass2Kept, ChunksFollow
    <3>2. code[c].stmt \in 1 .. i
      BY <1>1, <3>1
    <3> QED BY <1>1, <2>1, <3>1, <3>2 DEF BranchLands, HasKind
  <2>2. CASE c = Len(code) + 1
    BY <1>1, <1>2, <2>2 DEF BranchLands, HasKind
  <2> QED BY <1>1, <2>1, <2>2
<1> QED BY <1>1, <1>3 DEF ChunksFollow

\* A row is pushed at the offset of the instruction, behind all earlier ones.
LEMMA RowStep ==
    ASSUME PassesAgree, PassesAgree', Pass2Kept, InPass2Text,
           NEW bytes \in Nat, bytes > 0, NEW rel \in Int, WriteText(bytes, rel, TRUE),
           Proceed2(TRUE), UNCHANGED <<section, location>>, push_debug_line
    PROVE  RowsFollow'
<1> DEFINE row == [file |-> location.file, line |-> location.line,
                   column |-> location.column, offset |-> text_size]
           n == Len(lines) + 1
           m == Len(code) + 1
<1>1. /\ UNCHANGED <<prog, symtab, files>>
      /\ text_size \in Nat /\ text_size' = text_size + bytes
      /\ DOMAIN code' = DOMAIN code \union {m}
      /\ \A c \in DOMAIN code : code'[c] = code[c]
      /\ code'[m].offset = text_size
  <2>1. code'[m] = [stmt |-> i, offset |-> text_size, len |-> bytes, rel |-> rel]
    BY TextWritten
  <2>2. code'[m].offset = text_size
    BY <2>1
  <2> QED BY <2>2, TextWritten
<1>2. text_size' \in Nat /\ text_size < text_size'
  BY <1>1
<1>3. lines \in Seq(DebugLine) /\ row \in DebugLine
      /\ \A a \in DOMAIN lines : lines[a] \in DebugLine
  <2>1. lines \in Seq(DebugLine) /\ location \in [file : Int, line : Int, column : Int]
    BY DEF PassesAgree, TypeOK, Pass2ResultOK
  <2>2. row \in DebugLine
    BY <1>1, <2>1 DEF DebugLine
  <2> QED BY <2>1, <2>2
<1>4. \A a \in DOMAIN lines : lines[a].offset \in Nat /\ lines[a].offset < text_size
  BY <1>3 DEF DebugLine, Pass2Kept, RowsFollow
<1>5. row.offset = text_size /\ row.file = location.file /\ row.line = location.line
      /\ row.column = location.column
  OBVIOUS
<1>6. location' = NoLocation \/ GoodPosition(location)'
  BY <1>1 DEF Pass2Kept, RowsFollow, GoodPosition, debug_file_find
<1> HIDE DEF m
<1>7. \A a \in DOMAIN lines :
        /\ lines[a].offset < text_size'
        /\ GoodPosition(lines[a])
        /\ \A b \in DOMAIN lines : a < b => lines[a].offset < lines[b].offset
        /\ \E c \in DOMAIN code' : code'[c].offset = lines[a].offset
  BY <1>1, <1>2, <1>4 DEF Pass2Kept, RowsFollow
<1>8. CASE location.file # 0 /\ location.line # 0
  <2>1. GoodPosition(row)
    <3>1. location # NoLocation
      BY <1>8 DEF NoLocation
    <3>2. GoodPosition(location)
      BY <3>1 DEF Pass2Kept, RowsFollow
    <3> QED BY <1>5, <3>2 DEF GoodPosition
  <2>2. lines' = Append(lines, row)
    BY <1>8 DEF push_debug_line
  <2> HIDE DEF row
  <2>3. /\ DOMAIN lines' = DOMAIN lines \union {n}
        /\ \A a \in DOMAIN lines : lines'[a] = lines[a]
        /\ lines'[n] = row
        /\ n \in Nat /\ \A a \in DOMAIN lines : a \in Nat /\ a < n
    BY <1>3, <2>2
  <2> HIDE DEF n
  <2>4. \A a \in DOMAIN lines' :
          /\ lines'[a].offset < text_size'
          /\ GoodPosition(lines'[a])
          /\ \E c \in DOMAIN code' : code'[c].offset = lines'[a].offset
    BY <1>1, <1>2, <1>5, <1>7, <2>1, <2>3
  <2>5. ASSUME NEW a \in DOMAIN lines', NEW b \in DOMAIN lines', a < b
        PROVE  lines'[a].offset < lines'[b].offset
    <3>1. a \in DOMAIN lines
      BY <2>3, <2>5
    <3>2. CASE b \in DOMAIN lines
      BY <1>7, <2>3, <2>5, <3>1, <3>2
    <3>3. CASE b = n
      BY <1>4, <1>5, <2>3, <3>1, <3>3
    <3> QED BY <2>3, <3>2, <3>3
  <2>6. \A a \in DOMAIN lines' : GoodPosition(lines[a])'
    BY <1>1, <2>4 DEF GoodPosition, debug_file_find
  <2> QED BY <1>6, <2>4, <2>5, <2>6 DEF RowsFollow
<1>9. CASE ~(location.file # 0 /\ location.line # 0)
  <2>1. lines' = lines
    BY <1>9 DEF push_debug_line
  <2>2. \A a \in DOMAIN lines : GoodPosition(lines[a])'
    BY <1>1, <1>7, <2>1 DEF GoodPosition, debug_file_find
  <2> QED BY <1>6, <1>7, <2>1, <2>2 DEF RowsFollow
<1> QED BY <1>8, <1>9

\* A statement whose only operand is a label.
LEMMA OneLabelShape ==
    ASSUME NEW s \in Stmts, OneLabel(s)
    PROVE  DOMAIN s.ops = {1} /\ s.ops[1].kind = "LABEL" /\ s.ops[1].sym \in Names
<1>1. DOMAIN OpKinds(s) = DOMAIN s.ops
  BY DEF OpKinds
<1>2. DOMAIN <<"LABEL">> = {1}
  OBVIOUS
<1>3. DOMAIN s.ops = {1}
  BY <1>1, <1>2 DEF OneLabel
<1>4. s.ops[1].kind = "LABEL"
  BY <1>3 DEF OneLabel, OpKinds
<1> QED BY <1>3, <1>4, OneLabelFacts

\* A statement with two operands of known kinds.
LEMMA TwoOperandShape ==
    ASSUME NEW s \in Stmts, NEW a, NEW b, OpKinds(s) = <<a, b>>
    PROVE  DOMAIN s.ops = {1, 2} /\ s.ops[1].kind = a /\ s.ops[2].kind = b
<1>1. DOMAIN OpKinds(s) = DOMAIN s.ops
  BY DEF OpKinds
<1>2. DOMAIN <<a, b>> = {1, 2} /\ <<a, b>>[1] = a /\ <<a, b>>[2] = b
  OBVIOUS
<1>3. DOMAIN s.ops = {1, 2}
  BY <1>1, <1>2
<1>4. OpKinds(s)[1] = s.ops[1].kind /\ OpKinds(s)[2] = s.ops[2].kind
  BY <1>3 DEF OpKinds
<1> QED BY <1>2, <1>3, <1>4

\* Relocations of the current statement that the writers can resolve.
FromStatement(q) ==
    /\ q \in Seq(Relocation)
    /\ \A a \in DOMAIN q :
           /\ q[a].stmt = i /\ q[a].section # "BSS"
           /\ IsOutputSymbol(symtab[q[a].symbol])

LEMMA FromStatementConcat ==
    ASSUME NEW p, NEW q, FromStatement(p), FromStatement(q)
    PROVE  FromStatement(p \o q)
<1>1. p \in Seq(Relocation) /\ q \in Seq(Relocation)
  BY DEF FromStatement
<1>2. \A a \in DOMAIN (p \o q) :
        \/ a \in DOMAIN p /\ (p \o q)[a] = p[a]
        \/ a - Len(p) \in DOMAIN q /\ (p \o q)[a] = q[a - Len(p)]
  BY <1>1, ConcatFacts
<1>3. p \o q \in Seq(Relocation)
  BY <1>1, ConcatIsASequence
<1> QED BY <1>2, <1>3 DEF FromStatement

\* The resolution loop asks only for symbols that have an entry to show.
LEMMA LabelRelocNames ==
    ASSUME PassesAgree, InPass2Text, NEW k \in Nat
    PROVE  FromStatement(LabelReloc(k))
<1>1. LabelReloc(k) \in Seq(Relocation)
  BY TextStep, LabelRelocFacts
<1> DEFINE sym == Stmt.ops[k].sym
           far == RelocAt("TEXT", "PC32",
                          text_size + relative_label_relocation_offset(Stmt.opcode), sym, -4)
           abs == RelocAt("TEXT", "ABS64", text_size + mov_reg_label_relocation_offset,
                          sym, 0)
<1>2. \/ LabelReloc(k) = << >>
      \/ LabelReloc(k) = <<far>> /\ IsExternal(symtab[sym])
      \/ LabelReloc(k) = <<abs>> /\ Resolvable(sym)
  BY DEF LabelReloc
<1>3. /\ far.stmt = i /\ far.section = "TEXT" /\ far.symbol = sym
      /\ abs.stmt = i /\ abs.section = "TEXT" /\ abs.symbol = sym
  BY DEF RelocAt
<1> HIDE DEF far, abs, sym
<1>4. CASE LabelReloc(k) = << >>
  BY <1>1, <1>4 DEF FromStatement
<1>5. CASE LabelReloc(k) = <<far>> /\ IsExternal(symtab[sym])
  <2>1. \A a \in DOMAIN <<far>> : <<far>>[a] = far
    OBVIOUS
  <2>2. IsOutputSymbol(symtab[sym])
    BY <1>5 DEF IsExternal, IsOutputSymbol
  <2> QED BY <1>1, <1>3, <1>5, <2>1, <2>2 DEF FromStatement
<1>6. CASE LabelReloc(k) = <<abs>> /\ Resolvable(sym)
  <2>1. \A a \in DOMAIN <<abs>> : <<abs>>[a] = abs
    OBVIOUS
  <2>2. IsOutputSymbol(symtab[sym])
    BY <1>6 DEF Resolvable, IsExternal, IsOutputSymbol
  <2> QED BY <1>1, <1>3, <1>6, <2>1, <2>2 DEF FromStatement
<1> QED BY <1>2, <1>4, <1>5, <1>6

\* A form that is filled with 0x90 was reported; the rest stays in place.
LEMMA Pass2FilledKeeps ==
    ASSUME PassesAgree, PassesAgree', Pass1Kept, Pass2Kept, Pass2Filled
    PROVE  Pass2Kept'
<1> DEFINE sz == InstructionBytes(Stmt)
<1>1. InPass2Text
  BY DEF Pass2Filled
<1>2. sz \in Nat /\ sz > 0 /\ FitsText(sz) = TRUE
  BY <1>1, TextStep, InstructionBytesPositive DEF FitsText
<1>3. /\ WriteText(sz, 0, FitsText(sz)) /\ Report2(TRUE, ~FitsText(sz))
      /\ Proceed2(FitsText(sz)) /\ relocs' = relocs \o LabelRelocs
      /\ push_debug_line /\ UNCHANGED <<section, location>>
  BY DEF Pass2Filled
<1> HIDE DEF sz
<1>4. WriteText(sz, 0, TRUE) /\ Proceed2(TRUE) /\ 0 \in Int
  <2>1. WriteText(sz, 0, TRUE) /\ Proceed2(TRUE)
    BY <1>2, <1>3, Zenon
  <2>2. 0 \in Int
    OBVIOUS
  <2> QED BY <2>1, <2>2
<1>5. errors2' # {}
  BY <1>3 DEF Report2
<1>6. ChunksFollow'
  BY <1>1, <1>2, <1>3, <1>4, <1>5, ChunkStep
<1>7. RowsFollow'
  BY <1>1, <1>2, <1>3, <1>4, RowStep
<1>8. /\ Progress' /\ SpansFollow' /\ UNCHANGED <<prog, symtab>>
      /\ i \in Nat /\ DOMAIN emissions = 1 .. i - 1 /\ DOMAIN emissions' = 1 .. i
      /\ \A k \in 1 .. i - 1 : emissions'[k] = emissions[k]
  BY <1>1, <1>2, <1>3, <1>4, TextWritten
<1>9. RelocsFollow'
  <2>1. FromStatement(LabelRelocs)
    <3>1. FromStatement(LabelReloc(1)) /\ FromStatement(LabelReloc(2))
          /\ FromStatement(LabelReloc(3))
      BY <1>1, LabelRelocNames
    <3>2. FromStatement(LabelReloc(1) \o LabelReloc(2))
      BY <3>1, FromStatementConcat
    <3> QED BY <3>1, <3>2, FromStatementConcat DEF LabelRelocs
  <2>2. relocs \in Seq(Relocation) /\ LabelRelocs \in Seq(Relocation)
    BY <2>1 DEF FromStatement, PassesAgree, TypeOK, Pass2ResultOK
  <2>3. \A a \in DOMAIN relocs : a \in DOMAIN relocs' /\ relocs'[a] = relocs[a]
    BY <1>3, <2>2, ConcatFacts
  <2>4. \A a \in DOMAIN relocs' : a \in DOMAIN relocs \/
          /\ relocs'[a].stmt = i /\ relocs'[a].section # "BSS"
          /\ IsOutputSymbol(symtab[relocs'[a].symbol])
    <3>1. \A a \in DOMAIN relocs' : a \notin DOMAIN relocs =>
            /\ a - Len(relocs) \in DOMAIN LabelRelocs
            /\ relocs'[a] = LabelRelocs[a - Len(relocs)]
      BY <1>3, <2>2, ConcatFacts
    <3> QED BY <2>1, <3>1 DEF FromStatement
  <2> QED BY <1>5, <1>8, <2>3, <2>4, RelocStep DEF Pass2Kept
<1> QED BY <1>6, <1>7, <1>8, <1>9 DEF Pass2Kept

\* What the resolution loop and the encoder leave of an encoded statement.
LEMMA EncodedFacts ==
    ASSUME PassesAgree, Pass2Encoded
    PROVE  LET len == InstructionBytes(Stmt)
               rip == RipReloc(1, len) \o RipReloc(2, len) \o RipReloc(3, len)
           IN  /\ InPass2Text /\ ~resolution_error /\ Stmt \in Stmts
               /\ len \in Nat /\ len > 0 /\ text_size \in Nat
               /\ resolved_target \in Int
               /\ WriteText(len, resolved_target, TRUE) /\ Proceed2(TRUE)
               /\ relocs' = relocs \o LabelRelocs \o rip
               /\ errors2' = errors2
               /\ push_debug_line /\ UNCHANGED <<section, location>>
               /\ HasKind(Stmt, "RIP") =>
                    /\ OpKinds(Stmt) \in {<<"REG", "RIP">>, <<"RIP", "REG">>}
                    /\ len >= 4
               /\ HasKind(Stmt, "LABEL") =>
                    \/ Stmt.opcode \in {"JMP", "CALL"} /\ OneLabel(Stmt) /\ len = 5
                    \/ Stmt.opcode \in Jcc /\ OneLabel(Stmt) /\ len = 6
                    \/ /\ Stmt.opcode = "MOV" /\ OpKinds(Stmt) = <<"REG", "LABEL">>
                       /\ len = 10
<1> DEFINE enc    == EncodingOf(Stmt, resolved_target)
           agrees == /\ enc.len = InstructionBytes(Stmt)
                     /\ HasKind(Stmt, "RIP") => enc.len >= 4
           ok     == agrees /\ FitsText(enc.len)
           rip    == RipReloc(1, enc.len) \o RipReloc(2, enc.len) \o RipReloc(3, enc.len)
<1>1. InPass2Text /\ ~resolution_error /\ ~enc.error
  BY DEF Pass2Encoded
<1>2. Stmt \in Stmts /\ text_size \in Nat
  BY <1>1, TextStep
<1>3. resolved_target \in INT32_MIN .. INT32_MAX /\ resolved_target \in Int
  <2>1. resolved_target \in INT32_MIN .. INT32_MAX
    BY <1>1, TextStep, TargetInRange
  <2> QED BY <2>1, LimitsAssumption DEF INT32_MIN
<1>4. /\ enc.len = InstructionBytes(Stmt)
      /\ HasKind(Stmt, "RIP") =>
           /\ OpKinds(Stmt) \in {<<"REG", "RIP">>, <<"RIP", "REG">>}
           /\ enc.len >= 4
      /\ HasKind(Stmt, "LABEL") =>
           \/ Stmt.opcode \in {"JMP", "CALL"} /\ OneLabel(Stmt) /\ enc.len = 5
           \/ Stmt.opcode \in Jcc /\ OneLabel(Stmt) /\ enc.len = 6
           \/ /\ Stmt.opcode = "MOV" /\ OpKinds(Stmt) = <<"REG", "LABEL">>
              /\ enc.len = 10
  BY <1>1, <1>2, <1>3, EncoderAssumption
<1>5. agrees /\ ok
  BY <1>1, <1>4, TextStep
<1>6. /\ relocs' = relocs \o LabelRelocs \o (IF agrees THEN rip ELSE <<>>)
      /\ WriteText(enc.len, resolved_target, ok) /\ Report2(FALSE, ~ok) /\ Proceed2(ok)
      /\ push_debug_line /\ UNCHANGED <<section, location>>
  BY DEF Pass2Encoded
<1>7. InstructionBytes(Stmt) \in Nat /\ InstructionBytes(Stmt) > 0
  BY <1>2, InstructionBytesPositive
<1> HIDE DEF agrees, ok
<1>8. WriteText(enc.len, resolved_target, TRUE)
  BY <1>5, <1>6 DEF WriteText
<1>9. Proceed2(TRUE)
  BY <1>5, <1>6 DEF Proceed2
<1>10. errors2' = errors2
  BY <1>5, <1>6 DEF Report2
<1>11. relocs' = relocs \o LabelRelocs \o rip
  BY <1>5, <1>6
<1> QED BY <1>1, <1>2, <1>3, <1>4, <1>6, <1>7, <1>8, <1>9, <1>10, <1>11

\* An operand that raised no resolution error.
LEMMA ResolvedOperand ==
    ASSUME PassesAgree, InPass2Text, ~resolution_error, NEW k \in DOMAIN Stmt.ops
    PROVE  /\ Stmt.ops[k].kind = "RIP" => Resolvable(Stmt.ops[k].sym)
           /\ Stmt.ops[k].kind = "LABEL" =>
                \/ IsExternal(symtab[Stmt.ops[k].sym])
                \/ /\ symtab[Stmt.ops[k].sym].defined
                   /\ opcode_uses_relative_label(Stmt.opcode) =>
                        symtab[Stmt.ops[k].sym].section = "TEXT"
BY DEF resolution_error, OperandUnresolved, IsExternal

\* The field the linker patches in an encoded statement, if there is one.
IsTextField(r, len) ==
    /\ r \in Relocation /\ r.stmt = i /\ r.section = "TEXT"
    /\ text_size <= r.offset /\ r.offset + FieldBytes(r) <= text_size + len
    /\ IsOutputSymbol(symtab[r.symbol])

\* A symbol operand of the current statement needs no relocation.
IsNear(op) == opcode_uses_relative_label(Stmt.opcode) /\ symtab[op.sym].defined

SymbolOperands == {k \in DOMAIN Stmt.ops : Stmt.ops[k].kind \in {"LABEL", "RIP"}}

LEMMA RipField ==
    ASSUME PassesAgree, InPass2Text, ~resolution_error, NEW len \in Nat, len >= 4,
           NEW k \in DOMAIN Stmt.ops, Stmt.ops[k].kind = "RIP"
    PROVE  \E r : /\ RipReloc(k, len) = <<r>> /\ IsTextField(r, len)
                  /\ r.symbol = Stmt.ops[k].sym
<1> DEFINE r == RelocAt("TEXT", "PC32", text_size + len - 4, Stmt.ops[k].sym, -4)
<1>1. RipReloc(k, len) = <<r>>
  BY DEF RipReloc
<1>2. Stmt.ops[k].sym \in Names /\ text_size \in Nat /\ i \in Nat
  BY TextStep, StatementFacts DEF PassesAgree, TypeOK, ControlOK
<1>3. r \in Relocation
  BY <1>2 DEF RelocAt, Relocation, Section
<1>4. /\ r.stmt = i /\ r.section = "TEXT" /\ r.kind = "PC32"
      /\ r.offset = text_size + len - 4 /\ r.symbol = Stmt.ops[k].sym
  BY DEF RelocAt
<1>5. IsOutputSymbol(symtab[Stmt.ops[k].sym])
  BY ResolvedOperand DEF Resolvable, IsExternal, IsOutputSymbol
<1> HIDE DEF r
<1>6. IsTextField(r, len)
  BY <1>2, <1>3, <1>4, <1>5 DEF IsTextField, FieldBytes
<1> QED BY <1>1, <1>4, <1>6

LEMMA LabelField ==
    ASSUME PassesAgree, InPass2Text, ~resolution_error, NEW len \in Nat,
           NEW k \in DOMAIN Stmt.ops, Stmt.ops[k].kind = "LABEL",
           \/ Stmt.opcode \in {"JMP", "CALL"} /\ len = 5
           \/ Stmt.opcode \in Jcc /\ len = 6
           \/ is_mov_reg_label(Stmt, k) /\ len = 10
    PROVE  \/ LabelReloc(k) = << >> /\ IsNear(Stmt.ops[k])
           \/ \E r : /\ LabelReloc(k) = <<r>> /\ IsTextField(r, len)
                     /\ r.symbol = Stmt.ops[k].sym
<1> DEFINE sym == Stmt.ops[k].sym
           far == RelocAt("TEXT", "PC32",
                          text_size + relative_label_relocation_offset(Stmt.opcode), sym, -4)
           abs == RelocAt("TEXT", "ABS64", text_size + mov_reg_label_relocation_offset,
                          sym, 0)
<1>1. sym \in Names /\ text_size \in Nat /\ i \in Nat
  BY TextStep, StatementFacts DEF PassesAgree, TypeOK, ControlOK
<1>2. IsExternal(symtab[sym]) \/ symtab[sym].defined
  BY ResolvedOperand
<1>3. IsOutputSymbol(symtab[sym]) /\ Resolvable(sym)
  BY <1>2 DEF IsOutputSymbol, IsExternal, Resolvable
<1>4. CASE \/ Stmt.opcode \in {"JMP", "CALL"} /\ len = 5
           \/ Stmt.opcode \in Jcc /\ len = 6
  <2> DEFINE at == relative_label_relocation_offset(Stmt.opcode)
  <2>1. opcode_uses_relative_label(Stmt.opcode)
    BY <1>4 DEF opcode_uses_relative_label
  <2>2. at \in Nat /\ at + 4 = len
    BY <1>4 DEF relative_label_relocation_offset, Jcc
  <2>3. CASE IsExternal(symtab[sym])
    <3>1. LabelReloc(k) = <<far>>
      BY <2>1, <2>3 DEF LabelReloc
    <3> HIDE DEF at
    <3>2. far \in Relocation
      <4>1. text_size + at \in Nat
        BY <1>1, <2>2
      <4> QED BY <1>1, <4>1 DEF RelocAt, Relocation, Section, at
    <3>3. /\ far.stmt = i /\ far.section = "TEXT" /\ far.kind = "PC32"
          /\ far.offset = text_size + at /\ far.symbol = sym
      BY DEF RelocAt, at
    <3> HIDE DEF far
    <3>4. IsTextField(far, len)
      BY <1>1, <1>3, <2>2, <3>2, <3>3 DEF IsTextField, FieldBytes
    <3> QED BY <3>1, <3>3, <3>4
  <2>4. CASE ~IsExternal(symtab[sym])
    BY <1>2, <2>1, <2>4 DEF LabelReloc, IsNear
  <2> QED BY <2>3, <2>4
<1>5. CASE is_mov_reg_label(Stmt, k) /\ len = 10
  <2>1. ~opcode_uses_relative_label(Stmt.opcode)
    BY <1>5 DEF is_mov_reg_label, opcode_uses_relative_label, Jcc
  <2>2. LabelReloc(k) = <<abs>>
    BY <1>3, <1>5, <2>1 DEF LabelReloc
  <2>3. abs \in Relocation
    BY <1>1 DEF RelocAt, Relocation, Section, mov_reg_label_relocation_offset
  <2>4. /\ abs.stmt = i /\ abs.section = "TEXT" /\ abs.kind = "ABS64"
        /\ abs.offset = text_size + 2 /\ abs.symbol = sym
    BY DEF RelocAt, mov_reg_label_relocation_offset
  <2> HIDE DEF abs
  <2>5. IsTextField(abs, len)
    BY <1>1, <1>3, <1>5, <2>3, <2>4 DEF IsTextField, FieldBytes
  <2> QED BY <2>2, <2>4, <2>5
<1> QED BY <1>4, <1>5

\* The relocations of operands that are not there or name no symbol.
LEMMA NoField ==
    ASSUME NEW k, NEW len,
           k \notin DOMAIN Stmt.ops \/ Stmt.ops[k].kind \notin {"LABEL", "RIP"}
    PROVE  LabelReloc(k) = << >> /\ RipReloc(k, len) = << >>
BY DEF LabelReloc, RipReloc

\* An encoded statement has at most one field to patch, inside its own bytes,
\* and each of its symbols is a near branch target or the symbol of that field.
LEMMA EncodedRelocs ==
    ASSUME PassesAgree, Pass2Encoded
    PROVE  LET len == InstructionBytes(Stmt) IN
           \/ relocs' = relocs /\ \A k \in SymbolOperands : IsNear(Stmt.ops[k])
           \/ \E r : /\ relocs' = relocs \o <<r>> /\ IsTextField(r, len)
                     /\ \A k \in SymbolOperands :
                          IsNear(Stmt.ops[k]) \/ r.symbol = Stmt.ops[k].sym
<1> DEFINE len == InstructionBytes(Stmt)
           rip == RipReloc(1, len) \o RipReloc(2, len) \o RipReloc(3, len)
<1>1. /\ InPass2Text /\ ~resolution_error /\ Stmt \in Stmts
      /\ len \in Nat /\ relocs' = relocs \o LabelRelocs \o rip
      /\ HasKind(Stmt, "RIP") =>
           /\ OpKinds(Stmt) \in {<<"REG", "RIP">>, <<"RIP", "REG">>}
           /\ len >= 4
      /\ HasKind(Stmt, "LABEL") =>
           \/ Stmt.opcode \in {"JMP", "CALL"} /\ OneLabel(Stmt) /\ len = 5
           \/ Stmt.opcode \in Jcc /\ OneLabel(Stmt) /\ len = 6
           \/ /\ Stmt.opcode = "MOV" /\ OpKinds(Stmt) = <<"REG", "LABEL">>
              /\ len = 10
  BY EncodedFacts
<1>2. relocs \in Seq(Relocation)
  BY DEF PassesAgree, TypeOK, Pass2ResultOK
<1>3. \A q \in Seq(Relocation) : q \o << >> = q /\ << >> \o q = q
  BY EmptyConcats
<1>4. << >> \in Seq(Relocation) /\ << >> \o << >> = << >>
  OBVIOUS
<1>5. \A k \in {1, 2, 3} : LabelReloc(k) \in Seq(Relocation)
  BY <1>1, TextStep, LabelRelocFacts
<1> HIDE DEF len
<1>6. CASE HasKind(Stmt, "LABEL") /\ OneLabel(Stmt)
           /\ (\/ Stmt.opcode \in {"JMP", "CALL"} /\ len = 5
               \/ Stmt.opcode \in Jcc /\ len = 6)
  <2>1. DOMAIN Stmt.ops = {1} /\ Stmt.ops[1].kind = "LABEL"
    BY <1>1, <1>6, OneLabelShape
  <2>2. /\ LabelReloc(2) = << >> /\ LabelReloc(3) = << >>
        /\ RipReloc(2, len) = << >> /\ RipReloc(3, len) = << >>
    BY <2>1, NoField
  <2>3. RipReloc(1, len) = << >>
    BY <2>1 DEF RipReloc
  <2>4. relocs' = relocs \o LabelReloc(1)
    <3>1. LabelRelocs = LabelReloc(1)
      BY <1>3, <1>5, <2>2 DEF LabelRelocs
    <3>2. rip = << >>
      BY <1>4, <2>2, <2>3
    <3>3. relocs \o LabelReloc(1) \in Seq(Relocation)
      BY <1>2, <1>5, ConcatIsASequence
    <3> QED BY <1>1, <1>3, <3>1, <3>2, <3>3
  <2>5. \/ LabelReloc(1) = << >> /\ IsNear(Stmt.ops[1])
        \/ \E r : /\ LabelReloc(1) = <<r>> /\ IsTextField(r, len)
                  /\ r.symbol = Stmt.ops[1].sym
    BY <1>1, <1>6, <2>1, LabelField
  <2>6. \A k \in SymbolOperands : k = 1
    BY <2>1 DEF SymbolOperands
  <2> QED BY <1>2, <1>3, <2>4, <2>5, <2>6 DEF len
<1>7. CASE Stmt.opcode = "MOV" /\ OpKinds(Stmt) = <<"REG", "LABEL">> /\ len = 10
  <2>1. DOMAIN Stmt.ops = {1, 2} /\ Stmt.ops[1].kind = "REG" /\ Stmt.ops[2].kind = "LABEL"
    BY <1>1, <1>7, TwoOperandShape
  <2>2. /\ LabelReloc(1) = << >> /\ LabelReloc(3) = << >>
        /\ RipReloc(1, len) = << >> /\ RipReloc(3, len) = << >>
    BY <2>1, NoField
  <2>3. RipReloc(2, len) = << >>
    BY <2>1 DEF RipReloc
  <2>4. relocs' = relocs \o LabelReloc(2)
    <3>1. LabelRelocs = LabelReloc(2)
      BY <1>3, <1>5, <2>2 DEF LabelRelocs
    <3>2. rip = << >>
      BY <1>4, <2>2, <2>3
    <3>3. relocs \o LabelReloc(2) \in Seq(Relocation)
      BY <1>2, <1>5, ConcatIsASequence
    <3> QED BY <1>1, <1>3, <3>1, <3>2, <3>3
  <2>5. is_mov_reg_label(Stmt, 2)
    BY <1>7 DEF is_mov_reg_label
  <2>6. \/ LabelReloc(2) = << >> /\ IsNear(Stmt.ops[2])
        \/ \E r : /\ LabelReloc(2) = <<r>> /\ IsTextField(r, len)
                  /\ r.symbol = Stmt.ops[2].sym
    BY <1>1, <1>7, <2>1, <2>5, LabelField
  <2>7. \A k \in SymbolOperands : k = 2
    BY <2>1 DEF SymbolOperands
  <2> QED BY <1>2, <1>3, <2>4, <2>6, <2>7 DEF len
<1>8. ASSUME NEW k \in {1, 2}, DOMAIN Stmt.ops = {1, 2}, Stmt.ops[k].kind = "RIP",
             Stmt.ops[3 - k].kind = "REG", len >= 4
      PROVE  \E r : /\ relocs' = relocs \o <<r>> /\ IsTextField(r, len)
                    /\ \A m \in SymbolOperands : r.symbol = Stmt.ops[m].sym
  <2>1. PICK r : /\ RipReloc(k, len) = <<r>> /\ IsTextField(r, len)
                 /\ r.symbol = Stmt.ops[k].sym
    BY <1>1, <1>8, RipField
  <2>2. LabelRelocs = << >>
    <3>1. LabelReloc(1) = << >> /\ LabelReloc(2) = << >> /\ LabelReloc(3) = << >>
      BY <1>8 DEF LabelReloc
    <3> QED BY <1>4, <3>1 DEF LabelRelocs
  <2>3. rip = <<r>>
    <3>1. RipReloc(3 - k, len) = << >> /\ RipReloc(3, len) = << >>
      BY <1>8 DEF RipReloc
    <3>2. <<r>> \in Seq(Relocation)
      BY <2>1 DEF IsTextField
    <3>3. CASE k = 1
      <4>1. RipReloc(1, len) = <<r>> /\ RipReloc(2, len) = << >>
        <5>1. 3 - k = 2
          BY <3>3
        <5> QED BY <2>1, <3>1, <3>3, <5>1
      <4>2. <<r>> \o << >> = <<r>>
        BY <1>3, <3>2
      <4> QED BY <3>1, <4>1, <4>2
    <3>4. CASE k = 2
      <4>1. RipReloc(2, len) = <<r>> /\ RipReloc(1, len) = << >>
        <5>1. 3 - k = 1
          BY <3>4
        <5> QED BY <2>1, <3>1, <3>4, <5>1
      <4>2. <<r>> \o << >> = <<r>> /\ << >> \o <<r>> = <<r>>
        BY <1>3, <3>2
      <4> QED BY <3>1, <4>1, <4>2
    <3> QED BY <3>3, <3>4
  <2>4. relocs' = relocs \o <<r>>
    BY <1>1, <1>2, <1>3, <2>2, <2>3
  <2>5. \A m \in SymbolOperands : m = k
    BY <1>8 DEF SymbolOperands
  <2> QED BY <2>1, <2>4, <2>5
<1>9. CASE HasKind(Stmt, "RIP")
  <2>1. CASE OpKinds(Stmt) = <<"REG", "RIP">>
    <3>1. DOMAIN Stmt.ops = {1, 2} /\ Stmt.ops[1].kind = "REG" /\ Stmt.ops[2].kind = "RIP"
      BY <1>1, <2>1, TwoOperandShape
    <3>2. Stmt.ops[3 - 2].kind = "REG"
      BY <3>1
    <3> QED BY <1>1, <1>8, <1>9, <3>1, <3>2 DEF len
  <2>2. CASE OpKinds(Stmt) = <<"RIP", "REG">>
    <3>1. DOMAIN Stmt.ops = {1, 2} /\ Stmt.ops[1].kind = "RIP" /\ Stmt.ops[2].kind = "REG"
      BY <1>1, <2>2, TwoOperandShape
    <3>2. Stmt.ops[3 - 1].kind = "REG"
      BY <3>1
    <3> QED BY <1>1, <1>8, <1>9, <3>1, <3>2 DEF len
  <2> QED BY <1>1, <1>9, <2>1, <2>2
<1>10. CASE ~HasKind(Stmt, "RIP") /\ ~HasKind(Stmt, "LABEL")
  <2>1. \A k \in DOMAIN Stmt.ops : Stmt.ops[k].kind \notin {"LABEL", "RIP"}
    BY <1>10 DEF HasKind
  <2>2. \A k \in {1, 2, 3} : LabelReloc(k) = << >> /\ RipReloc(k, len) = << >>
    BY <2>1, NoField
  <2>3. LabelRelocs = << >> /\ rip = << >>
    BY <1>4, <2>2 DEF LabelRelocs
  <2>4. relocs' = relocs
    BY <1>1, <1>2, <1>3, <2>3
  <2> QED BY <2>1, <2>4 DEF SymbolOperands
<1> QED BY <1>1, <1>6, <1>7, <1>9, <1>10 DEF len

\* The displacement of a branch to a label of this file ends on the label.
LEMMA EncodedBranchLands ==
    ASSUME PassesAgree, Pass2Encoded
    PROVE  BranchLands([stmt |-> i, offset |-> text_size,
                        len |-> InstructionBytes(Stmt), rel |-> resolved_target])
<1> DEFINE len   == InstructionBytes(Stmt)
           chunk == [stmt |-> i, offset |-> text_size, len |-> len, rel |-> resolved_target]
           e     == symtab[Stmt.ops[1].sym]
<1>1. /\ InPass2Text /\ ~resolution_error /\ Stmt \in Stmts
      /\ len \in Nat /\ text_size \in Nat
      /\ HasKind(Stmt, "LABEL") => OneLabel(Stmt) \/ Stmt.opcode = "MOV"
  BY EncodedFacts
<1>2. /\ chunk.stmt = i /\ chunk.offset = text_size /\ chunk.len = len
      /\ chunk.rel = resolved_target
  OBVIOUS
<1> HIDE DEF chunk
<1>3. SUFFICES ASSUME opcode_uses_relative_label(Stmt.opcode), HasKind(Stmt, "LABEL"),
                      e.defined
               PROVE  e.section = "TEXT" /\ text_size + len + resolved_target = e.offset
  <2>1. BranchLands(chunk)
    BY <1>2, <1>3 DEF BranchLands, Stmt
  <2> QED BY <2>1 DEF chunk
<1>4. OneLabel(Stmt)
  BY <1>1, <1>3 DEF opcode_uses_relative_label, Jcc
<1>5. DOMAIN Stmt.ops = {1} /\ Stmt.ops[1].kind = "LABEL" /\ Stmt.ops[1].sym \in Names
  BY <1>1, <1>4, OneLabelShape
<1>6. e.section = "TEXT"
  BY <1>1, <1>3, <1>5, ResolvedOperand DEF IsExternal
<1>7. e.offset \in Int
  <2>1. e \in Entry
    BY <1>5 DEF PassesAgree, TypeOK, Pass1ResultOK
  <2> QED BY <2>1 DEF Entry
<1>8. resolved_target = e.offset - (text_size + len)
  <2> DEFINE near == {k \in DOMAIN Stmt.ops : IsNearTarget(k)}
  <2>1. near = {1}
    BY <1>3, <1>5, <1>6 DEF IsNearTarget
  <2>2. resolved_target = Displacement(CHOOSE k \in near : \A m \in near : m <= k)
    BY <2>1 DEF resolved_target
  <2> HIDE DEF near
  <2>3. \A k \in near : k = 1
    BY <2>1
  <2>4. 1 \in near /\ \A m \in near : m <= 1
    BY <2>1
  <2>5. (CHOOSE k \in near : \A m \in near : m <= k) = 1
    BY <2>3, <2>4
  <2> QED BY <2>2, <2>5 DEF Displacement
<1> HIDE DEF len, e
<1> QED BY <1>1, <1>6, <1>7, <1>8

\* An encoded instruction: its branch lands, its row follows the rows before,
\* and its one field, if any, lies behind all earlier ones.
LEMMA Pass2EncodedKeeps ==
    ASSUME PassesAgree, PassesAgree', Pass1Kept, Pass2Kept, Pass2Encoded
    PROVE  Pass2Kept'
<1> DEFINE len == InstructionBytes(Stmt)
<1>1. /\ InPass2Text /\ len \in Nat /\ len > 0 /\ resolved_target \in Int
      /\ WriteText(len, resolved_target, TRUE) /\ Proceed2(TRUE)
      /\ errors2' = errors2 /\ push_debug_line /\ UNCHANGED <<section, location>>
  BY EncodedFacts
<1>2. /\ phase = "pass2" /\ i <= Len(prog)
  BY <1>1, TextStep
<1>3. BranchLands([stmt |-> i, offset |-> text_size, len |-> len, rel |-> resolved_target])
  BY EncodedBranchLands
<1>4. \/ relocs' = relocs /\ \A k \in SymbolOperands : IsNear(Stmt.ops[k])
      \/ \E r : /\ relocs' = relocs \o <<r>> /\ IsTextField(r, len)
                /\ \A k \in SymbolOperands :
                     IsNear(Stmt.ops[k]) \/ r.symbol = Stmt.ops[k].sym
  BY EncodedRelocs
<1> HIDE DEF len
<1>5. ChunksFollow'
  BY <1>1, <1>3, ChunkStep
<1>6. RowsFollow'
  BY <1>1, RowStep
<1>7. /\ Progress' /\ SpansFollow' /\ UNCHANGED <<prog, symtab>>
      /\ i \in Nat /\ DOMAIN emissions = 1 .. i - 1 /\ DOMAIN emissions' = 1 .. i
      /\ \A k \in 1 .. i - 1 : emissions'[k] = emissions[k]
      /\ emissions'[i] = [section |-> "TEXT", offset |-> text_size, size |-> len]
  BY <1>1, TextWritten
<1>8. relocs \in Seq(Relocation) /\ text_size \in Nat
  BY <1>1, TextStep DEF PassesAgree, TypeOK, Pass2ResultOK
<1>9. RelocsFollow'
  <2>1. CASE relocs' = relocs /\ \A k \in SymbolOperands : IsNear(Stmt.ops[k])
    <3>1. \A k \in {i} : \A j \in DOMAIN prog[k].ops : Settled(k, j)'
      BY <1>7, <2>1 DEF Settled, SymbolOperands, IsNear, Stmt
    <3>2. errors2' = {} => \A a, b \in DOMAIN relocs' : a # b => Apart(relocs'[a], relocs'[b])
      BY <1>1, <2>1 DEF Pass2Kept, RelocsFollow
    <3> QED BY <1>1, <1>7, <2>1, <3>1, <3>2, RelocStep DEF Pass2Kept
  <2>2. ASSUME NEW r, relocs' = relocs \o <<r>>, IsTextField(r, len),
               \A k \in SymbolOperands : IsNear(Stmt.ops[k]) \/ r.symbol = Stmt.ops[k].sym
        PROVE  RelocsFollow'
    <3> DEFINE n == Len(relocs) + 1
    <3>1. /\ r \in Relocation /\ r.stmt = i /\ r.section = "TEXT"
          /\ text_size <= r.offset /\ r.offset + FieldBytes(r) <= text_size + len
          /\ IsOutputSymbol(symtab[r.symbol])
      BY <2>2 DEF IsTextField
    <3>2. /\ DOMAIN relocs' = DOMAIN relocs \union {n} /\ relocs'[n] = r
          /\ \A a \in DOMAIN relocs : relocs'[a] = relocs[a]
      BY <1>8, <2>2, <3>1, SnocFacts
    <3> HIDE DEF n
    <3>3. \A a \in DOMAIN relocs' : a \in DOMAIN relocs \/ a = n
      BY <3>2
    <3>4. \A k \in {i} : \A j \in DOMAIN prog[k].ops : Settled(k, j)'
      <4>1. \E a \in DOMAIN relocs' : a = n
        BY <3>2
      <4> QED BY <1>7, <2>2, <3>1, <3>2, <4>1 DEF Settled, SymbolOperands, IsNear, Stmt
    <3>5. \A a \in DOMAIN relocs' : a \in DOMAIN relocs \/ Inside(relocs[a])'
      <4>1. /\ emissions'[i].section = "TEXT" /\ emissions'[i].offset = text_size
            /\ emissions'[i].size = len
        BY <1>7
      <4> QED BY <3>1, <3>2, <3>3, <4>1 DEF Inside, FieldBytes
    <3>6. ASSUME errors2' = {}
          PROVE  \A a, b \in DOMAIN relocs' : a # b => Apart(relocs'[a], relocs'[b])
      <4>1. \A a \in DOMAIN relocs : relocs[a].section = r.section =>
              relocs[a].offset + FieldBytes(relocs[a]) <= text_size
        BY <1>1, <1>2, <3>1, <3>6, OldFieldsEnd DEF Pass1Kept, Pass2Kept, text_size
      <4>2. \A a, b \in DOMAIN relocs : a # b => Apart(relocs[a], relocs[b])
        BY <1>1, <3>6 DEF Pass2Kept, RelocsFollow
      <4> QED BY <1>8, <2>2, <3>1, <4>1, <4>2, FieldBehind
    <3> QED BY <1>1, <1>7, <3>1, <3>2, <3>3, <3>4, <3>5, <3>6, RelocStep DEF Pass2Kept
  <2> QED BY <1>4, <2>1, <2>2
<1> QED BY <1>5, <1>6, <1>7, <1>9 DEF Pass2Kept

-----------------------------------------------------------------------------
(* The ends of the passes, and the theorem *)

\* The loop of pass 2 ends with a span for every statement and equal totals.
LEMMA Pass2FinishKeeps ==
    ASSUME PassesAgree, Pass2Kept, Pass2Finish
    PROVE  Pass2Kept'
<1>1. /\ phase = "pass2" /\ i = Len(prog) + 1 /\ phase' = "done"
      /\ Report2(FALSE, size # offset)
      /\ UNCHANGED <<prog, i, section, offset, alignment, symtab, files, errors1,
                     layout, size, emissions, code, relocs, location, lines>>
  BY DEF Pass2Finish, vars1
<1>2. size = offset
  BY <1>1 DEF PassesAgree, Retraces, LayoutOK
<1>3. errors2' = errors2
  BY <1>1, <1>2 DEF Report2
<1>4. Progress'
  <2>1. Len(prog) \in Nat
    BY DEF PassesAgree, TypeOK, ControlOK
  <2>2. Len(emissions) = Len(prog)
    BY <1>1, <2>1 DEF Pass2Kept, Progress
  <2>3. ~Interrupted'
    BY <1>1, <1>3, GoingOn DEF Interrupted
  <2> QED BY <1>1, <1>2, <2>2, <2>3 DEF Progress
<1>5. SpansFollow' /\ ChunksFollow'
  BY <1>1, <1>3 DEF Pass2Kept, SpansFollow, SpanFollows, ChunksFollow, BranchLands, HasKind
<1>6. RowsFollow'
  BY <1>1 DEF Pass2Kept, RowsFollow, GoodPosition, debug_file_find, text_size
<1>7. RelocsFollow'
  BY <1>1, <1>3 DEF Pass2Kept, RelocsFollow, Inside, Apart, Settled, FieldBytes
<1> QED BY <1>4, <1>5, <1>6, <1>7 DEF Pass2Kept

\* Before pass 2 there is nothing to place.
LEMMA NothingPlaced ==
    ASSUME emissions = <<>>, code = <<>>, relocs = <<>>, lines = <<>>,
           location = NoLocation
    PROVE  SpansFollow /\ ChunksFollow /\ RowsFollow /\ RelocsFollow
<1>1. DOMAIN emissions = {} /\ DOMAIN code = {} /\ DOMAIN relocs = {} /\ DOMAIN lines = {}
  OBVIOUS
<1> QED BY <1>1 DEF SpansFollow, ChunksFollow, RowsFollow, RelocsFollow

LEMMA Pass1KeepsPlaces ==
    ASSUME PassesAgree, Pass2Kept, Pass1
    PROVE  Pass2Kept'
<1>1. phase = "pass1" /\ UNCHANGED vars2
  BY DEF Pass1, Pass1Section, Pass1External, Pass1Visibility, Pass1DebugFile,
         Pass1DebugLocation, Pass1Rejected, Pass1Data, Pass1Instruction, Pass1Finish,
         InPass1, Advance1
<1>2. \/ phase' \in {"pass1", "failed"}
      \/ phase' = "pass2" /\ i' = 1
  BY <1>1 DEF Pass1, Pass1Section, Pass1External, Pass1Visibility, Pass1DebugFile,
         Pass1DebugLocation, Pass1Rejected, Pass1Data, Pass1Instruction, Pass1Finish,
         InPass1, Advance1
<1>3. /\ emissions' = <<>> /\ code' = <<>> /\ relocs' = <<>> /\ lines' = <<>>
      /\ location' = NoLocation
  BY <1>1 DEF Pass2Kept, Progress, vars2
<1>4. SpansFollow' /\ ChunksFollow' /\ RowsFollow' /\ RelocsFollow'
  <2>1. /\ DOMAIN emissions' = {} /\ DOMAIN code' = {}
        /\ DOMAIN relocs' = {} /\ DOMAIN lines' = {}
    BY <1>3
  <2> QED BY <1>3, <2>1 DEF SpansFollow, ChunksFollow, RowsFollow, RelocsFollow, NoLocation
<1>5. Progress'
  <2>1. Len(emissions') = 0 /\ 1 - 1 = 0
    BY <1>3
  <2> QED BY <1>2, <1>3, <2>1 DEF Progress, NoLocation
<1> QED BY <1>4, <1>5 DEF Pass2Kept

LEMMA StutteringKeepsPlaces ==
    ASSUME Pass2Kept, UNCHANGED vars
    PROVE  Pass2Kept'
BY DEF vars, vars1, vars2, Pass2Kept, Progress, Interrupted, SpansFollow, SpanFollows, ChunksFollow,
       BranchLands, HasKind, RowsFollow, GoodPosition, debug_file_find, text_size,
       RelocsFollow, Inside, Apart, Settled, FieldBytes

(***************************************************************************)
(* Whatever pass2_run has produced stays where pass1_run's layout says:    *)
(* spans, encoded branches, debug rows and relocated fields.               *)
(***************************************************************************)
THEOREM Pass2FollowsTheLayout == Spec => []Pass2Kept
<1>1. Init => Pass2Kept
  <2> SUFFICES ASSUME Init PROVE Pass2Kept
    OBVIOUS
  <2>1. /\ emissions = <<>> /\ code = <<>> /\ relocs = <<>> /\ lines = <<>>
        /\ location = NoLocation /\ phase = "pass1"
    BY DEF Init, NoLocation
  <2> QED BY <2>1, NothingPlaced DEF Pass2Kept, Progress
<1>2. PassesAgree /\ PassesAgree' /\ Pass1Kept /\ Pass2Kept /\ [Next]_vars => Pass2Kept'
  <2> SUFFICES ASSUME PassesAgree, PassesAgree', Pass1Kept, Pass2Kept, [Next]_vars
               PROVE  Pass2Kept'
    OBVIOUS
  <2>1. CASE Pass1
    BY <2>1, Pass1KeepsPlaces
  <2>2. CASE Pass2
    BY <2>2, Pass2SectionKeeps, Pass2SkipKeeps, Pass2DebugLocationKeeps,
       Pass2NegativeSizeKeeps, Pass2DataKeeps, Pass2BssKeeps, Pass2FilledKeeps, Pass2EncodedKeeps, Pass2FinishKeeps DEF Pass2
  <2>3. CASE UNCHANGED vars
    BY <2>3, StutteringKeepsPlaces
  <2> QED BY <2>1, <2>2, <2>3 DEF Next, Stopped
<1> QED BY <1>1, <1>2, PassesStayInAgreement, Pass1ResultsStay, PTL DEF Spec

-----------------------------------------------------------------------------
(* What the two passes promise to the readers of their results: the         *)
(* properties of Passes that follow from the three invariants.              *)

\* The three invariants together.
PassesKept == PassesAgree /\ Pass1Kept /\ Pass2Kept

LEMMA PassesStayKept == Spec => []PassesKept
BY PassesStayInAgreement, Pass1ResultsStay, Pass2FollowsTheLayout, PTL DEF PassesKept

\* Pass 2 ran only after pass 1 reported nothing, over the whole history.
LEMMA AfterPass1 ==
    ASSUME PassesKept, phase \in {"pass2", "done"}
    PROVE  /\ errors1 = {} /\ Handled = 1 .. Len(prog) /\ Len(layout) = Len(prog) + 1
           /\ Len(prog) \in Nat /\ DOMAIN prog = 1 .. Len(prog)
           /\ offset \in [Section -> Nat] /\ size \in [Section -> Nat]
           /\ layout \in Seq(Layout)
<1> USE DEF PassesKept, PassesAgree, TypeOK
<1>1. errors1 = {} /\ Len(layout) = Len(prog) + 1 /\ layout \in Seq(Layout)
  BY DEF Retraces, LayoutOK
<1>2. Len(prog) \in Nat /\ DOMAIN prog = 1 .. Len(prog)
  BY DEF ControlOK
<1>3. Handled = 1 .. Len(prog)
  BY <1>1, <1>2 DEF Handled
<1> QED BY <1>1, <1>2, <1>3 DEF Pass1ResultOK, Pass2ResultOK

\* A span belongs to a statement pass 1 accepted and covers what it counted.
LEMMA SpanFacts ==
    ASSUME PassesKept, NEW k \in DOMAIN emissions
    PROVE  /\ phase \in {"pass2", "done"} /\ k \in Nat /\ k \in DOMAIN prog
           /\ k \in Handled /\ k \in 1 .. Len(layout) /\ k + 1 \in 1 .. Len(layout)
           /\ emissions[k].section \in Section
           /\ emissions[k].offset \in Nat /\ emissions[k].size \in Nat
           /\ SpanFollows(k)
<1> USE DEF PassesKept
<1>1. emissions \in Seq(Span)
  BY DEF PassesAgree, TypeOK, Pass2ResultOK
<1>2. phase \in {"pass2", "done"}
  <2>1. phase \notin {"pass1", "failed"}
    <3>1. emissions # <<>>
      OBVIOUS
    <3> QED BY <3>1 DEF Pass2Kept, Progress
  <2> QED BY <2>1 DEF PassesAgree, TypeOK, ControlOK
<1>3. Len(emissions) <= Len(prog) /\ Len(prog) \in Nat
  BY <1>2 DEF Pass2Kept, Progress, PassesAgree, TypeOK, ControlOK
<1>4. k \in 1 .. Len(prog) /\ k \in Nat
  BY <1>1, <1>3
<1>5. k \in DOMAIN prog /\ k \in Handled
      /\ k \in 1 .. Len(layout) /\ k + 1 \in 1 .. Len(layout)
  BY <1>2, <1>4, AfterPass1
<1>6. emissions[k] \in Span
  BY <1>1
<1> QED BY <1>2, <1>4, <1>5, <1>6 DEF Span, Pass2Kept, SpansFollow

\* When pass 2 has come to the end every statement has its span.
LEMMA AllSpans ==
    ASSUME PassesKept, Accepted
    PROVE  DOMAIN emissions = 1 .. Len(prog) /\ DOMAIN emissions = DOMAIN prog
           /\ size = offset
<1>1. phase = "done" /\ ~Interrupted
  BY DEF Accepted, Interrupted
<1>2. Len(emissions) = Len(prog) /\ size = offset /\ emissions \in Seq(Span)
  BY <1>1 DEF PassesKept, Pass2Kept, Progress, PassesAgree, TypeOK, Pass2ResultOK
<1> QED BY <1>1, <1>2, AfterPass1

\* The offsets of the history, as numbers.
LEMMA LayoutOffsets ==
    ASSUME PassesKept, NEW k \in 1 .. Len(layout), NEW s \in Section
    PROVE  layout[k].offset[s] \in Nat /\ layout[k].offset[s] <= offset[s]
<1>1. layout \in Seq(Layout)
  BY DEF PassesKept, PassesAgree, LayoutOK
<1>2. layout[k] \in Layout
  BY <1>1
<1>3. layout[k].offset \in [Section -> Nat]
  BY <1>2 DEF Layout
<1> QED BY <1>3 DEF PassesKept, PassesAgree, LayoutOK

-----------------------------------------------------------------------------
(* Labels, branches, relocations *)

\* A label has the place of its statement's span.
LEMMA LabelsMatch ==
    ASSUME PassesKept
    PROVE  LabelsNameTheirSpans
<1> SUFFICES ASSUME NEW k \in DOMAIN emissions, Registers(prog[k])
             PROVE  LET e == symtab[prog[k].label] IN
                    /\ e.defined
                    /\ e.section = emissions[k].section
                    /\ e.offset = emissions[k].offset
  BY DEF LabelsNameTheirSpans
<1>1. phase \in {"pass2", "done"} /\ k \in Handled /\ SpanFollows(k)
  BY SpanFacts
<1>2. errors1 = {}
  BY <1>1, AfterPass1
<1>3. layout[k + 1].section = layout[k].section
  BY <1>1, <1>2, LayoutStep DEF PassesKept
<1>4. LET e == symtab[prog[k].label] IN
      /\ e.defined
      /\ e.section = layout[k].section
      /\ e.offset = layout[k].offset[layout[k].section]
  BY <1>1, <1>2 DEF PassesKept, Pass1Kept, LabelsKept
<1> QED BY <1>1, <1>3, <1>4 DEF SpanFollows

(***************************************************************************)
(* The offset pass1_run gave a label is where pass2_run puts its           *)
(* statement, in every program.                                            *)
(***************************************************************************)
THEOREM LabelsAlwaysNameTheirSpans == Spec => []LabelsNameTheirSpans
<1>1. PassesKept => LabelsNameTheirSpans
  BY LabelsMatch
<1> QED BY <1>1, PassesStayKept, PTL

(***************************************************************************)
(* No jump or call that enc_jmp, enc_call or enc_jcc encoded against a     *)
(* label of the file lands anywhere but on the label's statement.          *)
(***************************************************************************)
THEOREM BranchesAlwaysLand == Spec => []BranchesLand
<1>1. PassesKept => BranchesLand
  <2> SUFFICES ASSUME PassesKept, Accepted, NEW c \in DOMAIN code,
                      opcode_uses_relative_label(prog[code[c].stmt].opcode),
                      HasKind(prog[code[c].stmt], "LABEL"),
                      NEW k \in DOMAIN prog, Registers(prog[k]),
                      prog[k].label = prog[code[c].stmt].ops[1].sym
               PROVE  /\ emissions[k].section = "TEXT"
                      /\ code[c].offset + code[c].len + code[c].rel = emissions[k].offset
    BY DEF BranchesLand
  <2>1. BranchLands(code[c])
    BY DEF Accepted, PassesKept, Pass2Kept, ChunksFollow
  <2>2. k \in DOMAIN emissions
    BY AllSpans DEF Accepted
  <2>3. LET e == symtab[prog[k].label] IN
        /\ e.defined
        /\ e.section = emissions[k].section
        /\ e.offset = emissions[k].offset
    BY <2>2, LabelsMatch DEF LabelsNameTheirSpans
  <2> QED BY <2>1, <2>3 DEF BranchLands
<1> QED BY <1>1, PassesStayKept, PTL

(***************************************************************************)
(* The relocations pass2_run hands to the writers never overlap and never  *)
(* leave the bytes of the statement they were pushed for.                  *)
(***************************************************************************)
THEOREM RelocationsAlwaysStayInside == Spec => []RelocationsStayInside
<1>1. PassesKept => RelocationsStayInside
  <2> SUFFICES ASSUME PassesKept, Accepted, NEW a \in DOMAIN relocs
               PROVE  /\ Inside(relocs[a])
                      /\ \A b \in DOMAIN relocs : b # a => Apart(relocs[a], relocs[b])
    BY DEF RelocationsStayInside, Inside, Apart
  <2> QED BY DEF Accepted, PassesKept, Pass2Kept, RelocsFollow
<1> QED BY <1>1, PassesStayKept, PTL

(***************************************************************************)
(* pass2_run accepts no program with a symbolic operand that is neither    *)
(* resolved nor relocated, and relocates only against symbols that         *)
(* output_symbols_collect lists.                                           *)
(***************************************************************************)
THEOREM ReferencesAreAlwaysSettled == Spec => []ReferencesSettled
<1>1. PassesKept => ReferencesSettled
  <2> SUFFICES ASSUME PassesKept, Accepted PROVE ReferencesSettled
    BY DEF ReferencesSettled
  <2>1. \A a \in DOMAIN relocs : IsOutputSymbol(symtab[relocs[a].symbol])
    BY DEF PassesKept, Pass2Kept, RelocsFollow
  <2>2. \A k \in DOMAIN prog : \A j \in DOMAIN prog[k].ops : Settled(k, j)
    BY AllSpans DEF Accepted, PassesKept, Pass2Kept, RelocsFollow
  <2> QED BY <2>1, <2>2 DEF ReferencesSettled, Settled
<1> QED BY <1>1, PassesStayKept, PTL

-----------------------------------------------------------------------------
(* Spans, rows *)

(***************************************************************************)
(* The emission spans of pass2_run, by which listing.c slices the sections,*)
(* neither overlap nor leave a byte out, in every program.                 *)
(***************************************************************************)
THEOREM SpansAlwaysTile == Spec => []SpansTile
<1>1. PassesKept => SpansTile
  <2> DEFINE mine(s) == {k \in DOMAIN emissions : emissions[k].section = s}
  <2> SUFFICES ASSUME PassesKept, Accepted, NEW s \in Section \ {"BSS"}
               PROVE  /\ \A k, m \in mine(s) : k < m =>
                           emissions[k].offset + emissions[k].size <= emissions[m].offset
                      /\ \A b \in 0 .. size[s] - 1 : \E k \in mine(s) :
                           b \in emissions[k].offset ..
                                   emissions[k].offset + emissions[k].size - 1
                      /\ \A k \in mine(s) :
                           emissions[k].offset + emissions[k].size <= size[s]
    BY DEF SpansTile
  <2>1. phase = "done" /\ size = offset /\ errors1 = {} /\ Handled = DOMAIN emissions
        /\ offset[s] \in Nat
    BY AllSpans, AfterPass1 DEF Accepted
  <2>2. \A k \in mine(s) :
          /\ k \in Nat /\ k \in 1 .. Len(layout) /\ k + 1 \in 1 .. Len(layout)
          /\ emissions[k].offset \in Nat /\ emissions[k].size \in Nat
          /\ emissions[k].offset = layout[k].offset[s]
          /\ emissions[k].offset + emissions[k].size = layout[k + 1].offset[s]
    <3>1. \A k \in DOMAIN prog : ~Overflows(prog[k])
      BY DEF PassesKept, PassesAgree, OnlyOverflowInterrupts
    <3> QED BY <3>1, SpanFacts DEF SpanFollows
  <2>3. \A k \in 1 .. Len(layout) :
          layout[k].offset[s] \in Nat /\ layout[k].offset[s] <= offset[s]
    BY LayoutOffsets
  <2>4. ASSUME NEW k \in mine(s), NEW m \in mine(s), k < m
        PROVE  emissions[k].offset + emissions[k].size <= emissions[m].offset
    <3>1. k + 1 \in 1 .. Len(layout) /\ m \in 1 .. Len(layout) /\ k + 1 <= m
      BY <2>2, <2>4
    <3>2. layout[k + 1].offset[s] <= layout[m].offset[s]
      BY <3>1 DEF PassesKept, Pass1Kept, Grows
    <3> QED BY <2>2, <3>2
  <2>5. ASSUME NEW b \in 0 .. size[s] - 1
        PROVE  \E k \in mine(s) :
                 b \in emissions[k].offset .. emissions[k].offset + emissions[k].size - 1
    <3>1. PICK k \in Handled : layout[k].offset[s] <= b /\ b < layout[k + 1].offset[s]
      BY <2>1 DEF PassesKept, Pass1Kept, Covered
    <3>2. k \in DOMAIN emissions /\ SpanFollows(k)
          /\ k \in 1 .. Len(layout) /\ k + 1 \in 1 .. Len(layout)
      BY <2>1, SpanFacts
    <3>3. b \in Nat /\ layout[k].offset[s] \in Nat /\ layout[k + 1].offset[s] \in Nat
      BY <2>1, <2>3, <3>2
    <3>4. layout[k + 1].offset[s] # layout[k].offset[s]
      BY <3>1, <3>3
    <3>5. layout[k + 1].section = s
      BY <2>1, <3>4, LayoutStep DEF PassesKept
    <3>6. k \in mine(s)
      BY <3>2, <3>5 DEF SpanFollows
    <3>7. b \in emissions[k].offset .. emissions[k].offset + emissions[k].size - 1
      BY <2>2, <3>1, <3>3, <3>6
    <3> QED BY <3>6, <3>7
  <2>6. \A k \in mine(s) : emissions[k].offset + emissions[k].size <= size[s]
    BY <2>1, <2>2, <2>3
  <2> QED BY <2>4, <2>5, <2>6
<1> QED BY <1>1, PassesStayKept, PTL

(***************************************************************************)
(* The rows push_debug_line appends are fit for both line programs:        *)
(* increasing, inside .text, each at an instruction, with a declared file. *)
(***************************************************************************)
THEOREM DebugRowsStayOrdered == Spec => []DebugRowsOrdered
<1>1. PassesKept => DebugRowsOrdered
  <2> SUFFICES ASSUME PassesKept, phase \in {"pass2", "done"}, NEW a \in DOMAIN lines
               PROVE  /\ lines[a].offset < offset["TEXT"]
                      /\ GoodPosition(lines[a])
                      /\ \A b \in DOMAIN lines : a < b => lines[a].offset < lines[b].offset
                      /\ \E c \in DOMAIN code : code[c].offset = lines[a].offset
    BY DEF DebugRowsOrdered, GoodPosition
  <2>1. "TEXT" \in Section /\ size["TEXT"] \in Nat /\ offset["TEXT"] \in Nat
    BY AfterPass1 DEF Section
  <2>2. size["TEXT"] <= offset["TEXT"]
    <3>1. CASE phase = "pass2"
      <4>1. i \in 1 .. Len(layout) /\ size = layout[i].offset
        BY <3>1 DEF PassesKept, PassesAgree, TypeOK, ControlOK, LayoutOK, Retraces
      <4> QED BY <2>1, <4>1, LayoutOffsets
    <3>2. CASE phase = "done"
      <4>1. size = offset \/ text_size <= offset["TEXT"]
        BY <3>2 DEF PassesKept, Pass2Kept, Progress
      <4> QED BY <2>1, <4>1 DEF text_size
    <3> QED BY <3>1, <3>2
  <2>3. lines[a].offset \in Nat
    <3>1. lines[a] \in DebugLine
      BY DEF PassesKept, PassesAgree, TypeOK, Pass2ResultOK
    <3> QED BY <3>1 DEF DebugLine
  <2>4. /\ lines[a].offset < size["TEXT"]
        /\ GoodPosition(lines[a])
        /\ \A b \in DOMAIN lines : a < b => lines[a].offset < lines[b].offset
        /\ \E c \in DOMAIN code : code[c].offset = lines[a].offset
    BY DEF PassesKept, Pass2Kept, RowsFollow, text_size
  <2> QED BY <2>1, <2>2, <2>3, <2>4
<1> QED BY <1>1, PassesStayKept, PTL

-----------------------------------------------------------------------------
(* Alignment *)

\* Padding ends on the boundary.
LEMMA PaddingAligns ==
    ASSUME NEW a \in AlignmentValues, NEW off \in Nat
    PROVE  (off + Padding(a, off)) % a = 0
<1>1. CASE a = 1
  BY <1>1 DEF Padding
<1>2. CASE a = 2
  BY <1>2 DEF Padding
<1>3. CASE a = 4
  BY <1>3 DEF Padding
<1>4. CASE a = 8
  BY <1>4 DEF Padding
<1>5. CASE a = 16
  BY <1>5 DEF Padding
<1>6. CASE a = 32
  BY <1>6 DEF Padding
<1>7. CASE a = 64
  BY <1>7 DEF Padding
<1>8. CASE a = 128
  BY <1>8 DEF Padding
<1>9. CASE a = 256
  BY <1>9 DEF Padding
<1>10. CASE a = 512
  BY <1>10 DEF Padding
<1>11. CASE a = 1024
  BY <1>11 DEF Padding
<1>12. CASE a = 2048
  BY <1>12 DEF Padding
<1>13. CASE a = 4096
  BY <1>13 DEF Padding
<1> QED BY <1>1, <1>2, <1>3, <1>4, <1>5, <1>6, <1>7, <1>8, <1>9, <1>10, <1>11, <1>12, <1>13 DEF AlignmentValues

\* A larger boundary is a multiple of a smaller one.
LEMMA BoundariesDivide ==
    ASSUME NEW a \in AlignmentValues, NEW b \in AlignmentValues, a <= b
    PROVE  b % a = 0
<1>1. CASE a = 1
  BY <1>1 DEF AlignmentValues
<1>2. CASE a = 2
  BY <1>2 DEF AlignmentValues
<1>3. CASE a = 4
  BY <1>3 DEF AlignmentValues
<1>4. CASE a = 8
  BY <1>4 DEF AlignmentValues
<1>5. CASE a = 16
  BY <1>5 DEF AlignmentValues
<1>6. CASE a = 32
  BY <1>6 DEF AlignmentValues
<1>7. CASE a = 64
  BY <1>7 DEF AlignmentValues
<1>8. CASE a = 128
  BY <1>8 DEF AlignmentValues
<1>9. CASE a = 256
  BY <1>9 DEF AlignmentValues
<1>10. CASE a = 512
  BY <1>10 DEF AlignmentValues
<1>11. CASE a = 1024
  BY <1>11 DEF AlignmentValues
<1>12. CASE a = 2048
  BY <1>12 DEF AlignmentValues
<1>13. CASE a = 4096
  BY <1>13 DEF AlignmentValues
<1> QED BY <1>1, <1>2, <1>3, <1>4, <1>5, <1>6, <1>7, <1>8, <1>9, <1>10, <1>11, <1>12, <1>13 DEF AlignmentValues

\* An alignment statement takes the section it is in to its boundary.
LEMMA AlignmentStatement ==
    ASSUME PassesKept, errors1 = {}, NEW k \in Handled,
           prog[k].directive = "ALIGNMENT"
    PROVE  /\ layout[k + 1].section = layout[k].section
           /\ layout[k].section \in DataSection
           /\ Imm(prog[k], 1) \in AlignmentValues
           /\ layout[k + 1].offset[layout[k].section] % Imm(prog[k], 1) = 0
<1> DEFINE s == layout[k].section
           off == layout[k].offset[s]
           a == Imm(prog[k], 1)
<1>1. /\ prog[k] \in Stmts /\ layout[k] \in Layout
      /\ AcceptedAt(prog[k], s) /\ layout[k + 1] = LayoutAfter(prog[k], layout[k])
  BY LayoutStep DEF PassesKept
<1>2. is_data_directive(prog[k].directive) /\ prog[k].directive \notin SectionDirective
  BY DEF is_data_directive, SectionDirective
<1>3. AllowedIn(prog[k], s)
  BY <1>1, <1>2 DEF AcceptedAt
<1>4. OneImm(prog[k]) /\ a \in AlignmentValues
  BY <1>3 DEF AllowedIn, validate_data_directive, IntDirective
<1>5. s \in Section /\ layout[k].offset \in [Section -> Nat] /\ off \in Nat
  BY <1>1 DEF Layout
<1>6. s \in DataSection
  BY <1>3, <1>5 DEF AllowedIn, Section, DataSection
<1>7. Counted(prog[k], off) = Padding(a, off)
  <2>1. data_directive_size_at(prog[k], off) = Padding(a, off)
    BY <1>4 DEF data_directive_size_at, AlignmentValues
  <2>2. Counted(prog[k], off) = data_directive_size_at(prog[k], off)
    <3>1. validate_data_directive(prog[k]) /\ ~Overflows(prog[k])
      BY <1>3 DEF AllowedIn, Overflows
    <3> QED BY <1>1, <1>2, <1>5, <3>1, CountedFact
  <2> QED BY <2>1, <2>2
<1>8. layout[k + 1] = [section |-> s,
                       offset |-> [layout[k].offset EXCEPT ![s] =
                                     @ + Counted(prog[k], @)]]
  BY <1>1, <1>2 DEF LayoutAfter
<1>9. layout[k + 1].section = s /\ layout[k + 1].offset[s] = off + Padding(a, off)
  BY <1>5, <1>7, <1>8
<1>10. (off + Padding(a, off)) % a = 0
  BY <1>4, <1>5, PaddingAligns
<1> QED BY <1>4, <1>6, <1>9, <1>10

\* A section stays where it is while no statement is in it.
LEMMA SectionRests ==
    ASSUME PassesKept, phase = "done", NEW s \in Section,
           NEW k \in DOMAIN emissions, NEW m \in DOMAIN emissions, k < m,
           \A x \in k + 1 .. m - 1 : emissions[x].section # s
    PROVE  layout[m].offset[s] = layout[k + 1].offset[s]
<1> DEFINE b == layout[k + 1].offset[s]
<1>1. /\ k \in Nat /\ m \in Nat /\ k + 1 \in 1 .. Len(layout) /\ m \in 1 .. Len(layout)
      /\ k + 1 <= m /\ Len(layout) \in Nat
  <2>1. k \in Nat /\ m \in Nat /\ k + 1 \in 1 .. Len(layout) /\ m \in 1 .. Len(layout)
    BY SpanFacts
  <2>2. Len(layout) \in Nat
    BY DEF PassesKept, PassesAgree, LayoutOK
  <2> QED BY <2>1, <2>2
<1>2. b \in Nat /\ layout[m].offset[s] \in Nat /\ layout[m].offset[s] <= offset[s]
      /\ offset[s] \in Nat
  BY <1>1, LayoutOffsets, AfterPass1
<1>3. b <= layout[m].offset[s]
  BY <1>1 DEF PassesKept, Pass1Kept, Grows
<1>4. /\ errors1 = {} /\ Handled = 1 .. Len(prog) /\ Len(layout) = Len(prog) + 1
      /\ Len(prog) \in Nat
  BY AfterPass1
<1> HIDE DEF b
<1>5. ASSUME b < layout[m].offset[s] PROVE FALSE
  <2>1. b \in 0 .. offset[s] - 1
    BY <1>2, <1>5
  <2>2. PICK x \in Handled : layout[x].offset[s] <= b /\ b < layout[x + 1].offset[s]
    BY <2>1 DEF PassesKept, Pass1Kept, Covered
  <2>3. x \in Nat /\ x \in 1 .. Len(layout) /\ x + 1 \in 1 .. Len(layout)
    BY <1>4
  <2>4. layout[x].offset[s] \in Nat /\ layout[x + 1].offset[s] \in Nat
    BY <2>3, LayoutOffsets
  <2>5. k + 1 <= x
    <3>1. ~(x + 1 <= k + 1)
      <4>1. x + 1 <= k + 1 => layout[x + 1].offset[s] <= b
        BY <1>1, <2>3 DEF PassesKept, Pass1Kept, Grows, b
      <4> QED BY <1>2, <2>2, <2>4, <4>1
    <3> QED BY <1>1, <2>3, <3>1
  <2>6. x <= m - 1
    <3>1. ~(m <= x)
      <4>1. m <= x => layout[m].offset[s] <= layout[x].offset[s]
        BY <1>1, <2>3 DEF PassesKept, Pass1Kept, Grows
      <4> QED BY <1>2, <1>5, <2>2, <2>4, <4>1
    <3> QED BY <1>1, <2>3, <3>1
  <2>7. x \in k + 1 .. m - 1
    BY <1>1, <2>3, <2>5, <2>6
  <2>8. layout[x + 1].offset[s] # layout[x].offset[s]
    BY <1>2, <2>2, <2>4
  <2>9. layout[x + 1].section = s
    BY <1>4, <2>8, LayoutStep DEF PassesKept
  <2>10. emissions[x].section = s
    <3>1. x \in DOMAIN emissions
      <4>1. emissions \in Seq(Span)
        BY DEF PassesKept, PassesAgree, TypeOK, Pass2ResultOK
      <4> QED BY <1>1, <2>7, <4>1
    <3> QED BY <2>9, <3>1, SpanFacts DEF SpanFollows
  <2> QED BY <2>7, <2>10
<1> QED BY <1>2, <1>3, <1>5 DEF b

(***************************************************************************)
(* Every boundary that pass1_run accepted is kept by pass2_run's offsets   *)
(* and by the alignment the writers give the section.                      *)
(***************************************************************************)
THEOREM AlignmentAlwaysHolds == Spec => []AlignmentHolds
<1>1. PassesKept => AlignmentHolds
  <2> SUFFICES ASSUME PassesKept, phase = "done",
                      NEW k \in DOMAIN emissions, NEW m \in DOMAIN emissions,
                      prog[k].directive = "ALIGNMENT", k < m,
                      emissions[m].section = emissions[k].section,
                      \A x \in k + 1 .. m - 1 :
                        emissions[x].section # emissions[k].section
               PROVE  /\ emissions[m].offset % Imm(prog[k], 1) = 0
                      /\ alignment[emissions[k].section] % Imm(prog[k], 1) = 0
                      /\ alignment[emissions[k].section] # 0
    BY DEF AlignmentHolds
  <2> DEFINE s == emissions[k].section
             a == Imm(prog[k], 1)
  <2>1. /\ errors1 = {} /\ k \in Handled /\ SpanFollows(k) /\ SpanFollows(m)
        /\ s \in Section
    BY SpanFacts, AfterPass1
  <2>2. /\ s = layout[k].section /\ s \in DataSection /\ a \in AlignmentValues
        /\ layout[k + 1].offset[s] % a = 0
    BY <2>1, AlignmentStatement DEF SpanFollows
  <2>3. emissions[m].offset = layout[k + 1].offset[s]
    <3>1. emissions[m].offset = layout[m].offset[s]
      BY <2>1 DEF SpanFollows
    <3> QED BY <2>1, <3>1, SectionRests
  <2>4. alignment[s] \in AlignmentValues \union {0} /\ a <= alignment[s]
    BY <2>1, <2>2 DEF PassesKept, Pass1Kept, BoundariesKept
  <2>5. alignment[s] # 0
    BY <2>2, <2>4 DEF AlignmentValues
  <2>6. alignment[s] % a = 0
    BY <2>2, <2>4, <2>5, BoundariesDivide
  <2> QED BY <2>2, <2>3, <2>5, <2>6
<1> QED BY <1>1, PassesStayKept, PTL

=============================================================================
