------------------------------ MODULE ApiProof ------------------------------
(***************************************************************************)
(* Theorems about Api: for every arena size and every number of            *)
(* diagnostics, a call that may fail anywhere owns every live block once   *)
(* and hands the client exactly what the result holds.                     *)
(***************************************************************************)
EXTENDS Api, TLAPS

-----------------------------------------------------------------------------
(* What results own *)

\* An empty result (nazm_empty_result) owns nothing.
LEMMA EmptyOwnsNothing ==
    ASSUME NEW r, IsEmpty(r)
    PROVE  Owned(r) = {}
BY DEF IsEmpty, Owned, nazm_empty_result

\* nazm_empty_result gives a result, and an empty one.
LEMMA EmptyResult ==
    ASSUME NEW s \in Status
    PROVE  /\ nazm_empty_result(s) \in Result
           /\ nazm_empty_result(s).status = s
           /\ nazm_empty_result(s).count = 0
           /\ IsEmpty(nazm_empty_result(s))
BY DEF nazm_empty_result, Result, IsEmpty

\* The result of a call that succeeded owns the object alone.
LEMMA ObjectOwned ==
    LET r == [nazm_empty_result("OK") EXCEPT !.object = TRUE] IN
    /\ r \in Result /\ r.status = "OK" /\ r.count = 0
    /\ Owned(r) = {ObjectBlock}
BY DEF nazm_empty_result, Result, Owned, Status

\* The diagnostics array is the first block of an empty result.
LEMMA ArrayOwned ==
    ASSUME NEW r \in Result, IsEmpty(r)
    PROVE  LET q == [r EXCEPT !.array = TRUE] IN
           /\ q \in Result /\ q.status = r.status /\ q.count = 0
           /\ IsPartial(q)
           /\ Owned(q) = {ArrayBlock}
<1>1. r = [status |-> r.status, object |-> FALSE, array |-> FALSE, count |-> 0,
           files |-> {}, messages |-> {}]
  BY DEF IsEmpty, nazm_empty_result
<1> DEFINE q == [r EXCEPT !.array = TRUE]
<1>2. /\ r.status \in Status /\ r.object = FALSE /\ r.count = 0
      /\ r.files = {} /\ r.messages = {}
  BY <1>1 DEF Result
<1>3. q \in Result
  BY DEF Result
<1>4. q.status = r.status /\ q.count = r.count /\ q.files = r.files
      /\ q.messages = r.messages /\ q.object = r.object /\ q.array = TRUE
  BY DEF Result
<1> HIDE DEF q
<1>5. 1 .. 0 = {}
  OBVIOUS
<1>6. IsPartial(q)
  BY <1>2, <1>4, <1>5 DEF IsPartial
<1>7. Owned(q) = {ArrayBlock}
  BY <1>2, <1>4 DEF Owned
<1> QED
  BY <1>2, <1>3, <1>4, <1>6, <1>7 DEF q

\* The texts of one more diagnostic, copied whole or not.
NextOwned(r, file, message) ==
    [r EXCEPT !.count = r.count + 1,
              !.files = IF file THEN @ \union {r.count + 1} ELSE @,
              !.messages = IF message THEN @ \union {r.count + 1} ELSE @]

NewTexts(r, file, message) ==
    (IF file THEN {FileBlock(r.count + 1)} ELSE {})
    \union (IF message THEN {MessageBlock(r.count + 1)} ELSE {})

\* Copying a diagnostic adds its texts to what the result owns, and only whole
\* diagnostics keep the result partial.
LEMMA DiagnosticOwned ==
    ASSUME NEW r \in Result, IsPartial(r), NEW file \in BOOLEAN, NEW message \in BOOLEAN
    PROVE  LET q == NextOwned(r, file, message) IN
           /\ q \in Result /\ q.status = r.status /\ q.count = r.count + 1
           /\ (file /\ message) => IsPartial(q)
           /\ Owned(q) = Owned(r) \union NewTexts(r, file, message)
<1> DEFINE q == NextOwned(r, file, message)
           n == r.count + 1
<1>1. /\ r.count \in Nat /\ r.files = 1 .. r.count /\ r.messages = 1 .. r.count
      /\ r.object = FALSE /\ r.array = TRUE /\ r.status \in Status
  BY DEF IsPartial, Result
<1>2. /\ q.count = n /\ q.status = r.status /\ q.object = FALSE /\ q.array = TRUE
      /\ q.files = (IF file THEN r.files \union {n} ELSE r.files)
      /\ q.messages = (IF message THEN r.messages \union {n} ELSE r.messages)
      /\ q \in Result
  <2>1. /\ q.count = n /\ q.status = r.status
        /\ q.object = r.object /\ q.array = r.array
    BY DEF NextOwned, Result
  <2>2. q.files = (IF file THEN r.files \union {n} ELSE r.files)
    BY DEF NextOwned, Result
  <2>3. q.messages = (IF message THEN r.messages \union {n} ELSE r.messages)
    BY DEF NextOwned, Result
  <2>4. /\ n \in Nat /\ r.files \in SUBSET Nat /\ r.messages \in SUBSET Nat
    BY <1>1 DEF Result
  <2>5. /\ (IF file THEN r.files \union {n} ELSE r.files) \in SUBSET Nat
        /\ (IF message THEN r.messages \union {n} ELSE r.messages) \in SUBSET Nat
    BY <2>4
  <2>6. q \in Result
    BY <2>4, <2>5 DEF NextOwned, Result
  <2> QED
    BY <1>1, <2>1, <2>2, <2>3, <2>6
<1>3. (file /\ message) => IsPartial(q)
  <2>1. (1 .. r.count) \union {n} = 1 .. n
    BY <1>1
  <2> HIDE DEF q
  <2> QED
    BY <1>1, <1>2, <2>1 DEF IsPartial
<1>4. {m \in r.files : m <= r.count} = r.files /\ {m \in q.files : m <= q.count} = q.files
  BY <1>1, <1>2
<1>5. {m \in r.messages : m <= r.count} = r.messages
      /\ {m \in q.messages : m <= q.count} = q.messages
  BY <1>1, <1>2
<1>6. Owned(r) = {ArrayBlock} \union {FileBlock(k) : k \in r.files}
                 \union {MessageBlock(k) : k \in r.messages}
  BY <1>1, <1>4, <1>5 DEF Owned
<1>7. Owned(q) = {ArrayBlock} \union {FileBlock(k) : k \in q.files}
                 \union {MessageBlock(k) : k \in q.messages}
  BY <1>2, <1>4, <1>5 DEF Owned
<1>8. {FileBlock(k) : k \in q.files} =
          {FileBlock(k) : k \in r.files} \union (IF file THEN {FileBlock(n)} ELSE {})
  BY <1>2
<1>9. {MessageBlock(k) : k \in q.messages} =
          {MessageBlock(k) : k \in r.messages}
          \union (IF message THEN {MessageBlock(n)} ELSE {})
  BY <1>2
<1> HIDE DEF q
<1>10. Owned(q) = Owned(r) \union NewTexts(r, file, message)
  BY <1>6, <1>7, <1>8, <1>9 DEF NewTexts
<1> QED
  BY <1>2, <1>3, <1>10 DEF q

\* A result never owns the context, the arena or the file's buffer.
LEMMA OwnersApart ==
    ASSUME NEW r
    PROVE  /\ ContextBlock \notin Owned(r) /\ BufferBlock \notin Owned(r)
           /\ Owned(r) \intersect ArenaBlocks = {}
           /\ ContextBlock \notin ArenaBlocks /\ BufferBlock \notin ArenaBlocks
           /\ ContextBlock # BufferBlock
<1>1. \A b \in Owned(r) : b.of \in {"object", "array", "file", "message"}
  BY DEF Owned, ObjectBlock, ArrayBlock, FileBlock, MessageBlock
<1>2. \A b \in ArenaBlocks : b.of = "arena"
  BY DEF ArenaBlocks, ArenaBlock
<1>3. ContextBlock.of = "context" /\ BufferBlock.of = "buffer"
  BY DEF ContextBlock, BufferBlock
<1> QED
  BY <1>1, <1>2, <1>3

\* Blocks are blocks.
LEMMA BlockTypes ==
    /\ ContextBlock \in Block /\ BufferBlock \in Block
    /\ ObjectBlock \in Block /\ ArrayBlock \in Block
    /\ \A k \in Nat : ArenaBlock(k) \in Block /\ FileBlock(k) \in Block
                      /\ MessageBlock(k) \in Block
BY DEF Block, ContextBlock, BufferBlock, ObjectBlock, ArrayBlock, ArenaBlock,
       FileBlock, MessageBlock

-----------------------------------------------------------------------------
(* Every step keeps the invariant *)

\* Init: nothing is allocated.
LEMMA OwnershipAtInit == Init => Ownership
<1> SUFFICES ASSUME Init PROVE Ownership
  OBVIOUS
<1>1. IsEmpty(result) /\ result \in Result /\ result.count = 0
  BY EmptyResult DEF Init, Status
<1>2. Owned(result) = {}
  BY <1>1, EmptyOwnsNothing
<1>3. TypeOK
  <2>1. FlagsOK
    BY DEF Init, FlagsOK
  <2>2. DataOK
    BY <1>1, ApiBounds DEF Init, DataOK, Pc, Stage
  <2> QED
    BY <2>1, <2>2 DEF TypeOK
<1>4. ControlOK /\ ResultOK /\ FailedOK
  BY <1>1 DEF Init, ControlOK, ResultOK, FailedOK
<1>5. HeapOK /\ MemorySafe
  BY <1>2 DEF Init, HeapOK, MemorySafe
<1> QED
  BY <1>3, <1>4, <1>5 DEF Ownership

\* What a step that ends in Report or in OutOfMemory leaves behind.
Reported ==
    /\ result' \in Result /\ result'.count = 0
    /\ result'.status \notin {"OK", "OUT_OF_MEMORY"}
    /\ IsEmpty(result') /\ Owned(result') = {}
    /\ want' \in 0 .. NAZM_MAX_ERRORS /\ want' > 0
    /\ pc' = "diagnostics"

NoMemory(next) ==
    /\ result' \in Result /\ result'.count = 0
    /\ result' = nazm_empty_result("OUT_OF_MEMORY")
    /\ result'.status = "OUT_OF_MEMORY"
    /\ Owned(result') = {}
    /\ want' = want /\ pc' = next /\ failed' = TRUE

\* The buffer, while nazm_assemble_buffer works on it.
Buffered == IF delegated THEN {BufferBlock} ELSE {}

\* Report starts with an empty result of a status that has diagnostics.
LEMMA ReportResult ==
    ASSUME NEW s \in Status \ {"OK", "OUT_OF_MEMORY"},
           NEW n \in 1 .. NAZM_MAX_ERRORS, Report(s, n)
    PROVE  Reported
<1>1. result' = nazm_empty_result(s) /\ want' = n /\ pc' = "diagnostics"
  BY DEF Report
<1>2. IsEmpty(result')
  BY <1>1, EmptyResult
<1> QED
  BY <1>1, <1>2, EmptyResult, EmptyOwnsNothing, ApiBounds DEF Reported

\* OutOfMemory returns a result that owns nothing.
LEMMA OutOfMemoryResult ==
    ASSUME NEW next, OutOfMemory(next)
    PROVE  NoMemory(next)
<1>1. result' = nazm_empty_result("OUT_OF_MEMORY") /\ want' = want /\ pc' = next
      /\ failed' = TRUE
  BY DEF OutOfMemory
<1>2. IsEmpty(result')
  BY <1>1, EmptyResult DEF Status
<1> QED
  BY <1>1, <1>2, EmptyResult, EmptyOwnsNothing DEF Status, NoMemory

\* Call: the client starts with an empty result and an empty heap.
LEMMA CallKeeps == ASSUME Ownership, Call PROVE Ownership'
<1> USE DEF Ownership, Call
<1>1. \/ pc' \in {"open", "buffer"} /\ UNCHANGED <<result, want>>
      \/ Reported
  BY ReportResult, ApiBounds DEF Status
<1>2. Owned(result) = {} /\ Owned(result') = {}
  BY <1>1, EmptyOwnsNothing DEF ResultOK, Reported
<1>20. FlagsOK'
  BY Zenon DEF TypeOK, FlagsOK
<1>21. DataOK'
  BY <1>1, ApiBounds DEF TypeOK, DataOK, Pc, Reported
<1>22. ControlOK'
  BY <1>1 DEF ControlOK, Reported
<1>23. ResultOK' /\ FailedOK'
  BY <1>1 DEF ResultOK, FailedOK, Reported
<1>24. HeapOK' /\ MemorySafe'
  BY <1>1, <1>2 DEF HeapOK, MemorySafe, ArenaBlocks, ControlOK, Reported
<1> QED
  BY <1>20, <1>21, <1>22, <1>23, <1>24 DEF TypeOK

\* OpenSource: a failure of fopen returns before anything is owned.
LEMMA OpenSourceKeeps == ASSUME Ownership, OpenSource PROVE Ownership'
<1> USE DEF Ownership, OpenSource
<1>1. \/ open' = TRUE /\ pc' = "size" /\ UNCHANGED <<result, want, failed>>
      \/ open' = FALSE /\ NoMemory("return")
      \/ open' = FALSE /\ Reported /\ UNCHANGED failed
  BY ReportResult, OutOfMemoryResult, ApiBounds DEF Status, OpenFailure
<1>2. Owned(result) = {} /\ Owned(result') = {}
  BY <1>1, EmptyOwnsNothing DEF ResultOK, Reported, NoMemory
<1>20. FlagsOK'
  BY <1>1, Zenon DEF TypeOK, FlagsOK, NoMemory
<1>21. DataOK'
  BY <1>1, ApiBounds DEF TypeOK, DataOK, Pc, Reported, NoMemory
<1>22. ControlOK'
  BY <1>1 DEF ControlOK, Reported, NoMemory
<1>23. ResultOK' /\ FailedOK'
  BY <1>1 DEF ResultOK, FailedOK, Reported, NoMemory
<1>24. HeapOK' /\ MemorySafe'
  BY <1>1, <1>2 DEF HeapOK, MemorySafe, ArenaBlocks, ControlOK, Reported, NoMemory
<1> QED
  BY <1>20, <1>21, <1>22, <1>23, <1>24 DEF TypeOK

\* SizeSource: every failure closes the file.
LEMMA SizeSourceKeeps == ASSUME Ownership, SizeSource PROVE Ownership'
<1> USE DEF Ownership, SizeSource
<1>1. \/ pc' = "alloc" /\ UNCHANGED <<result, want, open>>
      \/ open' = FALSE /\ Reported
  BY ReportResult, ApiBounds DEF Status
<1>2. Owned(result) = {} /\ Owned(result') = {}
  BY <1>1, EmptyOwnsNothing DEF ResultOK, Reported
<1>20. FlagsOK'
  BY Zenon DEF TypeOK, FlagsOK
<1>21. DataOK'
  BY <1>1, ApiBounds DEF TypeOK, DataOK, Pc, Reported
<1>22. ControlOK'
  BY <1>1 DEF ControlOK, Reported
<1>23. ResultOK' /\ FailedOK'
  BY <1>1 DEF ResultOK, FailedOK, Reported
<1>24. HeapOK' /\ MemorySafe'
  BY <1>1, <1>2 DEF HeapOK, MemorySafe, ArenaBlocks, ControlOK, Reported
<1> QED
  BY <1>20, <1>21, <1>22, <1>23, <1>24 DEF TypeOK

\* AllocBuffer: the buffer is nazm_assemble_file's own.
LEMMA AllocBufferKeeps == ASSUME Ownership, AllocBuffer PROVE Ownership'
<1> USE DEF Ownership, AllocBuffer
<1>1. \/ /\ Heap({BufferBlock}, {}, {}) /\ pc' = "read"
         /\ UNCHANGED <<open, result, want, failed>>
      \/ open' = FALSE /\ NoMemory("return") /\ UNCHANGED <<heap, bad>>
  BY OutOfMemoryResult
<1>2. Owned(result) = {} /\ Owned(result') = {}
  BY <1>1, EmptyOwnsNothing DEF ResultOK, NoMemory
<1>3. heap = {} /\ ~caught /\ ~delegated
  BY <1>2 DEF HeapOK, ControlOK
<1>20. FlagsOK'
  BY <1>1, Zenon DEF TypeOK, FlagsOK, NoMemory, Heap
<1>21. DataOK'
  BY <1>1, BlockTypes, ApiBounds DEF TypeOK, DataOK, Pc, NoMemory, Heap
<1>22. ControlOK'
  BY <1>1 DEF ControlOK, NoMemory
<1>23. ResultOK' /\ FailedOK'
  BY <1>1 DEF ResultOK, FailedOK, NoMemory
<1>24. HeapOK'
  BY <1>1, <1>2, <1>3 DEF HeapOK, NoMemory, Heap
<1>25. MemorySafe'
  BY <1>1, <1>3 DEF MemorySafe, Heap
<1> QED
  BY <1>20, <1>21, <1>22, <1>23, <1>24, <1>25 DEF TypeOK

\* ReadBuffer: a short read frees the buffer, a full one hands it on.
LEMMA ReadBufferKeeps == ASSUME Ownership, ReadBuffer PROVE Ownership'
<1> USE DEF Ownership, ReadBuffer
<1>1. \/ /\ Heap({}, {BufferBlock}, {}) /\ delegated' = TRUE /\ pc' = "buffer"
         /\ UNCHANGED <<result, want>>
      \/ Heap({}, {BufferBlock}, {BufferBlock}) /\ Reported /\ UNCHANGED delegated
  BY ReportResult, ApiBounds DEF Status
<1>2. Owned(result) = {} /\ Owned(result') = {}
  BY <1>1, EmptyOwnsNothing DEF ResultOK, Reported
<1>3. heap = {BufferBlock} /\ ~caught /\ ~delegated
  BY <1>2 DEF HeapOK, ControlOK
<1>20. FlagsOK'
  BY <1>1, Zenon DEF TypeOK, FlagsOK, Heap
<1>21. DataOK'
  BY <1>1, ApiBounds DEF TypeOK, DataOK, Pc, Reported, Heap
<1>22. ControlOK'
  BY <1>1 DEF ControlOK, Reported
<1>23. ResultOK' /\ FailedOK'
  BY <1>1 DEF ResultOK, FailedOK, Reported
<1>24. HeapOK'
  BY <1>1, <1>2, <1>3 DEF HeapOK, Reported, Heap
<1>25. MemorySafe'
  BY <1>1, <1>3 DEF MemorySafe, Heap
<1> QED
  BY <1>20, <1>21, <1>22, <1>23, <1>24, <1>25 DEF TypeOK

\* CheckOptions allocates nothing of its own.
LEMMA CheckOptionsKeeps == ASSUME Ownership, CheckOptions PROVE Ownership'
<1> USE DEF Ownership, CheckOptions
<1>1. (pc' = "context" /\ UNCHANGED <<result, want>>) \/ Reported
  BY ReportResult, ApiBounds DEF Status
<1>2. Owned(result) = {} /\ Owned(result') = {}
  BY <1>1, EmptyOwnsNothing DEF ResultOK, Reported
<1>20. FlagsOK'
  BY Zenon DEF TypeOK, FlagsOK
<1>21. DataOK'
  BY <1>1, ApiBounds DEF TypeOK, DataOK, Pc, Reported
<1>22. ControlOK'
  BY <1>1 DEF ControlOK, Reported
<1>23. ResultOK' /\ FailedOK'
  BY <1>1 DEF ResultOK, FailedOK, Reported
<1>24. HeapOK' /\ MemorySafe'
  BY <1>1, <1>2 DEF HeapOK, MemorySafe, ArenaBlocks, ControlOK, Reported
<1> QED
  BY <1>20, <1>21, <1>22, <1>23, <1>24 DEF TypeOK

\* AllocContext: the new context has no arena.
LEMMA AllocContextKeeps == ASSUME Ownership, AllocContext PROVE Ownership'
<1> USE DEF Ownership, AllocContext
<1>1. \/ /\ Heap({ContextBlock}, {}, {}) /\ caught' = TRUE /\ arena' = 0
         /\ pc' = "create" /\ UNCHANGED <<result, want, failed>>
      \/ NoMemory("return") /\ UNCHANGED <<caught, heap, arena, bad>>
  BY OutOfMemoryResult
<1>2. Owned(result) = {} /\ Owned(result') = {}
  BY <1>1, EmptyOwnsNothing DEF ResultOK, NoMemory
<1>3. arena = 0 /\ ~caught /\ ArenaBlocks = {}
  BY DEF ControlOK, ArenaBlocks
<1>4. ArenaBlocks' = {}
  BY <1>1, <1>3 DEF ArenaBlocks
<1>5. heap = Buffered
  BY <1>2, <1>3 DEF HeapOK, Buffered
<1>20. FlagsOK'
  BY <1>1, Zenon DEF TypeOK, FlagsOK, NoMemory, Heap
<1>21. DataOK'
  BY <1>1, BlockTypes, ApiBounds DEF TypeOK, DataOK, Pc, NoMemory, Heap
<1>22. ControlOK'
  BY <1>1, <1>3 DEF ControlOK, NoMemory
<1>23. ResultOK' /\ FailedOK'
  BY <1>1 DEF ResultOK, FailedOK, NoMemory
<1>24. HeapOK'
  BY <1>1, <1>2, <1>3, <1>4, <1>5 DEF HeapOK, NoMemory, Heap, Buffered
<1>25. MemorySafe'
  BY <1>1, <1>5 DEF MemorySafe, Heap
<1> QED
  BY <1>20, <1>21, <1>22, <1>23, <1>24, <1>25 DEF TypeOK

\* Return: nazm_assemble_file frees the buffer it handed on.
LEMMA ReturnKeeps == ASSUME Ownership, Return PROVE Ownership'
<1> USE DEF Ownership, Return
<1>1. Owned(result') = Owned(result) /\ ~caught
  BY DEF ControlOK
<1>2. BufferBlock \notin Owned(result)
  BY OwnersApart
<1>3. heap = Owned(result) \union (IF delegated THEN {BufferBlock} ELSE {})
  BY <1>1 DEF HeapOK
<1>20. FlagsOK'
  BY Zenon DEF TypeOK, FlagsOK, Heap
<1>21. DataOK'
  BY DEF TypeOK, DataOK, Pc, Heap
<1>22. ControlOK'
  BY DEF ControlOK
<1>23. ResultOK' /\ FailedOK'
  BY DEF ResultOK, FailedOK
<1>24. HeapOK'
  BY <1>1, <1>2, <1>3 DEF HeapOK, Heap
<1>25. MemorySafe'
  BY <1>3 DEF MemorySafe, Heap
<1> QED
  BY <1>20, <1>21, <1>22, <1>23, <1>24, <1>25 DEF TypeOK


\* CreateArena: the first block joins an empty chain.
LEMMA CreateArenaKeeps == ASSUME Ownership, CreateArena PROVE Ownership'
<1> USE DEF Ownership, CreateArena
<1>1. Owned(result') = Owned(result) /\ Buffered' = Buffered
  BY DEF Buffered
<1>2. arena = 0 /\ caught /\ caught' /\ ArenaBlocks = {}
  BY DEF ControlOK, ArenaBlocks
<1>3. heap = Owned(result) \union {ContextBlock} \union Buffered
  BY <1>2 DEF HeapOK, Buffered
<1>4. \/ /\ Heap({ArenaBlock(1)}, {ContextBlock}, {})
         /\ ArenaBlocks' = {ArenaBlock(1)} /\ pc' = "stage"
      \/ UNCHANGED <<heap, bad>> /\ ArenaBlocks' = {} /\ pc' = "oom"
  BY <1>2 DEF ArenaBlocks
<1>20. FlagsOK'
  BY Zenon DEF TypeOK, FlagsOK, Heap
<1>21. DataOK'
  BY BlockTypes, ApiBounds DEF TypeOK, DataOK, Pc, Stage, Heap
<1>22. ControlOK'
  BY <1>2 DEF ControlOK
<1>23. ResultOK' /\ FailedOK'
  BY DEF ResultOK, FailedOK
<1>24. HeapOK'
  BY <1>1, <1>2, <1>3, <1>4 DEF HeapOK, Heap, Buffered
<1>25. MemorySafe'
  BY <1>3, <1>4 DEF MemorySafe, Heap
<1> QED
  BY <1>20, <1>21, <1>22, <1>23, <1>24, <1>25 DEF TypeOK

\* arena_alloc: a new block joins the chain, or the call jumps.
LEMMA arena_allocKeeps == ASSUME Ownership, arena_alloc PROVE Ownership'
<1> USE DEF Ownership, arena_alloc
<1>1. Owned(result') = Owned(result) /\ Buffered' = Buffered
  BY DEF Buffered
<1>2. caught /\ caught' /\ arena \in Nat
  BY DEF ControlOK, TypeOK, DataOK
<1>3. heap = Owned(result) \union {ContextBlock} \union ArenaBlocks \union Buffered
  BY <1>2 DEF HeapOK, Buffered
<1>4. \/ /\ Heap({ArenaBlock(arena + 1)}, {ContextBlock} \union ArenaBlocks, {})
         /\ ArenaBlocks' = ArenaBlocks \union {ArenaBlock(arena + 1)} /\ pc' = "stage"
      \/ UNCHANGED <<heap, bad>> /\ ArenaBlocks' = ArenaBlocks /\ pc' = "oom"
  <2>1. (1 .. arena + 1) = (1 .. arena) \union {arena + 1}
    BY <1>2
  <2> QED
    BY <2>1 DEF ArenaBlocks
<1>20. FlagsOK'
  BY Zenon DEF TypeOK, FlagsOK, Heap
<1>21. DataOK'
  BY <1>2, BlockTypes, ApiBounds DEF TypeOK, DataOK, Pc, Heap
<1>22. ControlOK'
  BY <1>2 DEF ControlOK
<1>23. ResultOK' /\ FailedOK'
  BY DEF ResultOK, FailedOK
<1>24. HeapOK'
  BY <1>1, <1>2, <1>3, <1>4 DEF HeapOK, Heap, Buffered
<1>25. MemorySafe'
  BY <1>3, <1>4 DEF MemorySafe, Heap
<1> QED
  BY <1>20, <1>21, <1>22, <1>23, <1>24, <1>25 DEF TypeOK

\* EndStage: the diagnostics are still in the arena.
LEMMA EndStageKeeps == ASSUME Ownership, EndStage PROVE Ownership'
<1> USE DEF Ownership, EndStage
<1>1. \/ stage' \in Stage /\ UNCHANGED <<pc, result, want>>
      \/ Reported /\ UNCHANGED stage
  <2>1. CASE stage' = StageAfter(stage) /\ UNCHANGED <<pc, result, want>>
    <3>1. StageAfter(stage) \in Stage
      BY DEF TypeOK, DataOK, Stage, StageAfter
    <3> QED
      BY <2>1, <3>1
  <2>2. CASE (\E n \in 1 .. NAZM_MAX_ERRORS : Report("SOURCE_ERROR", n)) /\ UNCHANGED stage
    <3>1. "SOURCE_ERROR" \in Status \ {"OK", "OUT_OF_MEMORY"}
      BY DEF Status
    <3> QED
      BY <2>2, <3>1, ReportResult
  <2> QED
    BY <2>1, <2>2
<1>2. Owned(result) = {} /\ Owned(result') = {}
  BY <1>1, EmptyOwnsNothing DEF ResultOK, Reported
<1>3. caught /\ caught' /\ ArenaBlocks' = ArenaBlocks /\ Buffered' = Buffered
  BY DEF ControlOK, ArenaBlocks, Buffered
<1>4. heap = {ContextBlock} \union ArenaBlocks \union Buffered
  BY <1>2, <1>3 DEF HeapOK, Buffered
<1>5. heap' = heap
  BY DEF Heap
<1>20. FlagsOK'
  BY Zenon DEF TypeOK, FlagsOK, Heap
<1>21. DataOK'
  BY <1>1, <1>5, ApiBounds DEF TypeOK, DataOK, Pc, Reported
<1>22. ControlOK'
  BY <1>1, <1>3 DEF ControlOK, Reported
<1>23. ResultOK' /\ FailedOK'
  BY <1>1 DEF ResultOK, FailedOK, Reported
<1>24. HeapOK'
  BY <1>1, <1>2, <1>3, <1>4, <1>5 DEF HeapOK, Reported, Buffered
<1>25. MemorySafe'
  BY <1>4 DEF MemorySafe, Heap, InUse, Buffered
<1> QED
  BY <1>20, <1>21, <1>22, <1>23, <1>24, <1>25 DEF TypeOK

\* EndOutput: likewise for the object.
LEMMA EndOutputKeeps == ASSUME Ownership, EndOutput PROVE Ownership'
<1> USE DEF Ownership, EndOutput
<1>1. \/ pc' = "object" /\ UNCHANGED <<result, want>>
      \/ Reported
  BY ReportResult, ApiBounds DEF Status, Stage
<1>2. Owned(result) = {} /\ Owned(result') = {}
  BY <1>1, EmptyOwnsNothing DEF ResultOK, Reported
<1>3. caught /\ caught' /\ ArenaBlocks' = ArenaBlocks /\ Buffered' = Buffered
  BY DEF ControlOK, ArenaBlocks, Buffered
<1>4. heap = {ContextBlock} \union ArenaBlocks \union Buffered
  BY <1>2, <1>3 DEF HeapOK, Buffered
<1>5. heap' = heap
  BY DEF Heap
<1>20. FlagsOK'
  BY Zenon DEF TypeOK, FlagsOK, Heap
<1>21. DataOK'
  BY <1>1, <1>5, ApiBounds DEF TypeOK, DataOK, Pc, Reported
<1>22. ControlOK'
  BY <1>1, <1>3 DEF ControlOK, Reported
<1>23. ResultOK' /\ FailedOK'
  BY <1>1 DEF ResultOK, FailedOK, Reported
<1>24. HeapOK'
  BY <1>1, <1>2, <1>3, <1>4, <1>5 DEF HeapOK, Reported, Buffered
<1>25. MemorySafe'
  BY <1>4 DEF MemorySafe, Heap, InUse, Buffered
<1> QED
  BY <1>20, <1>21, <1>22, <1>23, <1>24, <1>25 DEF TypeOK

\* CopyObject: the object is copied while the arena lives.
LEMMA CopyObjectKeeps == ASSUME Ownership, CopyObject PROVE Ownership'
<1> USE DEF Ownership, CopyObject
<1>1. \/ /\ Heap({ObjectBlock}, ArenaBlocks, {})
         /\ result' = [nazm_empty_result("OK") EXCEPT !.object = TRUE]
         /\ pc' = "cleanup" /\ UNCHANGED <<want, failed>>
      \/ NoMemory("cleanup") /\ UNCHANGED <<heap, bad>>
  BY OutOfMemoryResult
<1>2. Owned(result) = {}
  BY EmptyOwnsNothing DEF ResultOK
<1>3. \/ NoMemory("cleanup")
      \/ /\ result' \in Result /\ result'.status = "OK" /\ result'.count = 0
         /\ Owned(result') = {ObjectBlock}
  BY <1>1, ObjectOwned
<1>4. caught /\ caught' /\ ArenaBlocks' = ArenaBlocks /\ Buffered' = Buffered
  BY DEF ControlOK, ArenaBlocks, Buffered
<1>5. heap = {ContextBlock} \union ArenaBlocks \union Buffered
  BY <1>2, <1>4 DEF HeapOK, Buffered
<1>20. FlagsOK'
  BY <1>1, Zenon DEF TypeOK, FlagsOK, Heap, NoMemory
<1>21. DataOK'
  BY <1>1, <1>3, BlockTypes, ApiBounds DEF TypeOK, DataOK, Pc, Heap, NoMemory
<1>22. ControlOK'
  BY <1>1, <1>4 DEF ControlOK, NoMemory
<1>23. ResultOK' /\ FailedOK'
  BY <1>1, <1>3 DEF ResultOK, FailedOK, NoMemory
<1>24. HeapOK'
  BY <1>1, <1>2, <1>3, <1>4, <1>5, ObjectOwned
     DEF HeapOK, Heap, Buffered, NoMemory
<1>25. MemorySafe'
  BY <1>1, <1>5 DEF MemorySafe, Heap
<1> QED
  BY <1>20, <1>21, <1>22, <1>23, <1>24, <1>25 DEF TypeOK

\* OomJump: context and chain are freed; the result was still empty.
LEMMA OomJumpKeeps == ASSUME Ownership, OomJump PROVE Ownership'
<1> USE DEF Ownership, OomJump
<1>1. NoMemory("return")
  BY OutOfMemoryResult
<1>2. Owned(result) = {}
  BY EmptyOwnsNothing DEF ResultOK
<1>3. caught /\ ~caught' /\ Buffered' = Buffered
  BY DEF ControlOK, Buffered
<1>4. heap = {ContextBlock} \union ArenaBlocks \union Buffered
  BY <1>2, <1>3 DEF HeapOK, Buffered
<1>5. heap' = Buffered
  BY <1>4, OwnersApart DEF Heap, Buffered
<1>20. FlagsOK'
  BY Zenon DEF TypeOK, FlagsOK, Heap, OutOfMemory
<1>21. DataOK'
  BY <1>1, <1>5, BlockTypes, ApiBounds DEF TypeOK, DataOK, Pc, NoMemory, Buffered
<1>22. ControlOK'
  BY <1>1, <1>3 DEF ControlOK, NoMemory
<1>23. ResultOK' /\ FailedOK'
  BY <1>1 DEF ResultOK, FailedOK, NoMemory
<1>24. HeapOK'
  BY <1>1, <1>3, <1>5 DEF HeapOK, Buffered, NoMemory
<1>25. MemorySafe'
  BY <1>4 DEF MemorySafe, Heap
<1> QED
  BY <1>20, <1>21, <1>22, <1>23, <1>24, <1>25 DEF TypeOK

\* Cleanup: context and chain are freed, the result is kept.
LEMMA CleanupKeeps == ASSUME Ownership, Cleanup PROVE Ownership'
<1> USE DEF Ownership, Cleanup
<1>1. Owned(result') = Owned(result)
  OBVIOUS
<1>2. caught /\ ~caught' /\ Buffered' = Buffered
  BY DEF ControlOK, Buffered
<1>3. heap = Owned(result) \union {ContextBlock} \union ArenaBlocks \union Buffered
  BY <1>2 DEF HeapOK, Buffered
<1>4. heap' = Owned(result) \union Buffered
  BY <1>3, OwnersApart DEF Heap, Buffered
<1>5. heap' \subseteq heap
  BY <1>3, <1>4
<1>20. FlagsOK'
  BY Zenon DEF TypeOK, FlagsOK, Heap
<1>21. DataOK'
  BY <1>5, ApiBounds DEF TypeOK, DataOK, Pc
<1>22. ControlOK'
  BY <1>2 DEF ControlOK
<1>23. ResultOK' /\ FailedOK'
  BY DEF ResultOK, FailedOK
<1>24. HeapOK'
  BY <1>1, <1>2, <1>4 DEF HeapOK, Buffered
<1>25. MemorySafe'
  BY <1>3 DEF MemorySafe, Heap
<1> QED
  BY <1>20, <1>21, <1>22, <1>23, <1>24, <1>25 DEF TypeOK

\* AllocDiagnostics: the array is the result's first block.
LEMMA AllocDiagnosticsKeeps == ASSUME Ownership, AllocDiagnostics PROVE Ownership'
<1> USE DEF Ownership, AllocDiagnostics
<1>1. \/ /\ Heap({ArrayBlock}, {}, {})
         /\ result' = [result EXCEPT !.array = TRUE]
         /\ pc' = "copy" /\ UNCHANGED <<want, failed>>
      \/ NoMemory(AfterResult) /\ UNCHANGED <<heap, bad>>
  BY OutOfMemoryResult
<1>2. Owned(result) = {} /\ IsEmpty(result) /\ result \in Result
  BY EmptyOwnsNothing DEF ResultOK, TypeOK, DataOK
<1>3. \/ NoMemory(AfterResult) /\ UNCHANGED <<heap, bad>>
      \/ /\ Heap({ArrayBlock}, {}, {}) /\ pc' = "copy" /\ UNCHANGED <<want, failed>>
         /\ result' \in Result /\ result'.status = result.status
         /\ result'.count = 0 /\ IsPartial(result') /\ Owned(result') = {ArrayBlock}
  BY <1>1, <1>2, ArrayOwned
<1>4. /\ ArenaBlocks' = ArenaBlocks /\ Buffered' = Buffered
      /\ AfterResult \in {"cleanup", "return"}
      /\ caught => AfterResult = "cleanup"
      /\ ~caught => AfterResult = "return"
  BY DEF ArenaBlocks, Buffered, AfterResult
<1>5. heap = (IF caught THEN {ContextBlock} \union ArenaBlocks ELSE {}) \union Buffered
  BY <1>2 DEF HeapOK, Buffered
<1>20. FlagsOK'
  BY <1>1, Zenon DEF TypeOK, FlagsOK, Heap, NoMemory
<1>21. DataOK'
  BY <1>3, <1>4, BlockTypes, ApiBounds DEF TypeOK, DataOK, Pc, Heap, NoMemory
<1>22. ControlOK'
  BY <1>3, <1>4 DEF ControlOK, NoMemory
<1>23. ResultOK' /\ FailedOK'
  BY <1>3, <1>4 DEF ResultOK, FailedOK, NoMemory
<1>24. HeapOK'
  BY <1>3, <1>4, <1>5 DEF HeapOK, Heap, Buffered, NoMemory
<1>25. MemorySafe'
  BY <1>3 DEF MemorySafe, Heap
<1> QED
  BY <1>20, <1>21, <1>22, <1>23, <1>24, <1>25 DEF TypeOK

\* nazm_result_free: what the client frees is what the result owns.
LEMMA nazm_result_freeKeeps == ASSUME Ownership, nazm_result_free PROVE Ownership'
<1> USE DEF Ownership, nazm_result_free
<1>1. result' \in Result /\ result'.count = 0 /\ IsEmpty(result') /\ Owned(result') = {}
  BY EmptyResult, EmptyOwnsNothing DEF ResultAfterFree, Status
<1>2. ~caught /\ ~delegated /\ ~caught' /\ ~delegated'
  BY DEF ControlOK
<1>3. heap = Owned(result)
  BY <1>2 DEF HeapOK
<1>4. heap' = {}
  BY <1>3 DEF Heap
<1>20. FlagsOK'
  BY Zenon DEF TypeOK, FlagsOK, Heap
<1>21. DataOK'
  BY <1>1, <1>4, ApiBounds DEF TypeOK, DataOK, Pc
<1>22. ControlOK'
  BY <1>2 DEF ControlOK
<1>23. ResultOK' /\ FailedOK'
  BY <1>1 DEF ResultOK, FailedOK
<1>24. HeapOK'
  BY <1>1, <1>2, <1>4 DEF HeapOK
<1>25. MemorySafe'
  BY <1>3 DEF MemorySafe, Heap
<1> QED
  BY <1>20, <1>21, <1>22, <1>23, <1>24, <1>25 DEF TypeOK

\* CopyDiagnostic: a half copied diagnostic is counted, so its text is freed.
LEMMA CopyDiagnosticKeeps == ASSUME Ownership, CopyDiagnostic PROVE Ownership'
<1> USE DEF Ownership
<1>1. PICK file \in BOOLEAN, message \in BOOLEAN :
        IF file /\ message
        THEN /\ Heap(NewTexts(result, file, message), ArenaBlocks, {})
             /\ result' = NextOwned(result, file, message)
             /\ pc' = IF result.count + 1 < want THEN "copy" ELSE AfterResult
             /\ failed' = (failed \/ ~(file /\ message))
             /\ UNCHANGED want
        ELSE /\ Heap(NewTexts(result, file, message), ArenaBlocks,
                     Owned(NextOwned(result, file, message)))
             /\ OutOfMemory(AfterResult)
  BY DEF CopyDiagnostic, NewTexts, NextOwned, Counted, BothTexts
<1>2. pc = "copy" /\ UNCHANGED <<stage, delegated, caught, open, arena>>
  BY DEF CopyDiagnostic
<1>3. /\ result \in Result /\ IsPartial(result) /\ result.count \in Nat
      /\ result.count < want /\ want \in 0 .. NAZM_MAX_ERRORS
      /\ result.status \notin {"OK", "OUT_OF_MEMORY"} /\ ~failed
  BY <1>2 DEF ResultOK, FailedOK, TypeOK, DataOK, Result
<1> DEFINE q == NextOwned(result, file, message)
           new == NewTexts(result, file, message)
           rest == (IF caught THEN {ContextBlock} \union ArenaBlocks ELSE {})
                   \union Buffered
<1>4. /\ q \in Result /\ q.status = result.status /\ q.count = result.count + 1
      /\ (file /\ message) => IsPartial(q)
      /\ Owned(q) = Owned(result) \union new
  BY <1>3, DiagnosticOwned
<1>5. new \subseteq Block
  BY <1>3, BlockTypes DEF NewTexts
<1>6. /\ ArenaBlocks' = ArenaBlocks /\ Buffered' = Buffered
      /\ AfterResult \in {"cleanup", "return"}
      /\ caught => AfterResult = "cleanup"
      /\ ~caught => AfterResult = "return"
      /\ ~caught => ArenaBlocks = {}
  BY <1>2 DEF ArenaBlocks, Buffered, AfterResult, ControlOK
<1>7. heap = Owned(result) \union rest
  BY <1>2 DEF HeapOK, Buffered
<1>8. Owned(q) \intersect rest = {}
  BY OwnersApart DEF Buffered
<1>9. ArenaBlocks \subseteq heap
  BY <1>6, <1>7
<1>10. \/ /\ file /\ message /\ UNCHANGED <<failed, want>>
          /\ result' = q /\ heap' = Owned(q) \union rest /\ ~bad'
          /\ pc' \in {"copy", AfterResult}
          /\ pc' = "copy" => q.count < want
       \/ NoMemory(AfterResult) /\ heap' = rest /\ ~bad'
  <2>1. CASE file /\ message
    <3>1. heap' = Owned(q) \union rest
      BY <1>1, <1>4, <1>7, <2>1 DEF Heap
    <3>2. ~bad'
      BY <1>1, <1>9, <2>1 DEF Heap, MemorySafe
    <3>3. failed' = failed
      BY <1>1, <1>3, <2>1 DEF TypeOK, FlagsOK
    <3>4. /\ result' = q /\ UNCHANGED want
          /\ pc' \in {"copy", AfterResult}
          /\ pc' = "copy" => q.count < want
      BY <1>1, <1>4, <1>6, <2>1
    <3> QED
      BY <2>1, <3>1, <3>2, <3>3, <3>4
  <2>2. CASE ~(file /\ message)
    <3>1. NoMemory(AfterResult)
      BY <1>1, <2>2, OutOfMemoryResult
    <3>2. heap' = rest
      BY <1>1, <1>4, <1>7, <1>8, <2>2 DEF Heap
    <3>3. ~bad'
      BY <1>1, <1>4, <1>7, <1>9, <2>2 DEF Heap, MemorySafe
    <3> QED
      BY <3>1, <3>2, <3>3
  <2> QED
    BY <2>1, <2>2
<1>11. bad' \in BOOLEAN
  BY <1>1, Zenon DEF Heap
<1> HIDE DEF q, new
<1>20. FlagsOK'
  BY <1>2, <1>10, <1>11, Zenon DEF TypeOK, FlagsOK, NoMemory
<1>21. DataOK'
  <2>1. heap' \subseteq Block
    BY <1>4, <1>5, <1>7, <1>10 DEF TypeOK, DataOK
  <2>2. result' \in Result /\ result'.count <= NAZM_MAX_ERRORS
    BY <1>3, <1>4, <1>10, ApiBounds DEF NoMemory
  <2> QED
    BY <1>2, <1>6, <1>10, <2>1, <2>2 DEF TypeOK, DataOK, Pc, NoMemory
<1>22. ControlOK'
  BY <1>2, <1>6, <1>10 DEF ControlOK, NoMemory
<1>23. ResultOK' /\ FailedOK'
  BY <1>2, <1>3, <1>4, <1>6, <1>10 DEF ResultOK, FailedOK, NoMemory
<1>24. HeapOK'
  BY <1>2, <1>6, <1>10 DEF HeapOK, Buffered, NoMemory
<1>25. MemorySafe'
  BY <1>10 DEF MemorySafe
<1> QED
  BY <1>20, <1>21, <1>22, <1>23, <1>24, <1>25 DEF TypeOK

\* A stuttering step.
LEMMA StutterKeeps == ASSUME Ownership, UNCHANGED vars PROVE Ownership'
BY DEF Ownership, TypeOK, FlagsOK, DataOK, ControlOK, ResultOK, FailedOK, HeapOK,
       MemorySafe, ArenaBlocks, vars

-----------------------------------------------------------------------------
(***************************************************************************)
(* Through every call of the API, with any allocation failing at any       *)
(* point, each live block has exactly one owner that will free it.         *)
(***************************************************************************)
THEOREM OwnershipHolds == Spec => []Ownership
<1>1. Init => Ownership
  BY OwnershipAtInit
<1>2. Ownership /\ [Next]_vars => Ownership'
  <2> SUFFICES ASSUME Ownership, [Next]_vars PROVE Ownership'
    OBVIOUS
  <2>1. CASE Library
    BY <2>1, OpenSourceKeeps, SizeSourceKeeps, AllocBufferKeeps, ReadBufferKeeps,
       CheckOptionsKeeps, AllocContextKeeps, ReturnKeeps, CreateArenaKeeps,
       arena_allocKeeps, EndStageKeeps, EndOutputKeeps, CopyObjectKeeps,
       OomJumpKeeps, CleanupKeeps, AllocDiagnosticsKeeps, CopyDiagnosticKeeps
       DEF Library
  <2>2. CASE Call
    BY <2>2, CallKeeps
  <2>3. CASE nazm_result_free
    BY <2>3, nazm_result_freeKeeps
  <2>4. CASE UNCHANGED vars
    BY <2>4, StutterKeeps
  <2> QED
    BY <2>1, <2>2, <2>3, <2>4 DEF Next
<1> QED
  BY <1>1, <1>2, PTL DEF Spec

(***************************************************************************)
(* The API never uses or frees a block that is not live, however the       *)
(* failures fall and however often the client frees a result.              *)
(***************************************************************************)
THEOREM ApiIsMemorySafe == Spec => []MemorySafe
<1>1. Ownership => MemorySafe
  BY DEF Ownership
<1> QED
  BY <1>1, OwnershipHolds, PTL

(***************************************************************************)
(* When a call has returned, the live blocks are those of the result and   *)
(* the source file is closed.                                              *)
(***************************************************************************)
THEOREM ApiLeaksNothing == Spec => []NothingLeaks
<1>1. Ownership => NothingLeaks
  <2> SUFFICES ASSUME Ownership, pc \in {"returned", "freed"}
               PROVE  heap = Owned(result) /\ ~open
    BY DEF NothingLeaks
  <2>1. ~caught /\ ~delegated /\ ~open
    BY DEF Ownership, ControlOK
  <2> QED
    BY <2>1 DEF Ownership, HeapOK
<1> QED
  BY <1>1, OwnershipHolds, PTL

(***************************************************************************)
(* A returned result is whole: an object, nothing, or complete             *)
(* diagnostics, as its status says.                                        *)
(***************************************************************************)
THEOREM ResultsAreWhole == Spec => []ResultIsWhole
<1>1. Ownership => ResultIsWhole
  BY ObjectOwned, EmptyResult
     DEF Ownership, ResultOK, ResultIsWhole, IsPartial, Status
<1> QED
  BY <1>1, OwnershipHolds, PTL

(***************************************************************************)
(* A returned call says out-of-memory if and only if an allocation failed. *)
(***************************************************************************)
THEOREM NoFailureIsHidden == Spec => []FailuresAreReported
<1>1. Ownership => FailuresAreReported
  BY DEF Ownership, FailedOK, FailuresAreReported
<1> QED
  BY <1>1, OwnershipHolds, PTL
=============================================================================
