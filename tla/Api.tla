-------------------------------- MODULE Api ---------------------------------
(***************************************************************************)
(* The embedding API (src/api/api.c): who owns which block of the heap     *)
(* while any allocation may fail, and what the client is handed.           *)
(*                                                                         *)
(* Every allocation is a step of its own and succeeds or fails.  An arena  *)
(* allocation that fails leaves the pipeline by longjmp.  What the stages  *)
(* compute is left to their own modules: here a stage grows the arena and  *)
(* ends with some number of diagnostics.                                   *)
(***************************************************************************)
EXTENDS Integers

CONSTANTS
    MaxBlocks,       \* bound on the arena's blocks
    NAZM_MAX_ERRORS  \* diagnostics an ErrorList holds

ASSUME ApiBounds ==
    /\ MaxBlocks \in Nat \ {0}
    /\ NAZM_MAX_ERRORS \in Nat \ {0}

VARIABLES
    pc,         \* where the call stands
    stage,      \* the pipeline stage that runs
    delegated,  \* nazm_assemble_file has handed its buffer on
    caught,     \* nazm_assemble_caught runs and owns its context
    open,       \* the source file is open
    heap,       \* the live blocks
    arena,      \* blocks reachable from context->arena.head
    result,     \* the NazmResult under construction, or the client's
    want,       \* diagnostics to copy into it
    failed,     \* history: an allocation failed in this call
    bad         \* history: a block was used or freed that is not live

vars == <<pc, stage, delegated, caught, open, heap, arena, result, want, failed, bad>>

Stage == {"lex", "parse", "pass1", "pass2", "output"}
Status == {"OK", "SOURCE_ERROR", "INVALID_ARGUMENT", "IO_ERROR",
           "OUT_OF_MEMORY", "INTERNAL_ERROR"}
Pc == {"freed", "open", "size", "alloc", "read", "buffer", "context", "create",
       "stage", "oom", "object", "diagnostics", "copy", "cleanup", "return",
       "returned"}

-----------------------------------------------------------------------------
(* Heap blocks, by what points to them *)

Block == [of : {"context", "buffer", "arena", "object", "array", "file", "message"},
          n : Nat]
ContextBlock == [of |-> "context", n |-> 0]
BufferBlock  == [of |-> "buffer", n |-> 0]
ObjectBlock  == [of |-> "object", n |-> 0]
ArrayBlock   == [of |-> "array", n |-> 0]
ArenaBlock(k)   == [of |-> "arena", n |-> k]
FileBlock(k)    == [of |-> "file", n |-> k]
MessageBlock(k) == [of |-> "message", n |-> k]

ArenaBlocks == {ArenaBlock(k) : k \in 1 .. arena}

\* files and messages: indices of diagnostics whose pointer is not NULL.
Result == [status : Status, object : BOOLEAN, array : BOOLEAN, count : Nat,
           files : SUBSET Nat, messages : SUBSET Nat]

nazm_empty_result(status) ==
    [status |-> status, object |-> FALSE, array |-> FALSE, count |-> 0,
     files |-> {}, messages |-> {}]

\* What nazm_result_free hands to free.
Owned(r) ==
    (IF r.object THEN {ObjectBlock} ELSE {})
    \union (IF r.array THEN {ArrayBlock} ELSE {})
    \union {FileBlock(k) : k \in {m \in r.files : m <= r.count}}
    \union {MessageBlock(k) : k \in {m \in r.messages : m <= r.count}}

-----------------------------------------------------------------------------
Init ==
    /\ pc = "freed" /\ stage = "lex"
    /\ delegated = FALSE /\ caught = FALSE /\ open = FALSE
    /\ heap = {} /\ arena = 0
    /\ result = nazm_empty_result("OK") /\ want = 0
    /\ failed = FALSE /\ bad = FALSE

\* Allocate and free, using blocks that had better be live.
Heap(new, used, gone) ==
    /\ heap' = (heap \union new) \ gone
    /\ bad' = (bad \/ ~((used \union gone) \subseteq heap \union new))

\* nazm_diagnostic_result and nazm_source_error start with n to copy.
Report(status, n) ==
    /\ result' = nazm_empty_result(status)
    /\ want' = n
    /\ pc' = "diagnostics"

\* A result without memory behind it; the caller goes on at `next`.
OutOfMemory(next) ==
    /\ result' = nazm_empty_result("OUT_OF_MEMORY")
    /\ pc' = next
    /\ failed' = TRUE
    /\ UNCHANGED want

-----------------------------------------------------------------------------
(* nazm_assemble_file and nazm_assemble_buffer *)

\* The client calls one of the two, with a path that may be empty.
Call ==
    /\ pc = "freed"
    /\ failed' = FALSE
    /\ \/ pc' \in {"open", "buffer"} /\ UNCHANGED <<result, want>>
       \/ Report("INVALID_ARGUMENT", 1)
    /\ UNCHANGED <<stage, delegated, caught, open, heap, arena, bad>>

\* Wrong form: errno is not looked at.
OpenFailureWithoutErrno(errno) == Report("IO_ERROR", 1) /\ failed' = (errno = "ENOMEM")

OpenFailure(errno) ==
    IF errno = "ENOMEM" THEN OutOfMemory("return")
    ELSE Report("IO_ERROR", 1) /\ UNCHANGED failed

OpenSource ==
    /\ pc = "open"
    /\ \/ open' = TRUE /\ pc' = "size" /\ UNCHANGED <<result, want, failed>>
       \/ open' = FALSE /\ \E errno \in {"ENOMEM", "other"} : OpenFailure(errno)
    /\ UNCHANGED <<stage, delegated, caught, heap, arena, bad>>

\* fseek, ftell, the size limit, fseek.
SizeSource ==
    /\ pc = "size"
    /\ \/ pc' = "alloc" /\ UNCHANGED <<result, want, open>>
       \/ open' = FALSE /\ Report("IO_ERROR", 1)
    /\ UNCHANGED <<stage, delegated, caught, heap, arena, failed, bad>>

AllocBuffer ==
    /\ pc = "alloc"
    /\ \/ /\ Heap({BufferBlock}, {}, {})
          /\ pc' = "read" /\ UNCHANGED <<open, result, want, failed>>
       \/ /\ open' = FALSE /\ OutOfMemory("return")
          /\ UNCHANGED <<heap, bad>>
    /\ UNCHANGED <<stage, delegated, caught, arena>>

ReadBuffer ==
    /\ pc = "read"
    /\ open' = FALSE
    /\ \/ /\ Heap({}, {BufferBlock}, {})
          /\ delegated' = TRUE
          /\ pc' = "buffer" /\ UNCHANGED <<result, want>>
       \/ /\ Heap({}, {BufferBlock}, {BufferBlock})
          /\ Report("IO_ERROR", 1) /\ UNCHANGED delegated
    /\ UNCHANGED <<stage, caught, arena, failed>>

\* nazm_options_valid, and a source that is NULL only when empty.
CheckOptions ==
    /\ pc = "buffer"
    /\ \/ pc' = "context" /\ UNCHANGED <<result, want>>
       \/ Report("INVALID_ARGUMENT", 1)
    /\ UNCHANGED <<stage, delegated, caught, open, heap, arena, failed, bad>>

\* The context is zeroed, its arena empty.
AllocContext ==
    /\ pc = "context"
    /\ \/ /\ Heap({ContextBlock}, {}, {})
          /\ caught' = TRUE /\ arena' = 0
          /\ pc' = "create" /\ UNCHANGED <<result, want, failed>>
       \/ OutOfMemory("return") /\ UNCHANGED <<caught, heap, arena, bad>>
    /\ UNCHANGED <<stage, delegated, open>>

\* Leaving either function; nazm_assemble_file frees its buffer.
Return ==
    /\ pc = "return"
    /\ Heap({}, {}, IF delegated THEN {BufferBlock} ELSE {})
    /\ delegated' = FALSE
    /\ pc' = "returned"
    /\ UNCHANGED <<stage, caught, open, arena, result, want, failed>>

-----------------------------------------------------------------------------
(* nazm_assemble_caught *)

\* arena_create_with_oom_handler, then a new block whenever one is full.  The
\* chain is stored in the context only when the first block exists.
CreateArena ==
    /\ pc = "create"
    /\ \/ /\ Heap({ArenaBlock(1)}, {ContextBlock}, {})
          /\ arena' = 1 /\ stage' = "lex"
          /\ pc' = "stage" /\ UNCHANGED failed
       \/ pc' = "oom" /\ failed' = TRUE /\ UNCHANGED <<stage, heap, arena, bad>>
    /\ UNCHANGED <<delegated, caught, open, result, want>>

arena_alloc ==
    /\ pc = "stage"
    /\ \/ /\ arena < MaxBlocks
          /\ Heap({ArenaBlock(arena + 1)}, {ContextBlock} \union ArenaBlocks, {})
          /\ arena' = arena + 1 /\ UNCHANGED <<pc, failed>>
       \/ pc' = "oom" /\ failed' = TRUE /\ UNCHANGED <<heap, arena, bad>>
    /\ UNCHANGED <<stage, delegated, caught, open, result, want>>

\* The source and the arena are read to the end of a stage.
InUse == {ContextBlock} \union ArenaBlocks
         \union (IF delegated THEN {BufferBlock} ELSE {})

StageAfter(s) ==
    CASE s = "lex" -> "parse" [] s = "parse" -> "pass1"
      [] s = "pass1" -> "pass2" [] s = "pass2" -> "output"

EndStage ==
    /\ pc = "stage" /\ stage # "output"
    /\ Heap({}, InUse, {})
    /\ \/ stage' = StageAfter(stage) /\ UNCHANGED <<pc, result, want>>
       \/ /\ \E n \in 1 .. NAZM_MAX_ERRORS : Report("SOURCE_ERROR", n)
          /\ UNCHANGED stage
    /\ UNCHANGED <<delegated, caught, open, arena, failed>>

EndOutput ==
    /\ pc = "stage" /\ stage = "output"
    /\ Heap({}, InUse, {})
    /\ \/ pc' = "object" /\ UNCHANGED <<result, want>>
       \/ Report("INTERNAL_ERROR", 1)
    /\ UNCHANGED <<stage, delegated, caught, open, arena, failed>>

\* The object is copied out of the arena.
CopyObject ==
    /\ pc = "object"
    /\ \/ /\ Heap({ObjectBlock}, ArenaBlocks, {})
          /\ result' = [nazm_empty_result("OK") EXCEPT !.object = TRUE]
          /\ pc' = "cleanup" /\ UNCHANGED <<want, failed>>
       \/ OutOfMemory("cleanup") /\ UNCHANGED <<heap, bad>>
    /\ UNCHANGED <<stage, delegated, caught, open, arena>>

\* Wrong form: the branch falls through into another attempt.
OomRestarts ==
    /\ pc = "oom"
    /\ Heap({}, {ContextBlock}, ArenaBlocks)
    /\ arena' = 0
    /\ pc' = "create"
    /\ UNCHANGED <<stage, delegated, caught, open, result, want, failed>>

\* setjmp returned nonzero: release everything, return an empty result.
OomJump ==
    /\ pc = "oom"
    /\ Heap({}, {ContextBlock}, {ContextBlock} \union ArenaBlocks)
    /\ caught' = FALSE /\ arena' = 0
    /\ OutOfMemory("return")
    /\ UNCHANGED <<stage, delegated, open>>

\* arena_free and the context's free, on every other way out.
Cleanup ==
    /\ pc = "cleanup"
    /\ Heap({}, {ContextBlock}, {ContextBlock} \union ArenaBlocks)
    /\ caught' = FALSE /\ arena' = 0
    /\ pc' = "return"
    /\ UNCHANGED <<stage, delegated, open, result, want, failed>>

-----------------------------------------------------------------------------
(* nazm_add_single_diagnostic, nazm_copy_diagnostics, nazm_result_free *)

\* Wrong form: nazm_assemble_caught returns the error without cleaning up.
AfterResultAtOnce == "return"

\* Where a call goes on with its result.
AfterResult == IF caught THEN "cleanup" ELSE "return"

AllocDiagnostics ==
    /\ pc = "diagnostics"
    /\ \/ /\ Heap({ArrayBlock}, {}, {})
          /\ result' = [result EXCEPT !.array = TRUE]
          /\ pc' = "copy" /\ UNCHANGED <<want, failed>>
       \/ OutOfMemory(AfterResult) /\ UNCHANGED <<heap, bad>>
    /\ UNCHANGED <<stage, delegated, caught, open, arena>>

\* Wrong form: a diagnostic is counted only when both texts were copied.
CountedWhenWhole(k, whole) == IF whole THEN k ELSE k - 1

\* diagnostic_count after the k-th diagnostic, copied whole or not.
Counted(k, whole) == k

\* Wrong form: one text is enough.
EitherText(file, message) == file \/ message

BothTexts(file, message) == file /\ message

\* The texts of the next diagnostic; those of the stages lie in the arena.
CopyDiagnostic ==
    /\ pc = "copy"
    /\ \E file, message \in BOOLEAN :
        LET k     == result.count + 1
            whole == BothTexts(file, message)
            new   == (IF file THEN {FileBlock(k)} ELSE {})
                     \union (IF message THEN {MessageBlock(k)} ELSE {})
            r     == [result EXCEPT
                        !.count = Counted(k, whole),
                        !.files = IF file THEN @ \union {k} ELSE @,
                        !.messages = IF message THEN @ \union {k} ELSE @]
        IN  IF whole
            THEN /\ Heap(new, ArenaBlocks, {})
                 /\ result' = r
                 /\ pc' = IF k < want THEN "copy" ELSE AfterResult
                 /\ failed' = (failed \/ ~(file /\ message))
                 /\ UNCHANGED want
            ELSE Heap(new, ArenaBlocks, Owned(r)) /\ OutOfMemory(AfterResult)
    /\ UNCHANGED <<stage, delegated, caught, open, arena>>

\* Wrong form: the result keeps its pointers.
ResultAfterFreeKept == result

\* memset(result, 0, sizeof(*result)): status 0 is OK.
ResultAfterFree == nazm_empty_result("OK")

\* The client frees a result it got, or one it has freed already.
nazm_result_free ==
    /\ pc \in {"returned", "freed"}
    /\ Heap({}, {}, Owned(result))
    /\ result' = ResultAfterFree
    /\ pc' = "freed"
    /\ UNCHANGED <<stage, delegated, caught, open, arena, want, failed>>

-----------------------------------------------------------------------------
\* The steps of the library in a call; the client's are Call and the free.
Library ==
    \/ OpenSource \/ SizeSource \/ AllocBuffer \/ ReadBuffer
    \/ CheckOptions \/ AllocContext \/ Return
    \/ CreateArena \/ arena_alloc \/ EndStage \/ EndOutput \/ CopyObject
    \/ OomJump \/ Cleanup \/ AllocDiagnostics \/ CopyDiagnostic

Next == Call \/ Library \/ nazm_result_free

\* A call runs to its end; no client has to call or to free.
Spec == Init /\ [][Next]_vars /\ WF_vars(Library)

-----------------------------------------------------------------------------
(* Properties *)

FlagsOK ==
    /\ delegated \in BOOLEAN /\ caught \in BOOLEAN /\ open \in BOOLEAN
    /\ failed \in BOOLEAN /\ bad \in BOOLEAN

DataOK ==
    /\ pc \in Pc /\ stage \in Stage
    /\ heap \subseteq Block
    /\ arena \in 0 .. MaxBlocks
    /\ result \in Result /\ result.count <= NAZM_MAX_ERRORS
    /\ want \in 0 .. NAZM_MAX_ERRORS

TypeOK == FlagsOK /\ DataOK

(***************************************************************************)
(* No block is read, written or freed after its free, whichever allocation *)
(* fails and however often the client frees the result: texts and object   *)
(* are copied before the arena goes, and a freed result is empty.          *)
(***************************************************************************)
MemorySafe == ~bad

(***************************************************************************)
(* Back at the client, exactly the blocks the result owns are live and the *)
(* source file is closed: no path through the failures of api.c leaks.     *)
(***************************************************************************)
NothingLeaks ==
    pc \in {"returned", "freed"} => heap = Owned(result) /\ ~open

(***************************************************************************)
(* A result is never half made: OK comes with an object and nothing else,  *)
(* out-of-memory owns nothing, and every other status has diagnostics,     *)
(* each with both texts.                                                   *)
(***************************************************************************)
ResultIsWhole ==
    pc = "returned" =>
        CASE result.status = "OK" ->
                 result = [nazm_empty_result("OK") EXCEPT !.object = TRUE]
          [] result.status = "OUT_OF_MEMORY" ->
                 result = nazm_empty_result("OUT_OF_MEMORY")
          [] OTHER ->
                 /\ ~result.object /\ result.array /\ result.count > 0
                 /\ result.files = 1 .. result.count
                 /\ result.messages = 1 .. result.count

(***************************************************************************)
(* A call reports out-of-memory if and only if one of its allocations      *)
(* failed; a failure is never swallowed and never blamed on the source.    *)
(***************************************************************************)
FailuresAreReported ==
    pc = "returned" => (failed <=> result.status = "OUT_OF_MEMORY")

(***************************************************************************)
(* Every call returns to the client, also when allocation keeps failing.   *)
(***************************************************************************)
CallsReturn == (pc \notin {"freed", "returned"}) ~> (pc = "returned")

-----------------------------------------------------------------------------
(* The inductive invariant behind the safety properties.                   *)

\* The result before any of it is allocated.
IsEmpty(r) == r = nazm_empty_result(r.status)

\* Copied so far: whole diagnostics in an array, no object.
IsPartial(r) ==
    /\ ~r.object /\ r.array
    /\ r.files = 1 .. r.count /\ r.messages = 1 .. r.count

\* What each point of the call may rely on.
ControlOK ==
    /\ pc \in {"create", "stage", "oom", "object", "cleanup"} => caught
    /\ caught => pc \in {"create", "stage", "oom", "object", "cleanup",
                         "diagnostics", "copy"}
    /\ (~caught \/ pc = "create") => arena = 0
    /\ delegated => pc \notin {"freed", "open", "size", "alloc", "read", "returned"}
    /\ open <=> pc \in {"size", "alloc", "read"}

ResultOK ==
    /\ pc \notin {"copy", "cleanup", "return", "returned"} => IsEmpty(result)
    /\ pc = "copy" => IsPartial(result) /\ result.count < want
    /\ pc \in {"diagnostics", "copy"} =>
           want > 0 /\ result.status \notin {"OK", "OUT_OF_MEMORY"}
    /\ pc \in {"cleanup", "return", "returned"} =>
           \/ result = [nazm_empty_result("OK") EXCEPT !.object = TRUE]
           \/ result = nazm_empty_result("OUT_OF_MEMORY")
           \/ /\ result.status \notin {"OK", "OUT_OF_MEMORY"}
              /\ IsPartial(result) /\ result.count > 0

FailedOK ==
    /\ pc \in {"cleanup", "return", "returned"} =>
           (failed <=> result.status = "OUT_OF_MEMORY")
    /\ pc \notin {"freed", "oom", "cleanup", "return", "returned"} => ~failed

\* Every live block has one owner: result, context or nazm_assemble_file.
HeapOK ==
    heap = Owned(result)
           \union (IF caught THEN {ContextBlock} \union ArenaBlocks ELSE {})
           \union (IF delegated \/ pc = "read" THEN {BufferBlock} ELSE {})

(***************************************************************************)
(* At every step of a call each live block has exactly one owner that will *)
(* free it, and what the result holds so far matches the point the call    *)
(* has reached in api.c.                                                   *)
(***************************************************************************)
Ownership == TypeOK /\ ControlOK /\ ResultOK /\ FailedOK /\ HeapOK /\ MemorySafe
=============================================================================
