# A TLA+ development of the Nazm assembler

Nazm is a two-pass x86-64 assembler with Arabic syntax. It reads one source
file and writes one relocatable object (ELF64 or COFF), with an optional listing
and optional line tables. It is one sequential process, usable as a program
(`src/main.c`) and as a library (`src/api/api.c`). Its hard parts are not races
but agreements: between two passes that compute the same layout twice, between
a size predicted before the labels are known and the bytes produced after,
between declarations and definitions that may come in any order, between the
many indices and offsets of an object file and the pieces they speak of, and
between what was read, what was written and what is reported when a step fails.

## Inventory

| Part | State it keeps | Operations | Used by |
|---|---|---|---|
| Unicode helpers (`unicode/`) | none | decode, test, cut at a character | lexer, messages |
| Lexer (`lexer/`) | cursor, token array, errors | `lexer_lex` | driver, API |
| Parser (`parser/`) | cursor, statement list, errors | `parser_parse` | driver, API |
| Symbol table (`symtable/`) | bucket chains of entries | insert, declare binding, declare external, lookups | both passes, writers |
| Pass 1 (`passes/pass1.c`) | section, four offsets, alignments, symbol table, debug files | one case per statement kind, two checks at the end | driver, API |
| Encoder (`encoder/`) | none | `encoder_instruction_size` (pass 1 and 2), `encoder_encode` (pass 2) | passes |
| Pass 2 (`passes/pass2.c`) | section, four sizes, bytes, spans, relocations, debug rows | one case per statement kind, one check at the end | driver, API |
| Symbol list (`output/symbols.c`) | array sorted by binding | collect, find index | writers |
| Line tables (`output/debug_line.c`) | byte buffer, line registers | build DWARF, build CodeView | writers |
| Writers (`output/elf64.c`, `coff.c`) | output buffer, string tables, section numbers, file pointers | `output_write` | driver, API |
| Arguments (`cli/args.c`) | options read so far | `cli_parse` | driver |
| Files (`io/file.c`) | none | open, compare two paths | driver, API |
| Listing (`cli/listing.c`) | source cursor | `listing_write_file` | driver |
| Driver (`main.c`) | paths, exit code | read, assemble, compare paths, write object, write listing | - |
| API (`api/api.c`) | result, context, arena | `nazm_assemble_buffer`, `nazm_assemble_file`, `nazm_result_free` | embedding programs |
| Arena (`alloc/`) | block list | allocate (zeroed), free all, out-of-memory handler | everything |
| Diagnostics (`error/`) | bounded list | add, print | everything |

The stages are called in order, each only if the one before reported no error:
lexer, parser, pass 1, pass 2, writer. Pass 1 hands pass 2 the symbol table and
the section sizes; pass 2 treats the sizes as capacities and re-derives
everything else from the statement list. The writers read the results of both
and have the line table made first. The driver compares all paths before it
opens one for writing.

What makes each part correct:

- *Front end*: every character is in a token, a blank, a comment or a
  diagnostic; tokens have their true places; numbers and strings are exact; a
  line becomes one statement or is reported once, whatever is around it; every
  input is read to its end.
- *Symbol table*: acceptance does not depend on the order of declarations; an
  entry, once defined or declared, never changes its meaning; the list for the
  object holds each symbol once, locals first.
- *Passes*: they agree on every size; a label means the place its statement
  ended up; a branch lands on its target; a relocation patches only its own
  statement; nothing referenced stays unsettled; alignment survives linking;
  debug rows increase.
- *Encoder*: the bytes mean the instruction; the predicted size is the length.
- *Writers, line tables*: someone who follows the object's own headers,
  pointers, indices and names finds the sections, symbols, relocations and rows
  that the passes handed over.
- *Driver*: the source is never written; a rejected source changes no file;
  success means complete outputs.
- *Listing*: each statement stands beside its own line, each byte is shown once.
- *API*: whichever allocation fails, nothing leaks, nothing is used after its free,
  the result is whole and the failure is reported.

`PROJECT.json` lists the places where this is hard to test ("hazards").

## Modules

| Module | Models |
|---|---|
| `SymEntry` | one symbol-table entry and what each operation does to it |
| `SymTable` | the bucket chains and the three operations |
| `SymbolList` | the symbol list of `output/symbols.c`, for `SymTable` and the writers |
| `SymTableProof` | theorems about `SymTable` |
| `SymbolRules` | the abstract specification of the table: facts about names, refused exactly when they contradict |
| `Statements` | the statement list, validation and size of directives, bytes a data directive writes |
| `Passes` | `pass1_run`, the callers' gate, `pass2_run`; one action per kind of statement and pass |
| `PassesProof` | theorems about `Passes`: types, the agreement of the passes, and that what pass 1 has found stays true of its layout |
| `PlacementProof` | extends it: what pass 2 has emitted follows that layout, and the properties of the run `passes` that result |
| `Encoder` | `encoder_encode` and `encoder_instruction_size`, byte for byte |
| `Encoding` | one call of the encoder, and a decoder of the same instruction subset to state what the bytes mean |
| `EncoderProof` | theorems about `Encoding`: length and size |
| `MeaningProof` | extends it: the decoder reads the instruction back from its bytes |
| `Api` | `nazm_assemble_file`, `nazm_assemble_buffer`, `nazm_result_free`: ownership of heap blocks when any allocation fails |
| `ApiProof` | theorems about `Api` |
| `ObjectFile` | what both writers are given, buffers and string tables |
| `Elf64` | `output_write_elf64` |
| `Coff` | `output_write_coff` |
| `DebugLine` | `output_build_dwarf_line` and `output_build_codeview_line`, byte for byte, and readers of both formats |
| `Output` | `output_write`: composes `DebugLine` with `Elf64` or `Coff` |
| `Utf8` | the UTF-8 decoder and the cut at a whole character |
| `Lexer` | `lexer_lex`, with the bounded list of diagnostics |
| `Parser` | `parser_parse`, one operand a step, with the recovery at the line end |
| `FrontEnd` | composes `Utf8`, `Lexer` and `Parser` with the gate between them |
| `FrontEndProof` | theorems about `FrontEnd`: the decoder and the lexer |
| `PathIdentity` | `io_path_identity` on POSIX, over a file system with hard and symbolic links |
| `CliArgs` | `cli_parse` |
| `Driver` | `nazm_main_utf8` with every failure and exit code, over `PathIdentity` and `CliArgs` |
| `DriverProof` | theorems about `Driver` |
| `Listing` | `listing_write_stream` |
| `MC*` | instances for TLC; `MCObject` and `MCTokens` hold inputs only |

A definition whose comment begins "Wrong form" is the mutated twin of the one
after it; no specification uses it. It is the plausible bug that a property must
notice.

### Correspondence and abstraction

*Names and text.* A symbol name is a model value or a short string; a string
operand is its length and the class of its text (plain, with an inner NUL, a valid
byte-list path). Messages are reduced to what they complain of and where.

*Front end.* `Utf8` works on bytes with the real ranges. In `Lexer` a character
stands for its class (a letter, a register letter, each punctuation mark, the
digits 0, 1 and 8, the prefixes of numbers, a byte that is not UTF-8). One action
is one turn of `lex_all`, or one character inside a string or comment. `pos`, `line`
and `col` are the fields of `Lexer`; a token also remembers `from` and `to`, the
characters it is made of, which only the properties use. Numbers are parsed digit
by digit with the overflow tests of `append_digit` at `Width` bits (4 in the runs,
64 in the code). `errors` and `reported` are the list of diagnostics and the flag
behind it. The code decodes as it goes; as the lexer moves only by whole
characters, decoding first gives the same (`FrontEnd!StartLexer`). The keyword and
register tables are parameters. In `Parser` `pos` is the token cursor, `instr` the
statement being built, `syntax_ok` the variable of that name; `parse_operand` is a function
from a position to the operand, or the token complained of, and the next position.

*Symbol table.* `buckets` holds sequences of nodes, new ones first, as the linked
chains do. `arena_alloc` zeroes memory, so creating an entry and updating a zero
entry are the same; `SymEntry` uses this to state each operation once, and the
passes use a map from names to entries in place of the chains. That the chains
behave like such a map is what the `symtable` run checks and `SymTableProof` proves.

*Passes.* `offset` is pass 1's four running offsets and then its result sizes,
`size` pass 2's four sizes; `emissions`, `relocs` and `lines` are the lists of the
same names in `Pass2Result`; `code` replaces `text_bytes` by one record per
instruction. All capacity and length checks of pass 2 are modelled with the
early returns they cause; the theorem shows that one kind of directive alone makes
them fire. `layout`
is a history variable: section and offsets before each statement in pass 1.
Offsets are `size_t` in the code and cannot overflow before memory is exhausted,
so they are natural numbers here. The size of a directive is an `int`:
`data_directive_size` narrows each string's length, adds its NUL and sums, and `AsInt`
wraps each of the three at `INT_MAX` (C leaves the overflow of the two sums undefined;
the compilers wrap, and the proofs use only that the outcome is an `int`). A string of
an `int`'s whole range needs gigabytes of source, which `nazm_assemble_buffer` takes
(`api.c:284`), unlike the command line and the file API with their limit of 100 MiB. Dead code is kept where it is a statement kind
(a data directive in `.text` in pass 2).

*Encoder.* A 64-bit number is its eight bytes, so every width test is exact. The
passes take the encoder as parameters `SizeOf` and `EncodingOf` with the contract
`EncoderAssumption`. The runs of `Passes` instantiate them with a small table,
which an `ASSUME` of `MCPasses` compares with `Encoder` on every statement of the run
(TLC does not have to carry the whole encoder through every action);
`SizeIsLength` checks the contract over the operand forms, and `EncoderProof` proves it.

*Writers.* A file is a sequence of pieces: what a piece holds, where it starts, how
long it is. Padding, alignment, string-table offsets, section numbers, symbol indices
and the links between headers are exact numbers; the contents of a piece are the
records written into it. `todo` is what remains of the straight-line code that writes
pieces and headers. The order of sections and of headers is written down twice, once
for numbering and once for writing, because the code does so too. The 32-bit and
16-bit limits are constants, scaled down; casts are taken modulo the limit plus one
(`Narrow32`). The bytes of the line tables are real bytes (lines and columns below
2^31 with TLC's integers); padding to four bytes, LEB128 numbers, patched lengths and
offsets are computed as in the code.

*Driver.* `content` says what each file holds: nothing, the source, an earlier
output, a partial or a complete output. One action per stage, open, write and check;
each may fail as in the code. `PathIdentity` models what `stat` and `open` see (links
are followed) apart from what the normalisation of segments sees (text only).

*Listing.* `cursor` is `SourceCursor`; a step finds the line of a statement or
writes one row.

*API.* One action per allocation, file operation, stage and way out; `pc` names
the point in the call. A heap block is named by what points to it, so a second free is
seen as the free of a block that is not live (`bad`). `arena` counts the blocks that
hang on `context->arena.head`: it is still 0 when the first block cannot be had, since
`arena_create_with_oom_handler` jumps before its result is stored. A stage may grow
the arena any number of times and end with any number of diagnostics.
`nazm_diagnostic_result` and `nazm_source_error` allocate in the same order and share
their actions, with one or several diagnostics to copy. `failed` and `bad` are history.

## Runs

| Run | Question | Instance |
|---|---|---|
| `symtable` | Does the order of calls matter? Is the list exact? Do the chains implement the rules? | two colliding names, two buckets, two places; all call sequences (the state space is finite) |
| `passes` | Do the passes lay out alike but for strings beyond an `int` (`PassesAgree`, `OnlyOverflowInterrupts`)? Do labels, branches, relocations and references mean what the program says? Do spans tile, does alignment hold, are debug rows fit for line tables? | all programs of up to 4 of 14 symbol statements over 2 names; `.data` and up to 4, `.bss` and up to 3 of 14 layout statements; up to 3 debug statements, or a debug file and up to 4, of 12; `.data` and up to 4 of 9 statements at the limits of `int`; 1 030 000 states |
| `encoding` | Do the bytes mean the instruction, is the size right? | every opcode, registers of each width on both sides of each boundary, numbers on both sides of each limit, displacement targets at the rel32 limits |
| `api` | Who owns what when anything fails? Does every call return? | up to 3 arena blocks and 3 diagnostics per list, any number of calls and frees (the state space is finite) |
| `output` | Do objects of both formats, and the line tables in them, read back? Is the table patched where its reader expects it? | each section empty or not, sizes that are and are not multiples of 8, symbols of each binding and section, relocations to defined, external and missing names, alignments, names of 3, 9 and 19985 bytes; row lists of up to 2 rows at 4 offsets and 7 places; 104 000 states |
| `front_end` | Are characters, positions, numbers and strings exact? Is a line read or reported? Does the front end end? | byte strings of up to 4 bytes over the ends of all UTF-8 ranges; all sources of up to 3 characters of 20, of up to 5 over the characters of numbers, strings and lines; token lists of up to four lines; 477 000 states |
| `driver` | Are arguments read right? Is the source safe, is success complete? | sequences of up to 3 arguments; all pairs of 10 output paths, with `.`, `..`, a symbolic link, a hard link to the source; 3 disks; every step failing or not, memory and `getcwd` in the comparison of paths among them |
| `listing` | Is each statement quoted with its line, each byte shown once? | sources of up to 5 characters with blank lines, CR, missing line end; spans of up to two and a half rows |
| `dropped`, `elf_empty_section`, `coff_huge`, `lexer_minus` | statements of the documentation that the code does not keep (see Findings) | as the runs above, smaller |

The properties of the runs are stated, each with its comment, at the end of the module
they are about; `FrontEnd` and `Output` state those of their parts again for the
composition. Several are conjunctions of parts with names of their own: `LineTableReadsBack`
(`DwarfReadsBack`, `DwarfExtentIsExact`, `CodeViewReadsBack`), `CharactersStayWhole`,
`LiteralsAreExact`, `LinesAreReadOrReported`, `ListingIsExact`. `PassesAgree` and
`Ownership`, the inductive invariants of the proofs, contain the type invariants.

*Why the bounds are enough.* The passes carry little from one statement to the
next: the current section, offsets, and one entry per name. Four statements allow
a declaration, a definition, a reference and a section switch in every order; a
fifth is used for debug rows (file, location, two instructions, a reset). Limits of C
types (`INT_MAX`, `UINT32_MAX`, the line and column limits, the rel32 range) are
constants set low, so that both sides of each are reached: a rel32 limit of 12
makes a jump over two moves out of range, and with an `INT_MAX` of 31 strings of 31
to 66 bytes (their NUL included) reach the limit, pass it, and wrap to below zero, to zero and to two. In
the API two arena blocks and two
diagnostics already show every kind of partial state (first, later, last); three of
each leave room for one in the middle.

The writers have no loop-carried state but the buffer position, so every combination
of present and absent sections, with one or two symbols and relocations, shows every
case of numbering; two rows show every difference between neighbours. The name of
19985 bytes brings a string table just below or just beyond `UINT32_MAX` (20000). The lexer's
loops remember one token at most (a line end already pushed, a string being read), and
with four-bit numbers two digits overflow. The parser remembers nothing from one line
to the next except the diagnostics, of which two fit in the list; four lines overflow it.

*Deadlock* is checked everywhere; a finished call stutters explicitly.

*Fairness.* `Api` assumes weak fairness of the library's steps together (`Library`):
a call runs on one thread without waiting for anyone, so it keeps taking steps until it
returns. The client's calls and frees are not fair. Each stage is a loop over a finite
input; that it ends is modelled by the bound on the arena there. `FrontEnd` assumes weak
fairness of its whole next-state relation for the same reason: decoder, lexer and parser
are loops on one thread that never wait. `FrontEndEnds` is then about progress: no turn
of a loop may leave cursor and mode as they were. Both passes are `for` loops over a
fixed list and no liveness is claimed of them.

*Assumptions of the models.* While the driver runs no other process changes the file
system. Memory may run out in the comparison of paths (`ENOMEM` in `Faults`), which
makes the answer `UNKNOWN` and stops the driver; and `getcwd` may fail (`GETCWD`), which
does not: `io_path_identity` takes a name it could not complete for a different one
(`file.c:482`). The listing is given what `SpansTile` promises of the passes. Its
statements then come in the order of their lines, so that `source_line_at` never has to
go back to the beginning (`listing.c:42`); the step is modelled and no run takes it.

## What is proved

`PassesProof` proves for every statement set, every program, every limit and
every encoder that meets the contract:

- `PassesStayInAgreement`: `Spec => []PassesAgree`,
- `PassesDisagreeOnlyOnOverflow`: `Spec => []OnlyOverflowInterrupts`,
- `TypeCorrect`: `Spec => []TypeOK`.

`OnlyOverflowInterrupts` is not inductive: that a statement fits into the room that is
left depends on pass 1 having counted this statement at this offset. The
invariant therefore remembers pass 1's way through the program (`layout`) and
says that it is a run of `LayoutAfter` whenever no error was reported, that the
offsets only grow, and that pass 2 stands, before statement `i`, exactly at
`layout[i]`. Then the size pass 2 expects, the bytes it writes and the step of
`layout` are the same number, and the next offset bounds the room from below. A string
directive of more than `INT_MAX` bytes is the exception: its size is an `int` and so
never what its bytes need, whatever the sum wraps to. A size below zero stops pass 2 at
once, and any other either leaves no room for the bytes or differs from their number.
Until then pass 2 has met no such directive and its history is the one of pass 1; from
then on it has stopped (`Interrupted`).
One lemma per action shows the invariant preserved; the lemmas on
`data_directive_size_at` and `BytesWanted` carry the arithmetic.

The second half of `PassesProof`, and `PlacementProof` after it, build on that
invariant and prove every other safety property of the run `passes`:

- `Pass1ResultsStay`: `Spec => []Pass1Kept`,
- `Pass2FollowsTheLayout`: `Spec => []Pass2Kept`,
- `LabelsAlwaysNameTheirSpans`, `BranchesAlwaysLand`, `RelocationsAlwaysStayInside`,
  `ReferencesAreAlwaysSettled`, `SpansAlwaysTile`, `AlignmentAlwaysHolds` and
  `DebugRowsStayOrdered`.

These properties speak of finished output, so nothing about them is inductive by
itself. `Pass1Kept` says what pass 1 has established for the statements behind it:
offsets in the history only grow and every byte counted was counted for one statement,
a label keeps the section and offset at which its statement stands in the history, the
alignment noted for a section is no smaller than any boundary asked for in it, and
locations are valid and, once the loop is over, name declared files. Pass 2 changes none
of this. `Pass2Kept` says how pass 2's
output stands to the history: the k-th span begins where pass 1 saw statement k and,
outside `.bss`, ends where it saw the next one; a branch that was encoded holds
the distance to its label; each relocation lies in the span of the statement that
asked for it and no two overlap; each reference of an emitted statement is resolved or
has a relocation; rows ascend and each begins an instruction. The statements about
labels and references hold from the moment they are made because pass 2 does not touch
the symbol table. The conjunction `PassesKept` of the three invariants then implies each
property.

Assumptions: `LimitsAssumption` (limits are naturals), `ParserAssumption` (at most
three operands, symbolic operands have names, string lengths are not negative) and
`EncoderAssumption`. The last says that a successful encoding has the predicted length
whatever the target, and which forms with a symbol succeed at all: a jump or call to
one label in 5 bytes, a conditional jump in 6, a register loaded with a label in 10,
and one `[rip+label]` operand beside a register. Without the second half a statement
could ask for two fields at one place, or a field could reach beyond the instruction.
TLC evaluates all three in every run of `MCPasses`.

`EncoderProof` proves that the encoder of this repository meets the contract, for every
instruction the parser can build and every displacement:

- `SizeIsAlwaysLength`: `Spec => []SizeIsLength`,
- `SymbolicFormsAreKnown`: only the forms listed above are accepted when an operand
  names a symbol, with those lengths.

Its invariant, `CallInv`, only says that a call that has returned has returned
`encoder_encode` of its arguments; the work is in the lemmas about that function, one
per function of `table.c` and `sse2.c`. Each form is put together from parts of known
length, from the prefix and REX byte on; no form comes near the 15 bytes at which
`emit` would cut it where a field at the end matters; opcodes that are not sized by
hand do not look at the target; and `SHR` and `SAR`, which are sized as `SHL`, differ from
it in one field of the ModRM byte. The assumption, `InstructionsAssumption`, gives the
types of the fields of `Operand`, with the displacement of a memory operand an `int32_t`
(`encoder.h:75`). `RET`, `NOP`, `RDTSC`, `HLT` and `SYSCALL` ignore their
operands, so here the parser's arity table (`arity` in `Init`) is needed.

`MeaningProof` builds on these lemmas and proves

- `BytesAlwaysMeanTheInstruction`: `Spec => []BytesMeanTheInstruction`,

that the decoder of `Encoding`, which is written from the instruction format and knows
nothing of the encoder, reads each accepted instruction back from its bytes. Nothing
here is inductive beyond `CallInv`; what it takes is to follow two programs through
every form at once. A form is cut into an *opening* (mandatory prefix, REX, opcode)
and a *tail* (ModRM with its SIB byte and displacement, then an immediate).
`OpeningFact` and `StartRead` show, once for all forms, that `Fields` recovers from
the bytes the opcode, the REX bits of the three register fields and the place where
the tail begins: a legacy prefix is never taken for an opcode, nor REX for either, and
a REX byte is there whenever SPL, BPL, SIL or DIL needs one. `RegisterFormRead`,
`AddressFormRead` and `RipFormRead` do the same for the tail, with the two exceptions
of the addressing modes: bases whose low bits are those of RSP need a SIB byte, and
those of RBP a displacement. `ExtendFact` carries the immediates: a number that passes
`immediate_fits_i8` or `immediate_fits_i32` is the sign extension of its low bytes.
`OneArms`, `MoreOneArms` and `TwoArms` name the arms of the decoder; the rest is one
lemma per function of `table.c` and `sse2.c`, ending in `EverySays`, the switch of
`encoder_encode`.

Passes and encoder remain two specifications: `EncoderAssumption` is stated over the
statements of `Passes` and is discharged for this encoder by reading the two theorems,
not by an instantiation (`MCPasses` compares the two on its instance).

`SymTableProof` proves for every set of names, every hash function and every number of
buckets:

- `TableStaysSound`: `Spec => []TableInv`, the inductive invariant,
- `OrderNeverMatters`: `Spec => []AcceptanceIsOrderFree`,
- `TableImplementsRules`: `Spec => ImplementsRules`, the refinement of `SymbolRules`,
- `EntriesNeverChangeBack`: `Spec => EntriesAreFinal`.

`TableInv` says that a node sits in the chain of its name and at most once, that an
entry is in a state the operations can leave behind, and that it holds exactly the
claims made for its name until one of them was refused, which happens only when the
claims contradict each other. The refinement maps each operation to the abstract step
that asks for the same fact. Assumptions: there is a bucket (`BucketsAssumption`), hashes
are naturals (`HashAssumption`), places are a section and an offset
(`PlacesAssumption`).

`DriverProof` proves for every command line, every set of disks and every path:

- `DriverStaysSound`: `Spec => []DriverInv`, the inductive invariant,
- `SourceIsNeverWritten`: `Spec => []SourceIsSafe`,
- `ExitCodesAreHonest`: `Spec => []ExitCodeTellsTheFiles`.

`DriverInv` ties each point of `nazm_main_utf8` to what has been compared and written by
then: nothing is written before the paths are told apart, only the files behind the
output paths ever change, the object is complete when the listing is opened. That two
paths told apart are two files is a lemma about `io_path_identity`; it holds for files
that exist, with any of `Faults`, which is why the source is safe, and for outputs that
do not exist yet only outside `UnseenAlias`. `EmptyNameAssumption` says that no file has an empty name;
`FaultsAssumption` names the ways in which the comparison may fail.

`ApiProof` proves for every arena size and every number of diagnostics:

- `OwnershipHolds`: `Spec => []Ownership`, the inductive invariant,
- `ApiIsMemorySafe`, `ApiLeaksNothing`, `ResultsAreWhole`, `NoFailureIsHidden`: the four
  safety properties of the run `api`.

`NothingLeaks` speaks only of the states between calls, so it needs to know inside a call
who will free each block. `HeapOK` says that the live blocks are exactly those of the
result, of the context while `nazm_assemble_caught` runs, and of `nazm_assemble_file`
while its buffer is in use; `ControlOK` ties the owners to the point of the call;
`ResultOK` says how far the result is built, which is why overwriting it with an
out-of-memory result loses nothing. `ApiBounds` (both bounds are positive) is the only
assumption.

`FrontEndProof` proves for every source text, every byte string, every kind of letter,
every number width and every limit:

- `TokensCarryTheirPosition`: `Spec => []PositionsFollowTheSource`,
- `NothingIsDropped`: `Spec => []NothingDroppedSilently`,
- `CharactersAreNeverSplit`: `Spec => []CharactersStayWhole`.

The first two rest on `LexInv`. It says that the cursor's line and column are those of the
characters behind it, up to the lone minus signs that are counted twice; that the tokens
stand in order at their own places; that a string or a comment in progress still knows
where it began; that an error recorded is an error reported; and that every character
behind the cursor is white space, a comment, part of a token, or was complained of. The
work is one lemma per function of `lexer.c` that advances. A comment and a string are
read one character a step, so their loops are the system's own steps and need no
induction over data; the scans of a number and of a name are recursive functions, of
which only the range of the result is used, and that follows from how the scan is left.
The last rests on `DecodeInv`: the list of code points is what calls from the front made
of the first `offset` bytes, and every position up to there lies inside one of them.
A lemma compares each form `unicode_decode_utf8` accepts with the table of the
encoding, and another shows that `unicode_utf8_prefix` steps back over continuation
bytes only, so the cut is at the beginning of a character. Assumptions: a source is a
sequence of the characters of the model (`SourcesAssumption`), letters are none of the
other classes (`LettersAssumption`), a byte string is made of bytes (`BytesAssumption`),
and the list of diagnostics has room for one.

Each inductive invariant was checked with TLC on the instance of its run before it was
proved.

Only model-checked:

- `CallsReturn` and `FrontEndEnds`: liveness under fairness is out of the prover's reach.
- `OutputListIsExact`, `ArgumentsAreRead`, `PlainPathsAreTold`, the writers, the line
  tables and the listing: what they compute is defined by folds, filters and recursive
  readers over sequences, and claims about those for every length need induction over
  data. The same holds of the rest of the front end: `LiteralsAreExact` compares the
  digit loop with the value of a numeral, `LinesAreReadOrReported` and
  `StatementsFollowTheLines` compare the parser with the lines of the token list.

## Findings

1. `dropped`: a label on the line of a section, visibility, external or debug
   directive is ignored without a diagnostic (`pass1.c:605-679`), where
   `Docs/ARCHITECTURE.md:153` promises "every label's section, offset and binding".
   An instruction after `.data`, `.rodata` or `.bss` is ignored by both passes
   (`pass1.c:781`, `pass2.c:470`), where `Docs/ARCHITECTURE.md:167` says pass 2
   "encodes every instruction again".
2. `elf_empty_section`: a label of a data section that came out empty is emitted as a
   symbol of `.text` (`elf64.c:234`; `coff_section_number` likewise), where
   `Docs/CONCERNS.md:161` says it is not.
3. `coff_huge`: the COFF writer cuts a size beyond 32 bits instead of refusing it
   (`coff.c:463`), where `CHANGELOG.md:342` says that writing fails when a limit of the
   format is exceeded.
4. `lexer_minus`: a minus sign that does not begin a number moves the column twice
   (`lexer.c:588`), where `Docs/UNICODE.md:17` says columns count code points.
   `PositionsFollowTheSource` states the columns that result, so that nothing else
   hides behind this.

Three more differences are seen in the model and have no run of their own:

- An object and a listing that do not exist yet can be one file under two names; the
  listing then overwrites the object with exit code 0. `io_path_identity` (`file.c:452`)
  compares the text of such paths. It misses a symbolic link to a directory in one of
  them; and where `getcwd` fails (an unlinked or unreadable working directory) it has no
  text to compare for a relative one and answers `DIFFERENT` unless memory ran out
  (`file.c:359`, `file.c:482`), so that `../a.o` and `.././a.o` pass. The comment at
  `main.c:254` says that nothing is written until every pair of paths is proven distinct.
  `ExitCodeTellsTheFiles` excepts exactly these cases (`UnseenAlias`), and
  `PlainPathsAreTold` states what is left of the comparison in the second one.
- The strings of one directive may have more bytes than an `int` counts. The sum at
  `pass1.c:25` then overflows, where the comment at `pass1.c:17` has the sum of the
  lengths, and the program is rejected by an internal error of pass 2 (`pass2.c:375`,
  `pass2.c:443`) that the run `passes` reaches, instead of a diagnostic of pass 1. That
  no object comes of it, as `Docs/ARCHITECTURE.md:316` asks, is what
  `OnlyOverflowInterrupts` says.
- A write that fails leaves a truncated file (`output.c:19`), which
  `Docs/COMPATIBILITY.md:156` asks not to happen. No property claims otherwise: after
  exit code 2 `ExitCodeTellsTheFiles` says that only the outputs can have changed, and the
  listing only if the object is complete.

## Plan

1. *Done*: symbol table, passes, encoder; agreement of the passes proved. API under
   failing allocations; ownership proved. Writers and line tables composed; front end
   composed; driver with its paths; listing.
2. *Done*: all safety properties of the passes and of the API proved; the encoder's
   contract, the symbol table with its refinement, the driver, the decoder and the
   positions and completeness of the lexer proved.
3. *Done*: the meaning of the encoder's bytes proved.
4. Left, should a prover with induction over data be at hand: the properties listed as
   only model-checked. The first conjunct of `OutputListIsExact` already follows from
   `TableInv`.

## Not modelled, and why

- The Windows half of `io/file.c` and the conversion of `wmain`'s arguments: they rest
  on that system's path and encoding rules, which the repository does not contain.
- Keyword and register tables and the classification of letters: pure tables.
- The text of usage, messages and diagnostics, number formatting of the listing.
- Flags, machine and identification bytes of ELF and COFF; the refusals of line tables
  larger than 2^32 and lines beyond 2^24 in CodeView (the format's limit, cut by the
  code).
- `symtable_patch`, `symtable_insert` and `symtable_lookup_binding`: no caller outside
  the tests.
- Sizes and alignment inside an arena block; installers and scripts.
