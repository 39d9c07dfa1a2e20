------------------------------- MODULE Listing ------------------------------
(***************************************************************************)
(* The listing, src/cli/listing.c: for each statement its line of source   *)
(* and the bytes pass 2 emitted for it, in rows of RowSize.                *)
(*                                                                         *)
(* A row is the statement's line (0 behind its first row), the section,    *)
(* the offset and number of its bytes, and the text quoted.  The input is  *)
(* what the passes hand over: statements in the order of their lines, and  *)
(* spans that tile each section (Passes!SpansTile), empty in BSS.          *)
(***************************************************************************)
EXTENDS Integers, Sequences, SequencesExt, FiniteSets

CONSTANTS
    Inputs,    \* [source, stmts, size]
    RowSize    \* LISTING_BYTES_PER_ROW

ASSUME RowSizeAssumption == RowSize \in Nat \ {0}

VARIABLES
    source,    \* characters, "LF" and "CR" among them
    stmts,     \* [line, section, offset, size] of each statement
    size,      \* of each section
    i,         \* the statement being listed
    emitted,   \* its bytes listed so far; -1 before its line is looked up
    cursor,    \* SourceCursor
    text,      \* the source line found
    rows,
    result     \* "running", "true", or false as "refused" or "unwritten"

vars == <<source, stmts, size, i, emitted, cursor, text, rows, result>>

-----------------------------------------------------------------------------
(* source_line_at *)

\* The first line feed from k on, or the end.
LineFeedFrom(k) ==
    CHOOSE e \in k .. Len(source) + 1 :
        /\ e > Len(source) \/ source[e] = "LF"
        /\ \A j \in k .. e - 1 : source[j] # "LF"

\* Wrong form: the cursor stays on the line feed.
NextLineStuck(c) == [offset |-> LineFeedFrom(c.offset), line |-> c.line + 1]

NextLine(c) ==
    LET e == LineFeedFrom(c.offset)
    IN  [offset |-> IF e > Len(source) THEN e ELSE e + 1, line |-> c.line + 1]

\* The cursor moved to a line, from the start if that lies behind.
MoveTo(c, target) ==
    LET from == IF target < c.line THEN [offset |-> 1, line |-> 1] ELSE c
        Walk[n \in 0 .. target - from.line] ==
            IF n = 0 THEN from
            ELSE IF Walk[n - 1].offset > Len(source) THEN Walk[n - 1]
                 ELSE NextLine(Walk[n - 1])
    IN  Walk[target - from.line]

\* Without the line feed, and without a carriage return before it.
TextAt(c, target) ==
    IF c.line # target \/ c.offset > Len(source) THEN <<>>
    ELSE LET line == SubSeq(source, c.offset, LineFeedFrom(c.offset) - 1)
         IN  IF line # <<>> /\ Last(line) = "CR" THEN Front(line) ELSE line

-----------------------------------------------------------------------------
Init ==
    /\ \E input \in Inputs :
           source = input.source /\ stmts = input.stmts /\ size = input.size
    /\ i = 1 /\ emitted = -1
    /\ cursor = [offset |-> 1, line |-> 1]
    /\ text = <<>>
    /\ rows = <<>>
    /\ result = "running"

\* The span must lie inside its section, or the listing fails.
FindLine ==
    /\ result = "running" /\ i <= Len(stmts) /\ emitted = -1
    /\ LET s == stmts[i] IN
       IF s.offset + s.size > size[s.section]
       THEN result' = "refused" /\ UNCHANGED <<cursor, text, emitted>>
       ELSE /\ cursor' = MoveTo(cursor, s.line)
            /\ text' = TextAt(cursor', s.line)
            /\ emitted' = 0
            /\ UNCHANGED result
    /\ UNCHANGED <<source, stmts, size, i, rows>>

\* write_row: the line and the source stand in the first row only.
Row(s, done) ==
    LET left == s.size - done IN
    [line |-> IF done = 0 THEN s.line ELSE 0, section |-> s.section,
     offset |-> s.offset + done, count |-> IF left < RowSize THEN left ELSE RowSize,
     text |-> IF done = 0 THEN text ELSE <<>>]

\* One turn of the do loop: an empty span has a row as well.
WriteRow ==
    /\ result = "running" /\ emitted >= 0
    /\ LET row == Row(stmts[i], emitted) IN
       /\ rows' = Append(rows, row)
       /\ IF emitted + row.count < stmts[i].size
          THEN emitted' = emitted + row.count /\ UNCHANGED i
          ELSE emitted' = -1 /\ i' = i + 1
    /\ UNCHANGED <<source, stmts, size, cursor, text, result>>

\* A write to the stream fails, that of the heading included.
WriteFails ==
    /\ result = "running"
    /\ result' = "unwritten"
    /\ UNCHANGED <<source, stmts, size, i, emitted, cursor, text, rows>>

Finish ==
    /\ result = "running" /\ i > Len(stmts)
    /\ result' = "true"
    /\ UNCHANGED <<source, stmts, size, i, emitted, cursor, text, rows>>

Terminated == result # "running" /\ UNCHANGED vars

Next == FindLine \/ WriteRow \/ WriteFails \/ Finish \/ Terminated

Spec == Init /\ [][Next]_vars

-----------------------------------------------------------------------------
(* Reference definitions *)

\* The characters of the n-th line, as the lexer counts lines.
LineText(n) ==
    LET lineOf(k) == 1 + Cardinality({j \in 1 .. k - 1 : source[j] = "LF"})
        mine == {k \in DOMAIN source : lineOf(k) = n /\ source[k] # "LF"}
        all  == [k \in 1 .. Cardinality(mine) |->
                    source[CHOOSE j \in mine : Cardinality({m \in mine : m < j}) = k - 1]]
    IN  IF all # <<>> /\ Last(all) = "CR" THEN Front(all) ELSE all

(***************************************************************************)
(* A complete listing quotes, for every statement and in order, its line   *)
(* of source as the editor shows it: the cursor that walks the source once *)
(* never drifts, over blank lines, carriage returns or a last line without *)
(* a line feed.                                                            *)
(***************************************************************************)
SourceIsQuoted ==
    result = "true" =>
        LET first == SelectSeq(rows, LAMBDA r : r.line # 0) IN
        /\ Len(first) = Len(stmts)
        /\ \A k \in DOMAIN stmts :
               first[k].line = stmts[k].line /\ first[k].text = LineText(stmts[k].line)

(***************************************************************************)
(* A complete listing shows every byte of every section once, at its       *)
(* offset, in rows of at most RowSize; and a span of the passes never      *)
(* makes it fail.                                                          *)
(***************************************************************************)
BytesAreListed ==
    /\ result = "true" =>
           \A s \in DOMAIN size \ {"BSS"} : \A b \in 0 .. size[s] - 1 :
               Cardinality({k \in DOMAIN rows :
                   /\ rows[k].section = s
                   /\ b \in rows[k].offset .. rows[k].offset + rows[k].count - 1}) = 1
    /\ \A k \in DOMAIN rows : /\ rows[k].count <= RowSize
                              /\ rows[k].section = "BSS" => rows[k].count = 0
    /\ result # "refused"

(***************************************************************************)
(* The listing is true to source and object.                               *)
(***************************************************************************)
ListingIsExact == SourceIsQuoted /\ BytesAreListed
=============================================================================
