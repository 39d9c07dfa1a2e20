-------------------------------- MODULE Utf8 --------------------------------
(***************************************************************************)
(* The UTF-8 decoder of src/unicode/arabic.c, scanning a byte string from  *)
(* one character to the next as the lexer does, and the cut that keeps a   *)
(* message from ending inside a character.  The reference is the table of  *)
(* well-formed byte sequences of the Unicode standard.                     *)
(***************************************************************************)
EXTENDS Naturals, Sequences, SequencesExt

CONSTANT Sources   \* the byte strings to scan

VARIABLES
    src,      \* the bytes
    offset,   \* how many have been consumed
    cps       \* what was decoded: [cp, at, bytes]

vars == <<src, offset, cps>>

Replacement == 65533

-----------------------------------------------------------------------------
(* The decoder *)

\* The length a lead byte announces, 0 for a byte that cannot lead.
LeadLength(b) ==
    IF b < 128 THEN 1
    ELSE IF b \in 194 .. 223 THEN 2
    ELSE IF b \in 224 .. 239 THEN 3
    ELSE IF b \in 240 .. 244 THEN 4
    ELSE 0

LeadBits(b, n) == IF n = 2 THEN b % 32 ELSE IF n = 3 THEN b % 16 ELSE b % 8

IsContinuation(b) == b \in 128 .. 191

Minimum(n) == IF n = 2 THEN 128 ELSE IF n = 3 THEN 2048 ELSE 65536

\* Wrong form: a longer encoding than needed is accepted.
InRangeWithoutMinimum(cp, n) ==
    ~(cp >= 55296 /\ cp <= 57343) /\ cp <= 1114111

InRange(cp, n) ==
    cp >= Minimum(n) /\ ~(cp >= 55296 /\ cp <= 57343) /\ cp <= 1114111

\* The loop takes one to three turns.
Bits(bytes, n) ==
    LET shifted(cp, k) == cp * 64 + (bytes[k] % 64)
        two   == shifted(LeadBits(bytes[1], n), 2)
        three == shifted(two, 3)
    IN  IF n = 2 THEN two ELSE IF n = 3 THEN three ELSE shifted(three, 4)

\* The character at the front of a non-empty string and its length in bytes.
utf8_next_codepoint(bytes) ==
    LET n == LeadLength(bytes[1])
        bad == [cp |-> Replacement, bytes |-> 1]
    IN  IF n = 1 THEN [cp |-> bytes[1], bytes |-> 1]
        ELSE IF n = 0 \/ Len(bytes) < n THEN bad
        ELSE IF \E k \in 2 .. n : ~IsContinuation(bytes[k]) THEN bad
        ELSE IF ~InRange(Bits(bytes, n), n) THEN bad
        ELSE [cp |-> Bits(bytes, n), bytes |-> n]

\* A real U+FFFD is three bytes long.
utf8_is_well_formed_at(bytes) ==
    LET c == utf8_next_codepoint(bytes)
    IN  c.cp # Replacement \/ c.bytes = 3

\* How much of a cut text to keep: back over at most three continuation
\* bytes to a lead byte, which goes too if its character is not whole.
utf8_complete_prefix(bytes) ==
    LET len    == Len(bytes)
        lead   == CHOOSE k \in 0 .. len :
                      /\ \A j \in k + 1 .. len : IsContinuation(bytes[j])
                      /\ len - k <= 3
                      /\ k = 0 \/ len - k = 3 \/ ~IsContinuation(bytes[k])
        b      == bytes[lead]
        needed == IF b >= 240 THEN 4 ELSE IF b >= 224 THEN 3
                  ELSE IF b >= 192 THEN 2 ELSE 1
    IN  IF lead = 0 THEN len
        ELSE IF len - (lead - 1) < needed THEN lead - 1 ELSE len

-----------------------------------------------------------------------------
Start == offset = 0 /\ cps = <<>>

Init == src \in Sources /\ Start

Rest == SubSeq(src, offset + 1, Len(src))

\* One utf8_next_codepoint call.
Decode ==
    /\ offset < Len(src)
    /\ LET c == utf8_next_codepoint(Rest) IN
       /\ cps' = Append(cps, [cp |-> c.cp, at |-> offset, bytes |-> c.bytes])
       /\ offset' = offset + c.bytes
    /\ UNCHANGED src

Terminated == offset >= Len(src) /\ UNCHANGED vars

Next == Decode \/ Terminated

Spec == Init /\ [][Next]_vars

-----------------------------------------------------------------------------
(* Table 3-7 of the Unicode standard: the ranges of each byte *)

T == 128 .. 191

Table ==
    {<<0 .. 127>>, <<194 .. 223, T>>, <<{224}, 160 .. 191, T>>,
     <<225 .. 236, T, T>>, <<{237}, 128 .. 159, T>>, <<238 .. 239, T, T>>,
     <<{240}, 144 .. 191, T, T>>, <<241 .. 243, T, T, T>>,
     <<{244}, 128 .. 143, T, T>>}

Matches(bytes, row) ==
    Len(bytes) >= Len(row) /\ \A k \in DOMAIN row : bytes[k] \in row[k]

\* The value of a well-formed sequence, by position.
ScalarValue(bytes, n) ==
    IF n = 1 THEN bytes[1]
    ELSE IF n = 2 THEN (bytes[1] - 192) * 64 + (bytes[2] - 128)
    ELSE IF n = 3 THEN (bytes[1] - 224) * 4096 + (bytes[2] - 128) * 64
                       + (bytes[3] - 128)
    ELSE (bytes[1] - 240) * 262144 + (bytes[2] - 128) * 4096
         + (bytes[3] - 128) * 64 + (bytes[4] - 128)

(***************************************************************************)
(* Each step of the scan takes exactly the well-formed sequence that       *)
(* stands there, with its value; where none stands it takes one byte and   *)
(* the place counts as ill-formed.  No byte is skipped or read twice, so a *)
(* broken character never hides the one after it.                          *)
(***************************************************************************)
ScanFollowsTheTable ==
    /\ \A k \in DOMAIN cps :
        LET c    == cps[k]
            here == SubSeq(src, c.at + 1, Len(src))
            rows == {row \in Table : Matches(here, row)}
        IN  /\ c.at = IF k = 1 THEN 0 ELSE cps[k - 1].at + cps[k - 1].bytes
            /\ utf8_is_well_formed_at(here) <=> rows # {}
            /\ \A row \in rows : c.bytes = Len(row)
                                 /\ c.cp = ScalarValue(here, Len(row))
            /\ rows = {} => c.bytes = 1
    /\ offset = IF cps = <<>> THEN 0 ELSE Last(cps).at + Last(cps).bytes

\* Every character so far is well formed.
WellFormed == \A k \in DOMAIN cps :
    utf8_is_well_formed_at(SubSeq(src, cps[k].at + 1, Len(src)))

(***************************************************************************)
(* A well-formed text cut after any byte, as a fixed message buffer cuts   *)
(* it, is kept up to its last whole character and no further.              *)
(***************************************************************************)
CutKeepsWholeCharacters ==
    offset = Len(src) /\ WellFormed =>
        \A n \in 0 .. Len(src) :
            LET kept == utf8_complete_prefix(SubSeq(src, 1, n))
                ends == {0} \cup {cps[k].at + cps[k].bytes : k \in DOMAIN cps}
            IN  /\ kept \in ends /\ kept <= n
                /\ \A e \in ends : e <= n => e <= kept

(***************************************************************************)
(* Characters stay whole, in reading and in cutting.                       *)
(***************************************************************************)
CharactersStayWhole == ScanFollowsTheTable /\ CutKeepsWholeCharacters
=============================================================================
