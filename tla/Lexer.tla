-------------------------------- MODULE Lexer -------------------------------
(***************************************************************************)
(* The lexer, src/lexer/lexer.c, from characters to tokens, with the list  *)
(* of diagnostics of src/error/error.c.                                    *)
(*                                                                         *)
(* A character stands for its class: " " for the blanks, "CR", "LF", ";",  *)
(* "[" for the brackets and the plus sign, ",", ":", "-", ".", "QUOTE",    *)
(* "\\", digits and the letters of number prefixes, "n" for a letter that  *)
(* only an escape knows, "BAD" for a byte that is not UTF-8; Letters may   *)
(* start an identifier.  A word is the sequence of its characters, and the *)
(* keyword and register tables are sets of words.  Numbers keep their      *)
(* arithmetic at a smaller width than 64 bits.                             *)
(***************************************************************************)
EXTENDS Integers, Sequences, SequencesExt, FiniteSets

CONSTANTS
    Sources,        \* the sources to lex
    Letters,        \* characters of identifiers that are not digits
    Mnemonics,      \* words of the keyword table
    Registers,      \* words of the register table
    ReservedStart,  \* letters that stand for a reserved register prefix
    Tolerated,      \* reserved words with a message of their own elsewhere
    Width,          \* bits of a number
    MaxErrors       \* NAZM_MAX_ERRORS

\* A source is a string of characters; what a character means to the lexer
\* apart from identifiers is no letter, and "END" is no character at all.
ASSUME SourcesAssumption == \A s \in Sources : s \in Seq(STRING)
ASSUME LettersAssumption ==
    Letters \cap {" ", "CR", "LF", ";", "[", ",", ":", "-", ".", "QUOTE",
                  "\\", "x", "b", "n", "BAD", "END"} = {}
ASSUME WidthAssumption == Width \in Nat \ {0}
ASSUME MaxErrorsAssumption == MaxErrors \in Nat \ {0}

VARIABLES
    src,
    mode,        \* "main", "comment", "string" or "done"
    pos,         \* the next character, counted from 1
    line, col,   \* the cursor the tokens are stamped with
    tokens,
    string,      \* the string being read: where it began, its bytes so far
    errors,      \* the recorded diagnostics, at most MaxErrors
    reported     \* observation only: error_add_span was called

vars == <<src, mode, pos, line, col, tokens, string, errors, reported>>

Digits == {"0", "1", "8"}
IdentChars == Letters \cup Digits
at_end == pos > Len(src)
PeekAt(k) == IF k > Len(src) THEN "END" ELSE src[k]

\* The first position from k on whose character is not in S.
RunEnd(k, S) ==
    CHOOSE e \in k .. Len(src) + 1 :
        PeekAt(e) \notin S /\ \A j \in k .. e - 1 : src[j] \in S

\* advance_cp over n characters of one line, and over a line feed.
Skip(n) == pos' = pos + n /\ col' = col + n /\ UNCHANGED line

\* Wrong form: the column runs on over the line feed.
SkipLineFeedOnly == pos' = pos + 1 /\ line' = line + 1 /\ col' = col + 1

SkipLineFeed == pos' = pos + 1 /\ line' = line + 1 /\ col' = 1

-----------------------------------------------------------------------------
(* Tokens and diagnostics *)

\* `from' and `to' are the characters of the token, for the properties.
Token(type, value, end_col, to) ==
    [type |-> type, value |-> value, line |-> line, col |-> col,
     end_col |-> end_col, from |-> pos, to |-> to]

push_token(t) == tokens' = Append(tokens, t)

normalized_end_col(c, end_col) == IF end_col <= c THEN c + 1 ELSE end_col

\* Wrong form: when the list is full it starts again.
error_add_span_wrapping(l, c, end_col) ==
    /\ errors' = IF Len(errors) >= MaxErrors THEN <<>>
                 ELSE Append(errors, [line |-> l, col |-> c,
                                  end_col |-> normalized_end_col(c, end_col)])
    /\ reported' = TRUE

\* Beyond the limit only a flag is set, which nobody reads.
error_add_span(l, c, end_col) ==
    /\ errors' = IF Len(errors) >= MaxErrors THEN errors
                 ELSE Append(errors, [line |-> l, col |-> c,
                                  end_col |-> normalized_end_col(c, end_col)])
    /\ reported' = TRUE

NoError == UNCHANGED <<errors, reported>>

error_has_any == errors # <<>>

-----------------------------------------------------------------------------
(* Numbers *)

UINT_MAX == 2^Width - 1
INT_MAX == 2^(Width - 1) - 1

DigitValue == [d \in Digits \cup {"b"} |->
    CASE d = "0" -> 0 [] d = "1" -> 1 [] d = "8" -> 8 [] d = "b" -> 11]

DigitsOf(base) == CASE base = 2 -> {"0", "1"}
                    [] base = 10 -> Digits
                    [] base = 16 -> Digits \cup {"b"}

append_digit(n, base, digit) ==
    IF n.value > (UINT_MAX - digit) \div base THEN [n EXCEPT !.fits = FALSE]
    ELSE [n EXCEPT !.value = @ * base + digit]

\* parse_hex_number, parse_binary_number, parse_decimal_number.
ParseDigits(k, base, got) ==
    LET end == RunEnd(k, DigitsOf(base))
        n   == FoldLeft(LAMBDA acc, d : append_digit(acc, base, DigitValue[d]),
                        [value |-> 0, fits |-> TRUE], SubSeq(src, k, end - 1))
    IN  [value |-> n.value, fits |-> n.fits, ok |-> got \/ end > k, end |-> end]

parse_number(k) ==
    IF PeekAt(k) # "0" THEN ParseDigits(k, 10, FALSE)
    ELSE CASE PeekAt(k + 1) = "x" -> ParseDigits(k + 2, 16, FALSE)
           [] PeekAt(k + 1) = "b" -> ParseDigits(k + 2, 2, FALSE)
           [] OTHER -> ParseDigits(k + 1, 10, TRUE)

as_signed_bits(bits) == IF bits <= INT_MAX THEN bits ELSE bits - (UINT_MAX + 1)

\* A number n, of which `value' is to be pushed, unless it is not a number
\* (reported where it ends) or does not fit (reported where it begins).
PushNumber(n, fits, value) ==
    LET end_col == col + n.end - pos IN
    /\ Skip(n.end - pos)
    /\ IF fits /\ n.ok
       THEN push_token(Token("IMMEDIATE", <<value>>, end_col, n.end - 1)) /\ NoError
       ELSE /\ UNCHANGED tokens
            /\ IF n.ok THEN error_add_span(line, col, end_col)
               ELSE error_add_span(line, end_col, end_col + 1)

-----------------------------------------------------------------------------
Start ==
    /\ mode = "main"
    /\ pos = 1 /\ line = 1 /\ col = 1
    /\ tokens = <<>>
    /\ string = [line |-> 0, col |-> 0, from |-> 0, bytes |-> <<>>, ok |-> TRUE]
    /\ errors = <<>>
    /\ reported = FALSE

Init == src \in Sources /\ Start

InMain(S) == mode = "main" /\ PeekAt(pos) \in S

LexBlank ==
    /\ InMain({" ", "CR"})
    /\ Skip(1)
    /\ UNCHANGED <<src, mode, tokens, string>> /\ NoError

\* Wrong form: a line end after a comma is no line end.
lex_newline_joining ==
    /\ InMain({"LF"})
    /\ SkipLineFeed
    /\ IF tokens # <<>> /\ Last(tokens).type \in {"NEWLINE", ","}
       THEN UNCHANGED tokens
       ELSE push_token(Token("NEWLINE", <<>>, col + 1, pos))
    /\ UNCHANGED <<src, mode, string>> /\ NoError

\* Only the first of several line ends makes a token.
lex_newline ==
    /\ InMain({"LF"})
    /\ SkipLineFeed
    /\ IF tokens # <<>> /\ Last(tokens).type = "NEWLINE" THEN UNCHANGED tokens
       ELSE push_token(Token("NEWLINE", <<>>, col + 1, pos))
    /\ UNCHANGED <<src, mode, string>> /\ NoError

lex_single_char_token ==
    /\ InMain({"[", ",", ":"})
    /\ Skip(1)
    /\ push_token(Token(PeekAt(pos), <<>>, col + 1, pos))
    /\ UNCHANGED <<src, mode, string>> /\ NoError

\* Wrong form: the magnitude of the most negative number is not special.
NegativeFitsAny(n) == n.fits

NegativeFits(n) == n.fits /\ n.value <= INT_MAX + 1

\* A minus sign alone moves the column twice: the position is put back, the
\* column is not.
lex_minus_or_negative_number ==
    /\ InMain({"-"})
    /\ IF PeekAt(pos + 1) \in Digits
       THEN LET n == parse_number(pos + 1)
            IN  PushNumber(n, NegativeFits(n),
                           as_signed_bits((UINT_MAX + 1 - n.value) % (UINT_MAX + 1)))
       ELSE /\ pos' = pos + 1 /\ col' = col + 2 /\ UNCHANGED line
            /\ push_token(Token("MINUS", <<>>, col + 1, pos))
            /\ NoError
    /\ UNCHANGED <<src, mode, string>>

lex_number ==
    /\ InMain(Digits)
    /\ LET n == parse_number(pos)
       IN  PushNumber(n, n.fits, as_signed_bits(n.value))
    /\ UNCHANGED <<src, mode, string>>

lex_directive ==
    /\ InMain({"."})
    /\ LET end == RunEnd(pos + 1, IdentChars) IN
       /\ Skip(end - pos)
       /\ push_token(Token("DIRECTIVE", SubSeq(src, pos, end - 1),
                           col + end - pos, end - 1))
    /\ UNCHANGED <<src, mode, string>> /\ NoError

has_reserved_register_prefix(word) == word[1] \in ReservedStart

\* A word is a label when a colon follows, else a mnemonic, a register or a
\* reference, in this order; a reserved word that is none of them is an error
\* and a token all the same.
lex_identifier ==
    /\ InMain(Letters)
    /\ LET end   == RunEnd(pos, IdentChars)
           word  == SubSeq(src, pos, end - 1)
           after == col + end - pos
           label == PeekAt(end) = ":"
           type  == CASE label -> "LABEL_DEF"
                      [] ~label /\ word \in Mnemonics -> "MNEMONIC"
                      [] ~label /\ word \in Registers \ Mnemonics -> "REGISTER"
                      [] OTHER -> "LABEL_REF"
           reserved == has_reserved_register_prefix(word)
       IN  /\ Skip(IF label THEN end - pos + 1 ELSE end - pos)
           /\ push_token(Token(type, word, after,
                               IF label THEN end ELSE end - 1))
           /\ IF reserved /\ (label \/ (type = "LABEL_REF" /\ word \notin Tolerated))
              THEN error_add_span(line, col, after)
              ELSE NoError
    /\ UNCHANGED <<src, mode, string>>

\* A run of bad bytes is one error, and spoils the string it stands in.
lex_ill_formed_utf8 ==
    /\ mode # "done"
    /\ PeekAt(pos) = "BAD"
    /\ LET end == RunEnd(pos, {"BAD"}) IN
       /\ Skip(end - pos)
       /\ error_add_span(line, col, col + end - pos)
    /\ string' = [string EXCEPT !.ok = @ /\ mode # "string"]
    /\ UNCHANGED <<src, mode, tokens>>

Unknown == {"x", "b", "n", "\\"}

\* The last case of lex_all.
LexUnknown ==
    /\ InMain(Unknown)
    /\ Skip(1)
    /\ error_add_span(line, col, col + 1)
    /\ UNCHANGED <<src, mode, tokens, string>>

-----------------------------------------------------------------------------
(* Comments and strings *)

StartComment ==
    /\ InMain({";"})
    /\ mode' = "comment"
    /\ UNCHANGED <<src, pos, line, col, tokens, string>> /\ NoError

SkipComment ==
    /\ mode = "comment"
    /\ PeekAt(pos) \notin {"LF", "END", "BAD"}
    /\ Skip(1)
    /\ UNCHANGED <<src, mode, tokens, string>> /\ NoError

\* The line end belongs to the line, not to its comment.
EndComment ==
    /\ mode = "comment"
    /\ PeekAt(pos) \in {"LF", "END"}
    /\ mode' = "main"
    /\ UNCHANGED <<src, pos, line, col, tokens, string>> /\ NoError

StartString ==
    /\ InMain({"QUOTE"})
    /\ mode' = "string"
    /\ string' = [line |-> line, col |-> col, from |-> pos, bytes |-> <<>>,
                  ok |-> TRUE]
    /\ Skip(1)
    /\ UNCHANGED <<src, tokens>> /\ NoError

\* A string with an error in it is dropped, its error is not.
EndString ==
    /\ mode = "string"
    /\ PeekAt(pos) = "QUOTE"
    /\ mode' = "main"
    /\ Skip(1)
    /\ IF string.ok
       THEN push_token([type |-> "STRING", value |-> string.bytes,
                        line |-> string.line, col |-> string.col,
                        end_col |-> col + 1, from |-> string.from, to |-> pos])
       ELSE UNCHANGED tokens
    /\ UNCHANGED <<src, string>> /\ NoError

UnclosedString ==
    /\ mode = "string"
    /\ PeekAt(pos) \in {"LF", "CR", "END"}
    /\ mode' = "main"
    /\ error_add_span(string.line, string.col, col)
    /\ UNCHANGED <<src, pos, line, col, tokens, string>>

\* The escapes of lex_string and the bytes they stand for.
Escapes == {"n", "0", "QUOTE", "\\"}

EscapeByte(c) == CASE c = "n" -> "LF" [] c = "0" -> "NUL" [] OTHER -> c

\* A backslash and what follows; an unknown one may be a line feed.
StringEscape ==
    /\ mode = "string"
    /\ PeekAt(pos) = "\\"
    /\ LET esc == PeekAt(pos + 1) IN
       IF esc = "END"
       THEN /\ mode' = "main"
            /\ Skip(1)
            /\ error_add_span(string.line, string.col, col + 1)
            /\ UNCHANGED string
       ELSE /\ UNCHANGED mode
            /\ IF esc = "LF"
               THEN pos' = pos + 2 /\ line' = line + 1 /\ col' = 1
               ELSE Skip(2)
            /\ IF esc \in Escapes
               THEN /\ string' = [string EXCEPT !.bytes = Append(@, EscapeByte(esc))]
                    /\ NoError
               ELSE /\ string' = [string EXCEPT !.ok = FALSE]
                    /\ error_add_span(line, col + 1, col + 2)
    /\ UNCHANGED <<src, tokens>>

StringCharacter ==
    /\ mode = "string"
    /\ PeekAt(pos) \notin {"END", "BAD", "QUOTE", "LF", "CR", "\\"}
    /\ Skip(1)
    /\ string' = [string EXCEPT !.bytes = Append(@, PeekAt(pos))]
    /\ UNCHANGED <<src, mode, tokens>> /\ NoError

LexEof ==
    /\ mode = "main"
    /\ at_end
    /\ mode' = "done"
    /\ push_token(Token("EOF", <<>>, col, pos - 1))
    /\ UNCHANGED <<src, pos, line, col, string>> /\ NoError

Terminated == mode = "done" /\ UNCHANGED vars

Next ==
    \/ LexBlank \/ lex_newline \/ lex_single_char_token
    \/ lex_minus_or_negative_number \/ lex_number \/ lex_directive
    \/ lex_identifier \/ lex_ill_formed_utf8 \/ LexUnknown
    \/ StartComment \/ SkipComment \/ EndComment
    \/ StartString \/ EndString \/ UnclosedString \/ StringEscape
    \/ StringCharacter \/ LexEof \/ Terminated

Spec == Init /\ [][Next]_vars

-----------------------------------------------------------------------------
(* Reference definitions, from the source alone *)

LineFeedsBefore(k) == {j \in 1 .. k - 1 : src[j] = "LF"}
TrueLine(k) == 1 + Cardinality(LineFeedsBefore(k))
TrueCol(k) ==
    LET ends == LineFeedsBefore(k)
    IN  IF ends = {} THEN k ELSE k - (CHOOSE j \in ends : \A i \in ends : i <= j)

\* The minus tokens before position k on its line.
MinusBefore(k) ==
    {n \in DOMAIN tokens : /\ tokens[n].type = "MINUS"
                           /\ tokens[n].from < k
                           /\ TrueLine(tokens[n].from) = TrueLine(k)}

Covered(k) == \E n \in DOMAIN tokens : k \in tokens[n].from .. tokens[n].to

\* A character behind a semicolon that is in no string on the same line.
InComment(k) ==
    \E j \in 1 .. k : /\ src[j] = ";" /\ ~Covered(j)
                      /\ \A i \in j .. k : src[i] # "LF"

(***************************************************************************)
(* Every token carries the line it stands on and, unless a minus sign      *)
(* stands alone before it on the line, its column in characters; and each  *)
(* such minus sign shifts the columns after it by one, no more.            *)
(***************************************************************************)
PositionsFollowTheSource ==
    \A n \in DOMAIN tokens :
        LET t == tokens[n] IN
        /\ t.line = TrueLine(t.from)
        /\ t.col = TrueCol(t.from) + Cardinality(MinusBefore(t.from))

(***************************************************************************)
(* Docs/UNICODE.md: diagnostics use codepoint columns.  After a minus sign *)
(* that stands alone the columns are one too large.                        *)
(***************************************************************************)
ColumnsAreCodepoints ==
    \A n \in DOMAIN tokens : tokens[n].col = TrueCol(tokens[n].from)

(***************************************************************************)
(* No character is dropped in silence: if no diagnostic is recorded, every *)
(* character belongs to a token, to a comment or to a run of blanks and    *)
(* line ends, and the tokens stand in order without overlap.  The limit on *)
(* the number of diagnostics hides none of this.                           *)
(***************************************************************************)
NothingDroppedSilently ==
    mode = "done" /\ ~error_has_any =>
        /\ ~reported
        /\ \A k \in DOMAIN src :
               Covered(k) \/ InComment(k) \/ src[k] \in {" ", "CR", "LF"}
        /\ \A n \in 2 .. Len(tokens) : tokens[n].from > tokens[n - 1].to

\* The value of a literal by position, its sign apart; -1 for no digits.
Magnitude(text) ==
    LET prefixed == Len(text) >= 2 /\ text[1] = "0" /\ text[2] \in {"x", "b"}
        base     == IF prefixed THEN IF text[2] = "x" THEN 16 ELSE 2 ELSE 10
        digits   == IF prefixed THEN SubSeq(text, 3, Len(text)) ELSE text
        n        == Len(digits)
        upTo[k \in 0 .. n] ==
            IF k = 0 THEN 0
            ELSE upTo[k - 1] + DigitValue[digits[k]] * base^(n - k)
    IN  upTo[n]

(***************************************************************************)
(* The value of a number token is the value of its digits, as the signed   *)
(* number with that bit pattern; a number that does not fit makes no token *)
(* (unsigned up to 2^w - 1, after a minus sign up to 2^(w-1)).             *)
(***************************************************************************)
NumbersAreExact ==
    \A n \in DOMAIN tokens : tokens[n].type = "IMMEDIATE" =>
        LET text  == SubSeq(src, tokens[n].from, tokens[n].to)
            value == tokens[n].value[1]
        IN  IF text[1] = "-"
            THEN value = -Magnitude(Tail(text)) /\ value >= -(INT_MAX + 1)
            ELSE /\ Magnitude(text) <= UINT_MAX
                 /\ value = IF Magnitude(text) <= INT_MAX THEN Magnitude(text)
                            ELSE Magnitude(text) - 2^Width

\* What a string literal's characters stand for.
Unescape(text) ==
    LET From[k \in 1 .. Len(text) + 2] ==
            CASE k > Len(text) -> <<>>
              [] k <= Len(text) /\ text[k] # "\\" -> <<text[k]>> \o From[k + 1]
              [] OTHER -> <<CASE text[k + 1] = "n" -> "LF"
                              [] text[k + 1] = "0" -> "NUL"
                              [] text[k + 1] \in {"QUOTE", "\\"} -> text[k + 1]>>
                          \o From[k + 2]
    IN  From[1]

(***************************************************************************)
(* A string token holds what its literal says, escapes resolved, from its  *)
(* opening quote to the first quote that is not escaped.                   *)
(***************************************************************************)
StringsAreDecoded ==
    \A n \in DOMAIN tokens : tokens[n].type = "STRING" =>
        LET text == SubSeq(src, tokens[n].from, tokens[n].to)
        IN  /\ text[1] = "QUOTE" /\ Last(text) = "QUOTE"
            /\ tokens[n].value = Unescape(SubSeq(text, 2, Len(text) - 1))

(***************************************************************************)
(* Literals mean what they spell, or make no token.                        *)
(***************************************************************************)
LiteralsAreExact == NumbersAreExact /\ StringsAreDecoded
=============================================================================
