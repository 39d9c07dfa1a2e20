------------------------------ MODULE FrontEnd ------------------------------
(***************************************************************************)
(* From bytes to statements: the decoder (Utf8), the lexer (Lexer) and the *)
(* parser (Parser) one after the other, with the gate between them.  The   *)
(* lexer decodes as it goes; since it only ever moves by whole characters, *)
(* decoding first is the same.                                             *)
(*                                                                         *)
(* A behaviour starts with bytes, with characters or with tokens and goes  *)
(* on to the end from there, so that each part can be given inputs of its  *)
(* own besides those the part before it makes.                             *)
(***************************************************************************)
EXTENDS Lexer

CONSTANTS
    ByteStrings, TokenLists,          \* inputs besides the Sources of Lexer
    ClassOf(_),                       \* the class of a code point
    Spelling(_, _),                   \* the text of a token of a type, as
                                      \* the parser's tables know it
    Arity, Wide, LegacyRegisters, LegacyDirectives, DispMax, MaxOperands

ASSUME RangeAssumption == DispMax \in Nat /\ DispMax < INT_MAX
ASSUME OperandsAssumption == MaxOperands \in Nat
ASSUME BytesAssumption == \A b \in ByteStrings : b \in Seq(0 .. 255)

VARIABLES
    stage,                              \* "decode", "lex" or "parse"
    bytes, offset, cps,                 \* Utf8
    list, next, phase, instr, syntax_ok, out, mistakes   \* Parser

decoderVars == <<bytes, offset, cps>>
parserVars == <<list, next, phase, instr, syntax_ok, out, mistakes>>
allVars == <<stage, decoderVars, vars, parserVars>>

Decoder == INSTANCE Utf8 WITH src <- bytes, Sources <- ByteStrings

\* The immediates of the parser are those the lexer makes.
Parse == INSTANCE Parser WITH
    tokens <- list, pos <- next, mode <- phase, errors <- mistakes,
    Sources <- TokenLists, MaxImmediate <- INT_MAX

FrontEndInit ==
    /\ \/ stage = "decode" /\ bytes \in ByteStrings /\ src = <<>> /\ list = <<>>
       \/ stage = "lex" /\ bytes = <<>> /\ src \in Sources /\ list = <<>>
       \/ stage = "parse" /\ bytes = <<>> /\ src = <<>> /\ list \in TokenLists
    /\ Decoder!Start /\ Start /\ Parse!Start

DecodeStep ==
    /\ stage = "decode"
    /\ Decoder!Decode
    /\ UNCHANGED <<stage, vars, parserVars>>

\* A character of the lexer, "BAD" for a byte of no character.
CharacterAt(c) ==
    IF Decoder!utf8_is_well_formed_at(SubSeq(bytes, c.at + 1, Len(bytes)))
    THEN ClassOf(c.cp) ELSE "BAD"

StartLexer ==
    /\ stage = "decode"
    /\ offset = Len(bytes)
    /\ stage' = "lex"
    /\ src' = [k \in DOMAIN cps |-> CharacterAt(cps[k])]
    /\ UNCHANGED <<decoderVars, mode, pos, line, col, tokens, string, errors,
                   reported, parserVars>>

LexStep ==
    /\ stage = "lex"
    /\ Next
    /\ UNCHANGED <<stage, decoderVars, parserVars>>

Punctuation == [type \in {"[", ",", ":"} |->
    CASE type = "[" -> "LBRACKET" [] type = "," -> "COMMA" [] type = ":" -> "COLON"]

\* A token as the parser sees it.
Handed(t) ==
    [type |-> IF t.type \in DOMAIN Punctuation THEN Punctuation[t.type] ELSE t.type,
     value |-> Spelling(t.type, t.value),
     num |-> IF t.type = "IMMEDIATE" THEN t.value[1] ELSE 0]

\* Both callers parse only what was lexed without a diagnostic.
StartParser ==
    /\ stage = "lex" /\ mode = "done"
    /\ ~error_has_any
    /\ stage' = "parse"
    /\ list' = [k \in DOMAIN tokens |-> Handed(tokens[k])]
    /\ UNCHANGED <<decoderVars, vars, next, phase, instr, syntax_ok, out,
                   mistakes>>

ParseStep ==
    /\ stage = "parse"
    /\ Parse!Next
    /\ UNCHANGED <<stage, decoderVars, vars>>

FrontEndNext ==
    \/ DecodeStep \/ StartLexer \/ LexStep \/ StartParser \/ ParseStep

\* The three are loops on one thread that never wait.
FrontEndSpec ==
    FrontEndInit /\ [][FrontEndNext]_allVars /\ WF_allVars(FrontEndNext)

-----------------------------------------------------------------------------
(* The properties of the parts *)

(***************************************************************************)
(* utf8_next_codepoint takes exactly the well-formed sequence that stands  *)
(* at each place, or one byte where there is none; utf8_complete_prefix    *)
(* keeps a cut text up to its last whole character.                        *)
(***************************************************************************)
CharactersStayWhole == stage = "decode" => Decoder!CharactersStayWhole

(***************************************************************************)
(* parser_parse makes of a line that follows the grammar the one statement *)
(* it spells, whatever mistakes surround it, and reports every other line  *)
(* once, at one of its own tokens, as far as the list of diagnostics       *)
(* reaches.                                                                *)
(***************************************************************************)
LinesAreReadOrReported == stage = "parse" => Parse!LinesAreReadOrReported

-----------------------------------------------------------------------------
(* The properties of the whole *)

\* The lines of the source that hold more than blanks and a comment.
WrittenLines ==
    {TrueLine(k) : k \in {j \in DOMAIN src :
        src[j] \notin {" ", "CR", "LF"} /\ ~InComment(j)}}

(***************************************************************************)
(* Of a source that neither lexer nor parser complains about every written *)
(* line becomes one statement, stamped with the number of that line, in    *)
(* order: line ends folded into one token, comments, blank lines and the   *)
(* commas a directive may drop never join two lines nor split one.         *)
(***************************************************************************)
StatementsFollowTheLines ==
    phase = "done" /\ tokens # <<>> /\ mistakes = <<>> =>
        [n \in DOMAIN out |-> tokens[out[n].at].line]
            = SetToSortSeq(WrittenLines, <)

(***************************************************************************)
(* Every input is read to its end: each turn of lex_all, of the loops over *)
(* operands and of the recovery behind a mistake gets ahead.               *)
(***************************************************************************)
FrontEndEnds ==
    <>(phase = "done" \/ (stage = "lex" /\ mode = "done" /\ error_has_any))
=============================================================================
