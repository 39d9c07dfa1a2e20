----------------------------- MODULE MCFrontEnd -----------------------------
(***************************************************************************)
(* Byte strings of up to four bytes over the ends of every range of the    *)
(* UTF-8 table, and mixtures of whole characters of every length; every    *)
(* source of three characters, and longer ones over the characters of      *)
(* numbers, of strings and of lines, with four-bit numbers, so that the    *)
(* limits 15, 7 and -8 are a digit or two away; and the lists of MCTokens. *)
(***************************************************************************)
EXTENDS FrontEnd

Boundary == {127, 128, 143, 144, 159, 160, 191, 193, 194, 224, 237, 239, 240,
             244, 245}

Whole == {<<65>>, <<216, 163>>, <<239, 191, 189>>, <<240, 144, 128, 128>>}

MCByteStrings ==
    UNION {[1 .. n -> Boundary] : n \in 0 .. 3}
    \cup {<<b>> \o s : b \in {224, 240, 244}, s \in [1 .. 3 -> Boundary]}
    \cup {a \o b \o c \o d : a, b, c, d \in Whole}

\* Of the characters above only the Arabic letter U+0623 is known.
MCClassOf(cp) == IF cp = 1571 THEN "L" ELSE "n"

Every == {" ", "CR", "LF", ";", "[", ",", ":", "-", ".", "QUOTE", "\\", "0",
          "1", "8", "x", "b", "n", "BAD", "L", "R"}
Numeric == {"-", "0", "1", "8", "x", "b"}
Quoted == {"QUOTE", "\\", "n", "LF", "BAD", "L"}
Lined == {"LF", ";", ".", "L", ":", ","}

UpTo(S, n) == UNION {[1 .. k -> S] : k \in 0 .. n}

MCTexts == UpTo(Every, 3) \cup UpTo(Numeric, 5) \cup UpTo(Quoted, 5)
           \cup UpTo(Lined, 5) \cup UpTo({"-", "L", "LF"}, 5)

MinusTexts == UpTo({"-", "L", "LF"}, 3)

\* LL is a mnemonic, R a register, RL a removed one; RR is only reserved.
MCMnemonics == {<<"L", "L">>}
MCRegisters == {<<"R">>}
MCTolerated == {<<"R", "L">>}

MCSpelling(type, word) ==
    CASE type = "MNEMONIC" -> "zero"
      [] type = "REGISTER" -> "wide"
      [] type = "DIRECTIVE" -> ".dir"
      [] type = "LABEL_DEF" -> "label"
      [] type = "LABEL_REF" -> IF word \in Tolerated THEN "oldreg" ELSE "name"
      [] OTHER -> ""

Given == INSTANCE MCTokens

MCTokenLists == Given!Lists
MCArity == Given!MCArity
=============================================================================
