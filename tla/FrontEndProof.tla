---------------------------- MODULE FrontEndProof ----------------------------
(***************************************************************************)
(* Proofs about the front end: src/lexer/lexer.c for every source and      *)
(* every table of words, and src/unicode/arabic.c for every byte string.   *)
(***************************************************************************)
EXTENDS FrontEnd, FiniteSetTheorems, SequenceTheorems, WellFoundedInduction,
        TLAPS

-----------------------------------------------------------------------------
(* What holds between two turns of lex_all *)

\* A finite sequence, whatever its elements.
IsSeq(s) == s \in Seq({s[k] : k \in DOMAIN s})

\* The reference definitions of Lexer with their state as parameters, so that
\* lemmas about them serve for the state before a step and for the one after.
Feeds(s, k) == {j \in 1 .. k - 1 : s[j] = "LF"}

LineAt(s, k) == 1 + Cardinality(Feeds(s, k))

ColAt(s, k) ==
    IF Feeds(s, k) = {} THEN k
    ELSE k - (CHOOSE j \in Feeds(s, k) : \A i \in Feeds(s, k) : i <= j)

Minuses(s, ts, k) ==
    {n \in DOMAIN ts : /\ ts[n].type = "MINUS"
                       /\ ts[n].from < k
                       /\ LineAt(s, ts[n].from) = LineAt(s, k)}

ColumnAt(s, ts, k) == ColAt(s, k) + Cardinality(Minuses(s, ts, k))

CoveredBy(ts, k) == \E n \in DOMAIN ts : k \in ts[n].from .. ts[n].to

\* A comment that begins at j reaches up to k.
Comment(s, ts, j, k) ==
    s[j] = ";" /\ ~CoveredBy(ts, j) /\ \A i \in j .. k : s[i] # "LF"

CommentAt(s, ts, k) == \E j \in 1 .. k : Comment(s, ts, j, k)

\* What the lexer may do with a character without a word about it.
Account(s, ts, k) ==
    CoveredBy(ts, k) \/ CommentAt(s, ts, k) \/ s[k] \in {" ", "CR", "LF"}

LexShape ==
    /\ IsSeq(src) /\ IsSeq(tokens) /\ IsSeq(errors)
    /\ pos \in 1 .. Len(src) + 1
    /\ mode = "done" => pos = Len(src) + 1
    /\ DOMAIN string = {"line", "col", "from", "bytes", "ok"}

\* The cursor: the line is the true one, the column is off by the minus
\* signs that stood alone on the line so far.
CursorIsTrue ==
    /\ line = LineAt(src, pos)
    /\ col = ColumnAt(src, tokens, pos)

TokensStand ==
    \A n \in DOMAIN tokens :
        /\ tokens[n].from \in 1 .. pos
        /\ tokens[n].to \in 0 .. pos - 1
        /\ mode # "done" => tokens[n].from < pos
        /\ tokens[n].line = LineAt(src, tokens[n].from)
        /\ tokens[n].col = ColumnAt(src, tokens, tokens[n].from)

TokensInOrder ==
    \A n \in 2 .. Len(tokens) : tokens[n].from > tokens[n - 1].to

\* A string that is being read began behind every token.
StringStands ==
    mode = "string" =>
        /\ string.from \in 1 .. pos - 1
        /\ string.line = LineAt(src, string.from)
        /\ string.col = ColumnAt(src, tokens, string.from)
        /\ \A n \in DOMAIN tokens : /\ tokens[n].from < string.from
                                    /\ tokens[n].to < string.from

\* A comment that is being skipped has its semicolon in no token.
CommentStands ==
    mode = "comment" =>
        \E j \in 1 .. pos : j <= Len(src) /\ Comment(src, tokens, j, pos - 1)

\* A call of error_add_span leaves a diagnostic; a spoilt string had one.
Complaints ==
    /\ reported => errors # <<>>
    /\ ~string.ok => reported

\* As long as nothing is reported every character behind the cursor is
\* accounted for, or belongs to the string that is being read.
Accounted ==
    ~reported =>
        \A k \in 1 .. pos - 1 :
            Account(src, tokens, k) \/ (mode = "string" /\ k >= string.from)

LexInv ==
    /\ LexShape /\ CursorIsTrue /\ TokensStand /\ TokensInOrder
    /\ StringStands /\ CommentStands /\ Complaints /\ Accounted

\* Before the lexer runs it is in its first state; the decoder's list is a
\* sequence all along.
FrontEndInv ==
    /\ LexInv
    /\ IsSeq(cps)
    /\ stage = "decode" => Start

-----------------------------------------------------------------------------
(* Sequences and numbers *)

LEMMA SeqFacts ==
    ASSUME NEW s, IsSeq(s)
    PROVE  Len(s) \in Nat /\ DOMAIN s = 1 .. Len(s)
  BY DEF IsSeq

LEMMA SeqIsSeq ==
    ASSUME NEW S, NEW s \in Seq(S)
    PROVE  IsSeq(s)
<1> DEFINE R == {s[k] : k \in DOMAIN s}
<1>1. s \in [1 .. Len(s) -> R] /\ Len(s) \in Nat
  <2>1. s \in [1 .. Len(s) -> S] /\ Len(s) \in Nat
    BY LenProperties
  <2> QED BY <2>1
<1> HIDE DEF R
<1>2. s \in Seq(R)
  BY <1>1, SeqDef, Zenon
<1> QED BY <1>2 DEF IsSeq, R

LEMMA FunctionIsSeq ==
    ASSUME NEW n \in Nat, NEW S, NEW f \in [1 .. n -> S]
    PROVE  IsSeq(f)
<1>1. f \in Seq(S)
  BY SeqDef, Zenon
<1> QED BY <1>1, SeqIsSeq

LEMMA EmptyIsSeq == IsSeq(<<>>) /\ Len(<<>>) = 0 /\ DOMAIN <<>> = {}
<1>1. <<>> \in Seq({})
  OBVIOUS
<1>2. IsSeq(<<>>)
  BY <1>1, SeqIsSeq
<1> QED BY <1>2

LEMMA AppendFacts ==
    ASSUME NEW s, IsSeq(s), NEW e
    PROVE  /\ IsSeq(Append(s, e))
           /\ Len(Append(s, e)) = Len(s) + 1
           /\ DOMAIN Append(s, e) = 1 .. Len(s) + 1
           /\ Append(s, e)[Len(s) + 1] = e
           /\ \A k \in 1 .. Len(s) : Append(s, e)[k] = s[k]
           /\ Append(s, e) # <<>>
<1> DEFINE S == {s[k] : k \in DOMAIN s} \cup {e}
<1>1. s \in Seq(S)
  <2>1. s \in Seq({s[k] : k \in DOMAIN s})
    BY DEF IsSeq
  <2>2. s \in [1 .. Len(s) -> {s[k] : k \in DOMAIN s}] /\ Len(s) \in Nat
    BY <2>1, LenProperties
  <2>3. s \in [1 .. Len(s) -> S]
    BY <2>2
  <2> HIDE DEF S
  <2> QED BY <2>2, <2>3, SeqDef, Zenon
<1>2. e \in S
  OBVIOUS
<1> HIDE DEF S
<1>3. /\ Append(s, e) \in Seq(S)
      /\ Len(Append(s, e)) = Len(s) + 1
      /\ \A i \in 1 .. Len(s) : Append(s, e)[i] = s[i]
      /\ Append(s, e)[Len(s) + 1] = e
  BY <1>1, <1>2, AppendProperties
<1>4. IsSeq(Append(s, e))
  BY <1>3, SeqIsSeq
<1>5. DOMAIN Append(s, e) = 1 .. Len(s) + 1
  BY <1>3, <1>4, SeqFacts
<1>6. Len(s) \in Nat
  BY SeqFacts
<1>7. Append(s, e) # <<>>
  BY <1>3, <1>6, EmptyIsSeq
<1> QED BY <1>3, <1>4, <1>5, <1>7

\* A nonempty set of numbers has a least one.
LEMMA LeastNumber ==
    ASSUME NEW T, T \subseteq Nat, T # {}
    PROVE  \E x \in T : \A y \in T : x <= y
<1> DEFINE R == {ss \in Nat \X Nat : ss[1] < ss[2]}
<1>0. IsWellFoundedOn(R, Nat)
  BY NatLessThanWellFounded DEF OpToRel
<1>1. PICK x \in T : \A y \in T : ~(<<y, x>> \in R)
  <2> HIDE DEF R
  <2> QED BY <1>0, WFMin
<1>2. \A y \in T : ~(y < x)
  BY <1>1
<1>3. \A y \in T : x <= y
  BY <1>2
<1> QED BY <1>3

-----------------------------------------------------------------------------
(* Lines and columns *)

LEMMA FeedsFinite ==
    ASSUME NEW s, NEW k \in Int
    PROVE  /\ IsFiniteSet(Feeds(s, k))
           /\ Cardinality(Feeds(s, k)) \in Nat
           /\ LineAt(s, k) \in Nat
<1>1. IsFiniteSet(1 .. k - 1)
  BY FS_Interval
<1>2. Feeds(s, k) \in SUBSET (1 .. k - 1)
  BY DEF Feeds
<1>3. IsFiniteSet(Feeds(s, k))
  BY <1>1, <1>2, FS_Subset
<1>4. Cardinality(Feeds(s, k)) \in Nat
  BY <1>3, FS_CardinalityType
<1> QED BY <1>3, <1>4 DEF LineAt

\* The last line feed before k, when there is one.
LEMMA LastFeed ==
    ASSUME NEW s, NEW k \in Int, Feeds(s, k) # {}
    PROVE  LET c == CHOOSE j \in Feeds(s, k) : \A i \in Feeds(s, k) : i <= j
           IN  c \in Feeds(s, k) /\ \A i \in Feeds(s, k) : i <= c
<1> DEFINE T == {k - j : j \in Feeds(s, k)}
<1>1. T \subseteq Nat /\ T # {}
  BY DEF Feeds
<1>2. PICK x \in T : \A y \in T : x <= y
  <2> HIDE DEF T
  <2> QED BY <1>1, LeastNumber
<1>3. PICK c \in Feeds(s, k) : x = k - c
  BY <1>2
<1>4. \A i \in Feeds(s, k) : i <= c
  <2> SUFFICES ASSUME NEW i \in Feeds(s, k) PROVE i <= c
    OBVIOUS
  <2>1. k - i \in T
    OBVIOUS
  <2>2. k - c <= k - i
    BY <1>2, <1>3, <2>1
  <2> QED BY <2>2 DEF Feeds
<1> QED BY <1>4

LEMMA ColInt ==
    ASSUME NEW s, NEW k \in Int
    PROVE  ColAt(s, k) \in Int
<1>1. CASE Feeds(s, k) = {}
  BY <1>1 DEF ColAt
<1>2. CASE Feeds(s, k) # {}
  <2> DEFINE c == CHOOSE j \in Feeds(s, k) : \A i \in Feeds(s, k) : i <= j
  <2>1. c \in Int
    BY <1>2, LastFeed DEF Feeds
  <2>2. ColAt(s, k) = k - c
    BY <1>2 DEF ColAt
  <2> HIDE DEF c
  <2> QED BY <2>1, <2>2
<1> QED BY <1>1, <1>2

LEMMA LineMonotonic ==
    ASSUME NEW s, NEW j \in Int, NEW k \in Int, j <= k
    PROVE  LineAt(s, j) <= LineAt(s, k)
<1>1. Feeds(s, j) \in SUBSET Feeds(s, k)
  BY DEF Feeds
<1>2. Cardinality(Feeds(s, j)) <= Cardinality(Feeds(s, k))
  BY <1>1, FeedsFinite, FS_Subset
<1> QED BY <1>2, FeedsFinite DEF LineAt

\* Along characters that are no line feeds the line stays and the column
\* counts.
LEMMA SameLine ==
    ASSUME NEW s, NEW k \in Nat \ {0}, NEW m \in Nat, k <= m,
           \A j \in k .. m - 1 : s[j] # "LF"
    PROVE  /\ LineAt(s, m) = LineAt(s, k)
           /\ ColAt(s, m) = ColAt(s, k) + (m - k)
<1>1. Feeds(s, m) = Feeds(s, k)
  BY DEF Feeds
<1>2. LineAt(s, m) = LineAt(s, k)
  BY <1>1 DEF LineAt
<1>3. CASE Feeds(s, k) = {}
  BY <1>1, <1>2, <1>3 DEF ColAt
<1>4. CASE Feeds(s, k) # {}
  <2> DEFINE c == CHOOSE j \in Feeds(s, k) : \A i \in Feeds(s, k) : i <= j
  <2>1. c \in Int
    BY <1>4, LastFeed DEF Feeds
  <2>2. ColAt(s, k) = k - c /\ ColAt(s, m) = m - c
    BY <1>1, <1>4 DEF ColAt
  <2> HIDE DEF c
  <2> QED BY <1>2, <2>1, <2>2
<1> QED BY <1>3, <1>4

\* A line feed begins the next line.
LEMMA NextLine ==
    ASSUME NEW s, NEW k \in Nat \ {0}, s[k] = "LF"
    PROVE  /\ LineAt(s, k + 1) = LineAt(s, k) + 1
           /\ ColAt(s, k + 1) = 1
<1>1. Feeds(s, k + 1) = Feeds(s, k) \cup {k} /\ k \notin Feeds(s, k)
  BY DEF Feeds
<1>2. Cardinality(Feeds(s, k + 1)) = Cardinality(Feeds(s, k)) + 1
  BY <1>1, FeedsFinite, FS_AddElement
<1>3. LineAt(s, k + 1) = LineAt(s, k) + 1
  BY <1>2, FeedsFinite DEF LineAt
<1> DEFINE c == CHOOSE j \in Feeds(s, k + 1) : \A i \in Feeds(s, k + 1) : i <= j
<1>4. Feeds(s, k + 1) # {}
  BY <1>1
<1>5. c \in Feeds(s, k + 1) /\ \A i \in Feeds(s, k + 1) : i <= c
  BY <1>4, LastFeed
<1>6. ColAt(s, k + 1) = (k + 1) - c
  BY <1>4, Zenon DEF ColAt
<1> HIDE DEF c
<1>7. c \in Int /\ c <= k /\ k <= c
  BY <1>1, <1>5 DEF Feeds
<1> QED BY <1>3, <1>6, <1>7

-----------------------------------------------------------------------------
(* The minus signs of a line *)

LEMMA MinusesFinite ==
    ASSUME NEW s, NEW ts, IsSeq(ts), NEW k \in Int
    PROVE  /\ IsFiniteSet(Minuses(s, ts, k))
           /\ Cardinality(Minuses(s, ts, k)) \in Nat
           /\ ColumnAt(s, ts, k) \in Int
<1>1. Len(ts) \in Nat /\ DOMAIN ts = 1 .. Len(ts)
  BY SeqFacts
<1>2. IsFiniteSet(1 .. Len(ts))
  BY <1>1, FS_Interval
<1>3. Minuses(s, ts, k) \in SUBSET (1 .. Len(ts))
  BY <1>1 DEF Minuses
<1>4. IsFiniteSet(Minuses(s, ts, k))
  BY <1>2, <1>3, FS_Subset
<1>5. Cardinality(Minuses(s, ts, k)) \in Nat
  BY <1>4, FS_CardinalityType
<1> QED BY <1>4, <1>5, ColInt DEF ColumnAt

\* Every token begins at a number before k.
Before(ts, k) == \A n \in DOMAIN ts : ts[n].from \in Nat \ {0} /\ ts[n].from < k

LEMMA MinusesAppend ==
    ASSUME NEW s, NEW ts, IsSeq(ts), NEW t, NEW k \in Int,
           t.type # "MINUS" \/ ~(t.from < k)
    PROVE  /\ Minuses(s, Append(ts, t), k) = Minuses(s, ts, k)
           /\ ColumnAt(s, Append(ts, t), k) = ColumnAt(s, ts, k)
<1>1. Len(ts) \in Nat /\ DOMAIN ts = 1 .. Len(ts)
  BY SeqFacts
<1>2. /\ DOMAIN Append(ts, t) = 1 .. Len(ts) + 1
      /\ Append(ts, t)[Len(ts) + 1] = t
      /\ \A n \in 1 .. Len(ts) : Append(ts, t)[n] = ts[n]
  BY AppendFacts
<1> DEFINE us == Append(ts, t)
<1> HIDE DEF us
<1>3. Minuses(s, us, k) = Minuses(s, ts, k)
  <2>1. /\ DOMAIN us = 1 .. Len(ts) + 1 /\ us[Len(ts) + 1] = t
        /\ \A n \in 1 .. Len(ts) : us[n] = ts[n]
    BY <1>2 DEF us
  <2>2. ASSUME NEW n PROVE n \in Minuses(s, us, k) <=> n \in Minuses(s, ts, k)
    <3>1. CASE n \in 1 .. Len(ts)
      BY <1>1, <2>1, <3>1 DEF Minuses
    <3>2. CASE n = Len(ts) + 1
      BY <1>1, <2>1, <3>2 DEF Minuses
    <3>3. CASE n \notin 1 .. Len(ts) + 1
      BY <1>1, <2>1, <3>3 DEF Minuses
    <3> QED BY <1>1, <3>1, <3>2, <3>3
  <2> QED BY <2>2
<1> QED BY <1>3 DEF ColumnAt, us

LEMMA MinusesAlong ==
    ASSUME NEW s, NEW ts, NEW k \in Nat \ {0}, NEW m \in Nat, k <= m,
           Before(ts, k), LineAt(s, m) = LineAt(s, k)
    PROVE  Minuses(s, ts, m) = Minuses(s, ts, k)
  BY DEF Minuses, Before

LEMMA MinusesNextLine ==
    ASSUME NEW s, NEW ts, NEW p \in Nat \ {0}, Before(ts, p + 1),
           LineAt(s, p + 1) = LineAt(s, p) + 1
    PROVE  Minuses(s, ts, p + 1) = {}
<1> SUFFICES ASSUME NEW n \in DOMAIN ts
             PROVE  LineAt(s, ts[n].from) # LineAt(s, p + 1)
  BY DEF Minuses
<1>1. ts[n].from \in Nat \ {0} /\ ts[n].from <= p
  BY DEF Before
<1>2. LineAt(s, ts[n].from) <= LineAt(s, p)
  BY <1>1, LineMonotonic
<1>3. LineAt(s, ts[n].from) \in Nat /\ LineAt(s, p) \in Nat
  BY <1>1, FeedsFinite
<1> QED BY <1>2, <1>3

LEMMA MinusesPush ==
    ASSUME NEW s, NEW ts, IsSeq(ts), NEW k \in Nat \ {0}, Before(ts, k),
           NEW t, t.type = "MINUS", t.from = k,
           LineAt(s, k + 1) = LineAt(s, k)
    PROVE  Cardinality(Minuses(s, Append(ts, t), k + 1))
               = Cardinality(Minuses(s, ts, k)) + 1
<1>1. Len(ts) \in Nat /\ DOMAIN ts = 1 .. Len(ts)
  BY SeqFacts
<1> DEFINE us == Append(ts, t)
<1>2. /\ DOMAIN us = 1 .. Len(ts) + 1
      /\ us[Len(ts) + 1] = t
      /\ \A n \in 1 .. Len(ts) : us[n] = ts[n]
  BY AppendFacts
<1> HIDE DEF us
<1>3. ASSUME NEW n
      PROVE  n \in Minuses(s, us, k + 1) <=> n \in Minuses(s, ts, k) \cup {Len(ts) + 1}
  <2>1. CASE n \in 1 .. Len(ts)
    <3>1. us[n] = ts[n] /\ n \in DOMAIN us /\ n \in DOMAIN ts /\ n # Len(ts) + 1
      BY <1>1, <1>2, <2>1
    <3>2. ts[n].from < k /\ ts[n].from < k + 1
      BY <3>1 DEF Before
    <3> QED BY <3>1, <3>2 DEF Minuses
  <2>2. CASE n = Len(ts) + 1
    BY <1>1, <1>2, <2>2 DEF Minuses
  <2>3. CASE n \notin 1 .. Len(ts) + 1
    BY <1>1, <1>2, <2>3 DEF Minuses
  <2> QED BY <1>1, <2>1, <2>2, <2>3
<1>4. Minuses(s, us, k + 1) = Minuses(s, ts, k) \cup {Len(ts) + 1}
  BY <1>3
<1>5. Len(ts) + 1 \notin Minuses(s, ts, k)
  BY <1>1 DEF Minuses
<1> QED BY <1>4, <1>5, MinusesFinite, FS_AddElement DEF us

-----------------------------------------------------------------------------
(* Covered characters and comments *)

LEMMA AccountKept ==
    ASSUME NEW s, NEW ts, IsSeq(ts), NEW t, NEW k \in Nat \ {0},
           Account(s, ts, k), t.from \in Nat, t.to \in Int, k < t.from
    PROVE  Account(s, Append(ts, t), k)
<1>1. Len(ts) \in Nat /\ DOMAIN ts = 1 .. Len(ts)
  BY SeqFacts
<1> DEFINE us == Append(ts, t)
<1>2. /\ DOMAIN us = 1 .. Len(ts) + 1
      /\ us[Len(ts) + 1] = t
      /\ \A n \in 1 .. Len(ts) : us[n] = ts[n]
  BY AppendFacts
<1> HIDE DEF us
<1>3. CASE CoveredBy(ts, k)
  <2>1. CoveredBy(us, k)
    BY <1>1, <1>2, <1>3 DEF CoveredBy
  <2> QED BY <2>1 DEF Account, us
<1>4. CASE CommentAt(s, ts, k)
  <2>1. PICK j \in 1 .. k : Comment(s, ts, j, k)
    BY <1>4 DEF CommentAt
  <2>2. ~CoveredBy(us, j)
    <3> SUFFICES ASSUME NEW n \in 1 .. Len(ts) + 1, j \in us[n].from .. us[n].to
                 PROVE  FALSE
      BY <1>2 DEF CoveredBy
    <3>1. CASE n \in 1 .. Len(ts)
      <4>1. us[n] = ts[n] /\ n \in DOMAIN ts
        BY <1>1, <1>2, <3>1
      <4> QED BY <2>1, <4>1 DEF Comment, CoveredBy
    <3>2. CASE n = Len(ts) + 1
      <4>1. us[n] = t
        BY <1>2, <3>2
      <4> QED BY <4>1
    <3> QED BY <1>1, <3>1, <3>2
  <2>3. Comment(s, us, j, k)
    BY <2>1, <2>2 DEF Comment
  <2>4. CommentAt(s, us, k)
    BY <2>3 DEF CommentAt
  <2> QED BY <2>4 DEF Account, us
<1>5. CASE s[k] \in {" ", "CR", "LF"}
  BY <1>5 DEF Account
<1> QED BY <1>3, <1>4, <1>5 DEF Account

LEMMA NewlyCovered ==
    ASSUME NEW s, NEW ts, IsSeq(ts), NEW t, NEW k \in t.from .. t.to
    PROVE  Account(s, Append(ts, t), k)
<1>1. /\ DOMAIN Append(ts, t) = 1 .. Len(ts) + 1
      /\ Append(ts, t)[Len(ts) + 1] = t
      /\ Len(ts) \in Nat
  BY AppendFacts, SeqFacts
<1>2. CoveredBy(Append(ts, t), k)
  BY <1>1 DEF CoveredBy
<1> QED BY <1>2 DEF Account

-----------------------------------------------------------------------------
(* The shapes of a step *)

\* The cursor moves over n characters of its line.
Walk(n) ==
    /\ n \in Nat /\ pos + n <= Len(src) + 1
    /\ \A j \in pos .. pos + n - 1 : src[j] # "LF"
    /\ src' = src
    /\ Skip(n)

\* The cursor moves over n characters of its line and a line feed.
Wrap(n) ==
    /\ n \in Nat /\ pos + n <= Len(src) /\ src[pos + n] = "LF"
    /\ \A j \in pos .. pos + n - 1 : src[j] # "LF"
    /\ src' = src
    /\ pos' = pos + n + 1 /\ line' = line + 1 /\ col' = 1

Complained == IsSeq(errors') /\ errors' # <<>> /\ reported' = TRUE
Silent == errors' = errors /\ reported' = reported

\* Every token begins and ends before k.
Behind(ts, k) ==
    \A n \in DOMAIN ts : /\ ts[n].from \in Nat \ {0} /\ ts[n].from < k
                         /\ ts[n].to \in Nat /\ ts[n].to < k

\* A token that may be pushed: it stands where it says, behind the others.
Proper(t) ==
    /\ t.from \in 1 .. pos /\ t.to \in 0 .. pos' - 1
    /\ Behind(tokens, t.from)
    /\ t.line = LineAt(src, t.from)
    /\ t.col = ColumnAt(src, tokens, t.from)

LEMMA PositionFacts ==
    ASSUME LexInv
    PROVE  /\ Len(src) \in Nat /\ DOMAIN src = 1 .. Len(src)
           /\ pos \in Nat /\ pos > 0 /\ pos <= Len(src) + 1
           /\ line \in Int /\ col \in Int
           /\ mode # "done" => Behind(tokens, pos) /\ Before(tokens, pos)
<1>1. /\ IsSeq(src) /\ IsSeq(tokens) /\ pos \in 1 .. Len(src) + 1
  BY DEF LexInv, LexShape
<1>2. Len(src) \in Nat /\ DOMAIN src = 1 .. Len(src)
  BY <1>1, SeqFacts
<1>3. pos \in Nat /\ pos > 0 /\ pos <= Len(src) + 1
  BY <1>1, <1>2
<1>4. LineAt(src, pos) \in Nat /\ ColumnAt(src, tokens, pos) \in Int
  BY <1>1, <1>3, FeedsFinite, MinusesFinite
<1>5. line \in Int /\ col \in Int
  BY <1>4 DEF LexInv, CursorIsTrue
<1>6. ASSUME mode # "done" PROVE Behind(tokens, pos) /\ Before(tokens, pos)
  <2> SUFFICES ASSUME NEW n \in DOMAIN tokens
               PROVE  /\ tokens[n].from \in Nat \ {0} /\ tokens[n].from < pos
                      /\ tokens[n].to \in Nat /\ tokens[n].to < pos
    BY DEF Behind, Before
  <2>1. /\ tokens[n].from \in 1 .. pos
        /\ tokens[n].to \in 0 .. pos - 1
        /\ tokens[n].from < pos
    BY <1>6 DEF LexInv, TokensStand
  <2> QED BY <1>3, <2>1
<1> QED BY <1>2, <1>3, <1>5, <1>6

LEMMA CursorWalks ==
    ASSUME LexInv, mode # "done", NEW n, Walk(n),
           \/ tokens' = tokens
           \/ \E t : tokens' = Append(tokens, t) /\ t.type # "MINUS"
    PROVE  CursorIsTrue'
<1>0. /\ Len(src) \in Nat /\ pos \in Nat /\ pos > 0 /\ Before(tokens, pos)
      /\ IsSeq(tokens) /\ col \in Int
  BY PositionFacts DEF LexInv, LexShape
<1>1. /\ n \in Nat /\ pos' = pos + n /\ line' = line /\ col' = col + n
      /\ src' = src /\ \A j \in pos .. pos + n - 1 : src[j] # "LF"
  BY DEF Walk, Skip
<1>2. LineAt(src, pos + n) = LineAt(src, pos) /\ ColAt(src, pos + n) = ColAt(src, pos) + n
  <2>1. \A j \in pos .. (pos + n) - 1 : src[j] # "LF"
    <3>1. (pos + n) - 1 = pos + n - 1
      BY <1>0, <1>1
    <3> QED BY <1>1, <3>1, Zenon
  <2>2. /\ LineAt(src, pos + n) = LineAt(src, pos)
        /\ ColAt(src, pos + n) = ColAt(src, pos) + ((pos + n) - pos)
    BY <1>0, <1>1, <2>1, SameLine
  <2> QED BY <1>0, <1>1, <2>2
<1>3. Minuses(src, tokens, pos + n) = Minuses(src, tokens, pos)
  BY <1>0, <1>1, <1>2, MinusesAlong
<1>4. ColumnAt(src, tokens, pos + n) = col + n
  <2>1. col = ColAt(src, pos) + Cardinality(Minuses(src, tokens, pos))
    BY DEF LexInv, CursorIsTrue, ColumnAt
  <2>2. ColAt(src, pos) \in Int /\ Cardinality(Minuses(src, tokens, pos)) \in Nat
    BY <1>0, ColInt, MinusesFinite
  <2> QED BY <1>1, <1>2, <1>3, <2>1, <2>2 DEF ColumnAt
<1>5. ColumnAt(src, tokens', pos + n) = ColumnAt(src, tokens, pos + n)
  <2>1. pos + n \in Int
    BY <1>0, <1>1
  <2>2. CASE \E t : tokens' = Append(tokens, t) /\ t.type # "MINUS"
    <3>1. PICK t : tokens' = Append(tokens, t) /\ t.type # "MINUS"
      BY <2>2
    <3> QED BY <1>0, <2>1, <3>1, MinusesAppend
  <2> QED BY <2>2
<1> QED BY <1>1, <1>2, <1>4, <1>5 DEF LexInv, CursorIsTrue

LEMMA CursorWraps ==
    ASSUME LexInv, mode # "done", NEW n, Wrap(n),
           \/ tokens' = tokens
           \/ \E t : tokens' = Append(tokens, t) /\ t.type # "MINUS"
    PROVE  CursorIsTrue'
<1>0. /\ Len(src) \in Nat /\ pos \in Nat /\ pos > 0 /\ Before(tokens, pos)
      /\ IsSeq(tokens)
  BY PositionFacts DEF LexInv, LexShape
<1> DEFINE p == pos + n
<1>1. /\ n \in Nat /\ p \in Nat \ {0} /\ src[p] = "LF"
      /\ pos' = p + 1 /\ line' = line + 1 /\ col' = 1
      /\ src' = src /\ \A j \in pos .. p - 1 : src[j] # "LF"
  BY <1>0 DEF Wrap
<1>2. pos <= p
  BY <1>0, <1>1
<1> HIDE DEF p
<1>3. LineAt(src, p) = LineAt(src, pos)
  BY <1>0, <1>1, <1>2, SameLine
<1>4. LineAt(src, p + 1) = LineAt(src, p) + 1 /\ ColAt(src, p + 1) = 1
  BY <1>1, NextLine
<1>5. Before(tokens, p + 1)
  BY <1>0, <1>1, <1>2 DEF Before
<1>6. Minuses(src, tokens, p + 1) = {}
  BY <1>1, <1>4, <1>5, MinusesNextLine
<1>7. ColumnAt(src, tokens, p + 1) = 1
  BY <1>4, <1>6, FS_EmptySet DEF ColumnAt
<1>8. ColumnAt(src, tokens', p + 1) = 1
  <2>1. CASE \E t : tokens' = Append(tokens, t) /\ t.type # "MINUS"
    <3>1. PICK t : tokens' = Append(tokens, t) /\ t.type # "MINUS"
      BY <2>1
    <3>2. p + 1 \in Int
      BY <1>1
    <3>3. ColumnAt(src, Append(tokens, t), p + 1) = ColumnAt(src, tokens, p + 1)
      BY <1>0, <3>1, <3>2, MinusesAppend
    <3> QED BY <1>7, <3>1, <3>3
  <2> QED BY <1>7, <2>1
<1> QED BY <1>1, <1>3, <1>4, <1>8 DEF LexInv, CursorIsTrue

LEMMA TokensKept ==
    ASSUME LexInv, mode # "done", mode' # "done", tokens' = tokens, src' = src,
           pos' \in Nat, pos' >= pos
    PROVE  TokensStand' /\ TokensInOrder'
<1>1. TokensInOrder'
  BY DEF LexInv, TokensInOrder
<1>2. ASSUME NEW n \in DOMAIN tokens
      PROVE  /\ tokens[n].from \in 1 .. pos'
             /\ tokens[n].to \in 0 .. pos' - 1
             /\ tokens[n].from < pos'
             /\ tokens[n].line = LineAt(src, tokens[n].from)
             /\ tokens[n].col = ColumnAt(src, tokens, tokens[n].from)
  <2>1. pos \in Nat /\ Behind(tokens, pos)
    BY PositionFacts
  <2>2. /\ tokens[n].line = LineAt(src, tokens[n].from)
        /\ tokens[n].col = ColumnAt(src, tokens, tokens[n].from)
    BY DEF LexInv, TokensStand
  <2>3. /\ tokens[n].from \in 1 .. pos'
        /\ tokens[n].to \in 0 .. pos' - 1
        /\ tokens[n].from < pos'
    BY <2>1 DEF Behind
  <2> QED BY <2>2, <2>3
<1> QED BY <1>1, <1>2 DEF TokensStand

LEMMA TokenPushed ==
    ASSUME LexInv, mode # "done", NEW t, tokens' = Append(tokens, t), Proper(t),
           src' = src, pos' \in Nat, pos' >= pos,
           mode' # "done" => t.from < pos'
    PROVE  TokensStand' /\ TokensInOrder'
<1>0. /\ IsSeq(tokens) /\ pos \in Nat /\ Behind(tokens, pos)
      /\ Len(tokens) \in Nat /\ DOMAIN tokens = 1 .. Len(tokens)
  BY PositionFacts, SeqFacts DEF LexInv, LexShape
<1>1. /\ DOMAIN tokens' = 1 .. Len(tokens) + 1
      /\ tokens'[Len(tokens) + 1] = t
      /\ Len(tokens') = Len(tokens) + 1
      /\ \A n \in 1 .. Len(tokens) : tokens'[n] = tokens[n]
  BY <1>0, AppendFacts
<1>2. /\ t.from \in Nat \ {0} /\ t.from <= pos /\ t.to \in 0 .. pos' - 1
      /\ Behind(tokens, t.from)
  BY <1>0 DEF Proper
<1>3. TokensStand'
  <2> SUFFICES ASSUME NEW n \in 1 .. Len(tokens) + 1
               PROVE  /\ tokens'[n].from \in 1 .. pos'
                      /\ tokens'[n].to \in 0 .. pos' - 1
                      /\ mode' # "done" => tokens'[n].from < pos'
                      /\ tokens'[n].line = LineAt(src, tokens'[n].from)
                      /\ tokens'[n].col = ColumnAt(src, tokens', tokens'[n].from)
    BY <1>1 DEF TokensStand
  <2>1. CASE n \in 1 .. Len(tokens)
    <3>1. tokens'[n] = tokens[n] /\ n \in DOMAIN tokens
      BY <1>0, <1>1, <2>1
    <3>2. /\ tokens[n].from \in Nat \ {0} /\ tokens[n].from < t.from
          /\ tokens[n].to \in Nat /\ tokens[n].to < t.from
      BY <1>2, <3>1 DEF Behind
    <3>3. ColumnAt(src, tokens', tokens[n].from) = ColumnAt(src, tokens, tokens[n].from)
      BY <1>0, <1>2, <3>2, MinusesAppend
    <3>4. /\ tokens[n].line = LineAt(src, tokens[n].from)
          /\ tokens[n].col = ColumnAt(src, tokens, tokens[n].from)
      BY <3>1 DEF LexInv, TokensStand
    <3>5. /\ tokens[n].from \in 1 .. pos'
          /\ tokens[n].to \in 0 .. pos' - 1
          /\ tokens[n].from < pos'
      BY <1>0, <1>2, <3>2
    <3> QED BY <3>1, <3>3, <3>4, <3>5
  <2>2. CASE n = Len(tokens) + 1
    <3>1. tokens'[n] = t
      BY <1>1, <2>2
    <3>2. ColumnAt(src, tokens', t.from) = ColumnAt(src, tokens, t.from)
      BY <1>0, <1>2, MinusesAppend
    <3>3. t.line = LineAt(src, t.from) /\ t.col = ColumnAt(src, tokens, t.from)
      BY DEF Proper
    <3>4. t.from \in 1 .. pos'
      BY <1>0, <1>2
    <3> QED BY <1>2, <3>1, <3>2, <3>3, <3>4
  <2> QED BY <1>0, <2>1, <2>2
<1>4. TokensInOrder'
  <2> SUFFICES ASSUME NEW n \in 2 .. Len(tokens) + 1
               PROVE  tokens'[n].from > tokens'[n - 1].to
    BY <1>1 DEF TokensInOrder
  <2>1. CASE n \in 2 .. Len(tokens)
    <3>1. tokens'[n] = tokens[n] /\ tokens'[n - 1] = tokens[n - 1]
      BY <1>0, <1>1, <2>1
    <3>2. tokens[n].from > tokens[n - 1].to
      BY <2>1 DEF LexInv, TokensInOrder
    <3> QED BY <3>1, <3>2
  <2>2. CASE n = Len(tokens) + 1
    <3>0. n - 1 \in 1 .. Len(tokens) /\ tokens'[n] = t
      BY <1>0, <1>1, <2>2
    <3>1. tokens'[n] = t /\ tokens'[n - 1] = tokens[n - 1] /\ n - 1 \in DOMAIN tokens
      BY <1>0, <1>1, <3>0
    <3>2. tokens[n - 1].to \in Nat /\ tokens[n - 1].to < t.from
      BY <1>2, <3>1 DEF Behind
    <3> QED BY <1>2, <3>1, <3>2
  <2> QED BY <1>0, <2>1, <2>2
<1> QED BY <1>3, <1>4

-----------------------------------------------------------------------------
(* What the operators of the lexer return *)

LEMMA RunEndFacts ==
    ASSUME IsSeq(src), NEW k \in Nat \ {0}, k <= Len(src) + 1,
           NEW S, "END" \notin S
    PROVE  /\ RunEnd(k, S) \in k .. Len(src) + 1
           /\ PeekAt(RunEnd(k, S)) \notin S
           /\ \A j \in k .. RunEnd(k, S) - 1 : src[j] \in S
<1>0. Len(src) \in Nat
  BY SeqFacts
<1> DEFINE T == {e \in k .. Len(src) + 1 : PeekAt(e) \notin S}
<1>1. T \subseteq Nat /\ T # {}
  <2>1. PeekAt(Len(src) + 1) = "END"
    BY <1>0 DEF PeekAt
  <2>2. Len(src) + 1 \in T
    BY <1>0, <2>1
  <2> QED BY <1>0, <2>2
<1>2. PICK e \in T : \A f \in T : e <= f
  <2> HIDE DEF T
  <2> QED BY <1>1, LeastNumber
<1>3. \A j \in k .. e - 1 : src[j] \in S
  <2> SUFFICES ASSUME NEW j \in k .. e - 1, src[j] \notin S
               PROVE  FALSE
    OBVIOUS
  <2>1. j \in k .. Len(src) + 1 /\ j < e /\ j <= Len(src)
    BY <1>0, <1>2
  <2>2. PeekAt(j) = src[j]
    BY <1>0, <2>1 DEF PeekAt
  <2>3. j \in T
    BY <2>1, <2>2
  <2> QED BY <1>2, <2>1, <2>3
<1>4. \E f \in k .. Len(src) + 1 :
          PeekAt(f) \notin S /\ \A j \in k .. f - 1 : src[j] \in S
  BY <1>2, <1>3
<1> QED BY <1>4 DEF RunEnd

LEMMA PeekFacts ==
    ASSUME IsSeq(src), NEW k \in Nat \ {0}, PeekAt(k) # "END"
    PROVE  k <= Len(src) /\ src[k] = PeekAt(k)
  BY SeqFacts DEF PeekAt

LEMMA DigitsOfFacts ==
    ASSUME NEW base \in {2, 10, 16}
    PROVE  DigitsOf(base) \subseteq {"0", "1", "8", "b"}
<1>1. CASE base = 2
  BY <1>1 DEF DigitsOf, Digits
<1>2. CASE base = 10
  BY <1>2 DEF DigitsOf, Digits
<1>3. CASE base = 16
  BY <1>3 DEF DigitsOf, Digits
<1> QED BY <1>1, <1>2, <1>3

LEMMA ParseDigitsEnd ==
    ASSUME NEW k, NEW base, NEW got
    PROVE  ParseDigits(k, base, got).end = RunEnd(k, DigitsOf(base))
  BY DEF ParseDigits

\* A number takes at least its first digit and nothing but its own line.
LEMMA NumberFacts ==
    ASSUME IsSeq(src), NEW k \in Nat \ {0}, PeekAt(k) \in Digits
    PROVE  /\ parse_number(k).end \in k + 1 .. Len(src) + 1
           /\ \A j \in k .. parse_number(k).end - 1 : src[j] # "LF"
<1>0. Len(src) \in Nat
  BY SeqFacts
<1>1. k <= Len(src) /\ src[k] = PeekAt(k)
  BY PeekFacts DEF Digits
<1>2. ASSUME NEW base \in {2, 10, 16}, NEW f \in Nat \ {0}, f <= Len(src) + 1
      PROVE  /\ RunEnd(f, DigitsOf(base)) \in f .. Len(src) + 1
             /\ \A j \in f .. RunEnd(f, DigitsOf(base)) - 1 : src[j] # "LF"
             /\ PeekAt(RunEnd(f, DigitsOf(base))) \notin DigitsOf(base)
  <2>1. "END" \notin DigitsOf(base) /\ "LF" \notin DigitsOf(base)
    BY DigitsOfFacts
  <2> QED BY <1>2, <2>1, RunEndFacts
<1>3. CASE PeekAt(k) # "0"
  <2> DEFINE e == RunEnd(k, DigitsOf(10))
  <2>1. parse_number(k).end = e
    <3>1. parse_number(k) = ParseDigits(k, 10, FALSE)
      BY <1>3 DEF parse_number
    <3>2. ParseDigits(k, 10, FALSE).end = e
      BY ParseDigitsEnd, Zenon
    <3> HIDE DEF e
    <3> QED BY <3>1, <3>2
  <2>2. /\ e \in k .. Len(src) + 1
        /\ \A j \in k .. e - 1 : src[j] # "LF"
        /\ PeekAt(e) \notin DigitsOf(10)
    BY <1>0, <1>1, <1>2
  <2>3. PeekAt(k) \in DigitsOf(10)
    BY DEF DigitsOf
  <2> HIDE DEF e
  <2>4. e # k
    BY <2>2, <2>3
  <2>5. e \in k + 1 .. Len(src) + 1
    BY <1>0, <2>2, <2>4
  <2> QED BY <2>1, <2>2, <2>5
<1>4. CASE PeekAt(k) = "0" /\ PeekAt(k + 1) \in {"x", "b"}
  <2>1. k + 1 <= Len(src) /\ src[k + 1] \in {"x", "b"}
    BY <1>4, PeekFacts
  <2>2. PICK base \in {2, 16} : parse_number(k) = ParseDigits(k + 2, base, FALSE)
    BY <1>4 DEF parse_number
  <2> DEFINE e == RunEnd(k + 2, DigitsOf(base))
  <2>3. parse_number(k).end = e
    <3>1. ParseDigits(k + 2, base, FALSE).end = e
      BY ParseDigitsEnd, Zenon
    <3> HIDE DEF e
    <3> QED BY <2>2, <3>1
  <2>4. /\ e \in k + 2 .. Len(src) + 1
        /\ \A j \in k + 2 .. e - 1 : src[j] # "LF"
    <3>1. k + 2 \in Nat \ {0} /\ k + 2 <= Len(src) + 1 /\ base \in {2, 10, 16}
      BY <1>0, <2>1, <2>2
    <3> QED BY <1>2, <3>1, Zenon
  <2> HIDE DEF e
  <2>5. ASSUME NEW j \in k .. e - 1 PROVE src[j] # "LF"
    <3>1. CASE j = k
      BY <1>1, <1>4, <3>1
    <3>2. CASE j = k + 1
      BY <2>1, <3>2
    <3>3. CASE j \in k + 2 .. e - 1
      BY <2>4, <3>3
    <3> QED BY <2>4, <3>1, <3>2, <3>3
  <2> QED BY <1>0, <2>3, <2>4, <2>5
<1>5. CASE PeekAt(k) = "0" /\ PeekAt(k + 1) \notin {"x", "b"}
  <2> DEFINE e == RunEnd(k + 1, DigitsOf(10))
  <2>1. parse_number(k) = ParseDigits(k + 1, 10, TRUE)
    BY <1>5 DEF parse_number
  <2>2. parse_number(k).end = e
    <3>1. ParseDigits(k + 1, 10, TRUE).end = e
      BY ParseDigitsEnd, Zenon
    <3> HIDE DEF e
    <3> QED BY <2>1, <3>1
  <2>3. /\ e \in k + 1 .. Len(src) + 1
        /\ \A j \in k + 1 .. e - 1 : src[j] # "LF"
    BY <1>0, <1>1, <1>2
  <2> HIDE DEF e
  <2>4. ASSUME NEW j \in k .. e - 1 PROVE src[j] # "LF"
    <3>1. CASE j = k
      BY <1>1, <1>5, <3>1
    <3>2. CASE j \in k + 1 .. e - 1
      BY <2>3, <3>2
    <3> QED BY <2>3, <3>1, <3>2
  <2> QED BY <2>2, <2>3, <2>4
<1> QED BY <1>3, <1>4, <1>5

\* error_add_span leaves a diagnostic behind even when the list is full.
LEMMA ErrorComplains ==
    ASSUME LexInv, NEW l, NEW c, NEW e, error_add_span(l, c, e)
    PROVE  Complained
<1>1. IsSeq(errors) /\ Len(errors) \in Nat
  BY SeqFacts DEF LexInv, LexShape
<1> DEFINE d == [line |-> l, col |-> c, end_col |-> normalized_end_col(c, e)]
<1>2. /\ reported' = TRUE
      /\ errors' = IF Len(errors) >= MaxErrors THEN errors ELSE Append(errors, d)
  BY DEF error_add_span
<1> HIDE DEF d
<1>3. CASE Len(errors) >= MaxErrors
  <2>1. Len(errors) # 0
    BY <1>1, <1>3, MaxErrorsAssumption
  <2>2. errors # <<>>
    BY <2>1, EmptyIsSeq
  <2> QED BY <1>1, <1>2, <1>3, <2>2 DEF Complained
<1>4. CASE ~(Len(errors) >= MaxErrors)
  <2>1. errors' = Append(errors, d)
    BY <1>2, <1>4
  <2>2. IsSeq(errors') /\ errors' # <<>>
    BY <1>1, <2>1, AppendFacts
  <2> QED BY <1>2, <2>2 DEF Complained
<1> QED BY <1>3, <1>4

LEMMA SilentNoError ==
    ASSUME NoError
    PROVE  Silent
  BY DEF NoError, Silent

LEMMA NumberPushed ==
    ASSUME LexInv, NEW n, NEW fits, NEW value, PushNumber(n, fits, value)
    PROVE  /\ Skip(n.end - pos)
           /\ \/ /\ tokens' = Append(tokens, Token("IMMEDIATE", <<value>>,
                                           col + n.end - pos, n.end - 1))
                 /\ Silent
              \/ tokens' = tokens /\ Complained
<1>1. CASE fits /\ n.ok
  BY <1>1, SilentNoError, Zenon DEF PushNumber, push_token
<1>2. CASE ~(fits /\ n.ok)
  <2>1. \/ error_add_span(line, col, col + n.end - pos)
        \/ error_add_span(line, col + n.end - pos, (col + n.end - pos) + 1)
    BY <1>2, Zenon DEF PushNumber
  <2>2. Complained
    BY <2>1, ErrorComplains
  <2> QED BY <1>2, <2>2, Zenon DEF PushNumber
<1> QED BY <1>1, <1>2

-----------------------------------------------------------------------------
(* Each shape of a step keeps the invariant *)

LEMMA SplitRange ==
    ASSUME NEW a \in Int, NEW b \in Int, NEW c \in Int, NEW k \in a .. c - 1
    PROVE  k \in a .. b - 1 \/ k \in b .. c - 1
  OBVIOUS

LEMMA OneCharacter ==
    ASSUME NEW a \in Int, NEW b, b = a + 1, NEW k \in a .. b - 1
    PROVE  k = a
  OBVIOUS

LEMMA WalkFacts ==
    ASSUME LexInv, NEW n, Walk(n)
    PROVE  /\ n \in Nat /\ pos' = pos + n /\ pos' \in Nat /\ pos' >= pos
           /\ pos' \in 1 .. Len(src') + 1
           /\ src' = src /\ IsSeq(src')
           /\ \A j \in pos .. pos' - 1 : src[j] # "LF"
<1>1. Len(src) \in Nat /\ pos \in Nat /\ pos > 0 /\ IsSeq(src)
  BY PositionFacts DEF LexInv, LexShape
<1>2. /\ n \in Nat /\ pos' = pos + n /\ pos + n <= Len(src) + 1 /\ src' = src
      /\ \A j \in pos .. pos + n - 1 : src[j] # "LF"
  BY DEF Walk, Skip
<1>3. pos' - 1 = pos + n - 1
  BY <1>1, <1>2
<1>4. pos' \in Nat /\ pos' >= pos /\ pos' \in 1 .. Len(src') + 1
  BY <1>1, <1>2
<1> QED BY <1>1, <1>2, <1>3, <1>4

LEMMA ComplaintsKept ==
    ASSUME LexInv, Silent \/ Complained,
           DOMAIN string' = {"line", "col", "from", "bytes", "ok"},
           string'.ok = string.ok \/ Complained \/ string'.ok = TRUE
    PROVE  Complaints' /\ IsSeq(errors')
  BY DEF LexInv, LexShape, Complaints, Silent, Complained

\* A comment goes on along its line.
LEMMA CommentKept ==
    ASSUME LexInv, NEW n, Walk(n), mode = "comment", tokens' = tokens
    PROVE  \E j \in 1 .. pos : j <= Len(src) /\ Comment(src, tokens, j, pos' - 1)
<1>1. PICK j \in 1 .. pos : j <= Len(src) /\ Comment(src, tokens, j, pos - 1)
  BY DEF LexInv, CommentStands
<1>2. pos \in Nat /\ pos' \in Nat /\ \A i \in pos .. pos' - 1 : src[i] # "LF"
  BY WalkFacts, PositionFacts
<1>3. ASSUME NEW i \in j .. pos' - 1 PROVE src[i] # "LF"
  <2>1. i \in j .. pos - 1 \/ i \in pos .. pos' - 1
    <3>1. j \in Int /\ pos \in Int /\ pos' \in Int
      BY <1>1, <1>2
    <3> QED BY <3>1, SplitRange, Zenon
  <2>2. \A h \in j .. pos - 1 : src[h] # "LF"
    BY <1>1 DEF Comment
  <2> QED BY <1>2, <2>1, <2>2
<1>4. Comment(src, tokens, j, pos' - 1)
  BY <1>1, <1>3 DEF Comment
<1> QED BY <1>1, <1>4

\* What is accounted for stays so while the tokens do.
LEMMA AccountedKept ==
    ASSUME LexInv, NEW n, Walk(n), mode' # "done", tokens' = tokens,
           mode = "string" => mode' = "string" /\ string'.from = string.from,
           Silent,
           \A k \in pos .. pos' - 1 :
               \/ Account(src, tokens, k)
               \/ mode' = "string" /\ k >= string'.from
    PROVE  Accounted'
<1>1. pos \in Nat /\ pos > 0 /\ pos' \in Nat /\ src' = src /\ pos' >= pos
  BY PositionFacts, WalkFacts
<1> SUFFICES ASSUME ~reported, NEW k \in 1 .. pos' - 1
             PROVE  \/ Account(src, tokens, k)
                    \/ mode' = "string" /\ k >= string'.from
  BY <1>1 DEF Accounted, Silent
<1>2. CASE k \in 1 .. pos - 1
  BY <1>2 DEF LexInv, Accounted
<1>3. CASE k \in pos .. pos' - 1
  BY <1>3
<1>4. k \in 1 .. pos - 1 \/ k \in pos .. pos' - 1
  <2>1. 1 \in Int /\ pos \in Int /\ pos' \in Int
    BY <1>1
  <2> QED BY <2>1, SplitRange, Zenon
<1> QED BY <1>2, <1>3, <1>4

\* lex_single_char_token, lex_directive, lex_identifier and numbers.
LEMMA MainToken ==
    ASSUME LexInv, mode = "main", mode' = "main", NEW n, Walk(n), n > 0, NEW t,
           tokens' = Append(tokens, t), t.type # "MINUS",
           t.from = pos, t.to = pos' - 1, t.line = line, t.col = col,
           string' = string, Silent \/ Complained
    PROVE  LexInv'
<1>1. /\ pos \in Nat /\ pos > 0 /\ n \in Nat /\ pos' \in Nat /\ pos' = pos + n
      /\ pos' \in 1 .. Len(src') + 1 /\ src' = src /\ IsSeq(src')
      /\ Behind(tokens, pos) /\ IsSeq(tokens)
  BY PositionFacts, WalkFacts DEF LexInv, LexShape
<1>2. IsSeq(tokens')
  BY <1>1, AppendFacts
<1>3. Complaints' /\ IsSeq(errors')
  BY ComplaintsKept DEF LexInv, LexShape
<1>4. LexShape'
  BY <1>1, <1>2, <1>3 DEF LexInv, LexShape
<1>5. CursorIsTrue'
  BY CursorWalks
<1>6. Proper(t)
  BY <1>1 DEF Proper, LexInv, CursorIsTrue
<1>7. TokensStand' /\ TokensInOrder'
  BY <1>1, <1>6, TokenPushed
<1>8. StringStands' /\ CommentStands'
  BY DEF StringStands, CommentStands
<1>9. Accounted'
  <2> SUFFICES ASSUME ~reported', NEW k \in 1 .. pos' - 1
               PROVE  Account(src, Append(tokens, t), k)
    BY <1>1 DEF Accounted
  <2>1. CASE k \in 1 .. pos - 1
    <3>1. ~reported
      BY DEF Silent, Complained
    <3>2. Account(src, tokens, k)
      BY <2>1, <3>1 DEF LexInv, Accounted
    <3>3. k \in Nat \ {0} /\ t.from \in Nat /\ t.to \in Int /\ k < t.from
      BY <1>1, <2>1
    <3> QED BY <1>1, <3>2, <3>3, AccountKept
  <2>2. CASE k \in pos .. pos' - 1
    BY <1>1, <2>2, NewlyCovered
  <2> QED BY <1>1, <2>1, <2>2
<1> QED BY <1>3, <1>4, <1>5, <1>7, <1>8, <1>9 DEF LexInv

\* A step that reports something and moves along the line, or not at all.
LEMMA ComplaintStep ==
    ASSUME LexInv, mode # "done", mode' \in {mode, "main"}, NEW n, Walk(n),
           tokens' = tokens, Complained,
           DOMAIN string' = DOMAIN string, string'.from = string.from,
           string'.line = string.line, string'.col = string.col
    PROVE  LexInv'
<1>1. /\ pos \in Nat /\ pos > 0 /\ n \in Nat /\ pos' \in Nat /\ pos' >= pos
      /\ pos' \in 1 .. Len(src') + 1 /\ src' = src /\ IsSeq(src')
      /\ IsSeq(tokens) /\ DOMAIN string = {"line", "col", "from", "bytes", "ok"}
  BY PositionFacts, WalkFacts DEF LexInv, LexShape
<1>3. Complaints' /\ IsSeq(errors')
  BY <1>1, ComplaintsKept
<1>4. LexShape'
  BY <1>1, <1>3 DEF LexShape
<1>5. CursorIsTrue'
  BY CursorWalks
<1>7. TokensStand' /\ TokensInOrder'
  BY <1>1, TokensKept
<1>8. StringStands'
  <2> SUFFICES ASSUME mode' = "string"
               PROVE  /\ string'.from \in 1 .. pos' - 1
                      /\ string'.line = LineAt(src, string'.from)
                      /\ string'.col = ColumnAt(src, tokens, string'.from)
                      /\ \A m \in DOMAIN tokens : /\ tokens[m].from < string'.from
                                                  /\ tokens[m].to < string'.from
    BY <1>1 DEF StringStands
  <2>1. mode = "string"
    OBVIOUS
  <2>2. string.from \in 1 .. pos' - 1
    BY <1>1, <2>1 DEF LexInv, StringStands
  <2> QED BY <2>1, <2>2 DEF LexInv, StringStands
<1>9. CommentStands'
  <2> SUFFICES ASSUME mode' = "comment"
               PROVE  \E j \in 1 .. pos' : j <= Len(src) /\ Comment(src, tokens, j, pos' - 1)
    BY <1>1 DEF CommentStands
  <2>1. PICK j \in 1 .. pos : j <= Len(src) /\ Comment(src, tokens, j, pos' - 1)
    BY CommentKept
  <2>2. j \in 1 .. pos'
    BY <1>1, <2>1
  <2> QED BY <2>1, <2>2
<1>10. Accounted'
  BY DEF Accounted, Complained
<1> QED BY <1>3, <1>4, <1>5, <1>7, <1>8, <1>9, <1>10 DEF LexInv

-----------------------------------------------------------------------------
(* Each action keeps the invariant *)

LEMMA RunWalks ==
    ASSUME LexInv, NEW e \in pos .. Len(src) + 1,
           \A j \in pos .. e - 1 : src[j] # "LF", src' = src, Skip(e - pos)
    PROVE  Walk(e - pos) /\ pos' = e /\ e - pos \in Nat
<1>1. Len(src) \in Nat /\ pos \in Nat
  BY PositionFacts
<1>2. pos' = pos + (e - pos)
  BY DEF Skip
<1>3. pos' = e /\ e - pos \in Nat /\ pos + (e - pos) <= Len(src) + 1
      /\ pos + (e - pos) - 1 = e - 1
  BY <1>1, <1>2
<1>4. \A j \in pos .. pos + (e - pos) - 1 : src[j] # "LF"
  BY <1>3, Zenon
<1> QED BY <1>3, <1>4 DEF Walk

LEMMA CharacterWalks ==
    ASSUME LexInv, PeekAt(pos) \notin {"END", "LF"}, src' = src, Skip(1)
    PROVE  Walk(1) /\ pos' = pos + 1 /\ pos <= Len(src) /\ src[pos] = PeekAt(pos)
<1>1. Len(src) \in Nat /\ pos \in Nat \ {0} /\ IsSeq(src)
  BY PositionFacts DEF LexInv, LexShape
<1>2. pos <= Len(src) /\ src[pos] = PeekAt(pos)
  BY <1>1, PeekFacts
<1>3. pos' = pos + 1
  BY DEF Skip
<1>4. \A j \in pos .. pos + 1 - 1 : src[j] # "LF"
  BY <1>1, <1>2
<1>5. pos + 1 <= Len(src) + 1
  BY <1>1, <1>2
<1>6. 1 \in Nat
  OBVIOUS
<1> QED BY <1>2, <1>3, <1>4, <1>5, <1>6 DEF Walk

\* A step along the line that reports nothing and makes no token: its
\* characters are blanks or parts of a comment or of the string.
LEMMA QuietStep ==
    ASSUME LexInv, mode # "done", mode' # "done", NEW n, Walk(n),
           tokens' = tokens, Silent,
           DOMAIN string' = DOMAIN string,
           string'.ok = string.ok \/ string'.ok = TRUE,
           mode = "string" => mode' = "string" /\ string'.from = string.from,
           StringStands', CommentStands',
           \A k \in pos .. pos' - 1 :
               \/ Account(src, tokens, k)
               \/ mode' = "string" /\ k >= string'.from
    PROVE  LexInv'
<1>1. /\ pos \in Nat /\ pos > 0 /\ pos' \in Nat /\ pos' >= pos
      /\ pos' \in 1 .. Len(src') + 1 /\ src' = src /\ IsSeq(src')
      /\ IsSeq(tokens) /\ DOMAIN string = {"line", "col", "from", "bytes", "ok"}
  BY PositionFacts, WalkFacts DEF LexInv, LexShape
<1>2. Complaints' /\ IsSeq(errors')
  BY <1>1, ComplaintsKept
<1>3. LexShape'
  BY <1>1, <1>2 DEF LexShape
<1>4. CursorIsTrue'
  BY CursorWalks
<1>5. TokensStand' /\ TokensInOrder'
  BY <1>1, TokensKept
<1>6. Accounted'
  BY AccountedKept
<1> QED BY <1>2, <1>3, <1>4, <1>5, <1>6 DEF LexInv

LEMMA BlankStep == LexInv /\ LexBlank => LexInv'
<1> SUFFICES ASSUME LexInv, LexBlank PROVE LexInv'
  OBVIOUS
<1>1. /\ mode = "main" /\ PeekAt(pos) \in {" ", "CR"} /\ Skip(1)
      /\ src' = src /\ mode' = mode /\ tokens' = tokens /\ string' = string
      /\ Silent
  BY DEF LexBlank, InMain, NoError, Silent
<1>2. Walk(1) /\ pos' = pos + 1
  BY <1>1, CharacterWalks
<1>3. StringStands' /\ CommentStands'
  BY <1>1 DEF StringStands, CommentStands
<1>4. Account(src, tokens, pos) /\ pos \in Int
  <2>1. src[pos] = PeekAt(pos)
    BY <1>1, CharacterWalks
  <2>2. pos \in Int
    BY PositionFacts
  <2>3. Account(src, tokens, pos)
    BY <1>1, <2>1, Zenon DEF Account
  <2> QED BY <2>2, <2>3
<1>5. \A k \in pos .. pos' - 1 : Account(src, tokens, k)
  BY <1>2, <1>4, OneCharacter, Zenon
<1> QED BY <1>1, <1>2, <1>3, <1>5, QuietStep

LEMMA NewlineStep == LexInv /\ lex_newline => LexInv'
<1> SUFFICES ASSUME LexInv, lex_newline PROVE LexInv'
  OBVIOUS
<1>1. /\ mode = "main" /\ PeekAt(pos) = "LF" /\ mode' = mode
      /\ pos' = pos + 1 /\ line' = line + 1 /\ col' = 1
      /\ src' = src /\ string' = string /\ Silent
      /\ \/ tokens' = tokens
         \/ tokens' = Append(tokens, Token("NEWLINE", <<>>, col + 1, pos))
  BY DEF lex_newline, InMain, NoError, Silent, SkipLineFeed, push_token
<1>2. /\ pos \in Nat \ {0} /\ pos <= Len(src) /\ src[pos] = "LF"
      /\ IsSeq(src) /\ IsSeq(tokens) /\ Len(src) \in Nat /\ Behind(tokens, pos)
  BY <1>1, PositionFacts, PeekFacts DEF LexInv, LexShape
<1> DEFINE t == Token("NEWLINE", <<>>, col + 1, pos)
<1>3. /\ t.type # "MINUS" /\ t.from = pos /\ t.to = pos /\ t.line = line
      /\ t.col = col
  BY DEF Token
<1> HIDE DEF t
<1>4. Wrap(0)
  <2>1. pos + 0 = pos /\ pos + 0 + 1 = pos + 1 /\ 0 \in Nat
    BY <1>2
  <2>2. \A j \in pos .. pos + 0 - 1 : src[j] # "LF"
    BY <1>2
  <2> QED BY <1>1, <1>2, <2>1, <2>2 DEF Wrap
<1>5. CursorIsTrue'
  BY <1>1, <1>3, <1>4, CursorWraps DEF t
<1>6. Complaints' /\ IsSeq(errors') /\ LexShape'
  <2>1. IsSeq(tokens')
    BY <1>1, <1>2, AppendFacts
  <2>2. Complaints' /\ IsSeq(errors')
    BY <1>1, ComplaintsKept DEF LexInv, LexShape
  <2>3. pos' \in 1 .. Len(src') + 1
    BY <1>1, <1>2
  <2> QED BY <1>1, <1>2, <2>1, <2>2, <2>3 DEF LexInv, LexShape
<1>7. pos' \in Nat /\ pos' >= pos /\ mode' # "done" /\ pos' - 1 = pos
  BY <1>1, <1>2
<1>8. StringStands' /\ CommentStands'
  BY <1>1 DEF StringStands, CommentStands
<1>9. CASE tokens' = tokens
  <2>1. TokensStand' /\ TokensInOrder'
    BY <1>1, <1>7, <1>9, TokensKept
  <2>2. Accounted'
    <3> SUFFICES ASSUME ~reported, NEW k \in 1 .. pos
                 PROVE  Account(src, tokens, k)
      BY <1>1, <1>7, <1>9 DEF Accounted, Silent
    <3>1. CASE k = pos
      BY <1>2, <3>1 DEF Account
    <3>2. CASE k \in 1 .. pos - 1
      BY <1>1, <3>2 DEF LexInv, Accounted
    <3> QED BY <1>2, <3>1, <3>2
  <2> QED BY <1>5, <1>6, <1>8, <2>1, <2>2 DEF LexInv
<1>10. CASE tokens' = Append(tokens, t)
  <2>1. Proper(t)
    <3>1. t.from \in 1 .. pos /\ t.to \in 0 .. pos
      BY <1>2, <1>3
    <3>2. t.to \in 0 .. pos' - 1
      BY <1>7, <3>1, Zenon
    <3> QED BY <1>2, <1>3, <3>1, <3>2 DEF Proper, LexInv, CursorIsTrue
  <2>2. TokensStand' /\ TokensInOrder'
    BY <1>1, <1>2, <1>3, <1>7, <1>10, <2>1, TokenPushed
  <2>3. Accounted'
    <3> SUFFICES ASSUME ~reported, NEW k \in 1 .. pos
                 PROVE  Account(src, Append(tokens, t), k)
      BY <1>1, <1>7, <1>10 DEF Accounted, Silent
    <3>1. CASE k = pos
      BY <1>2, <1>3, <3>1, NewlyCovered
    <3>2. CASE k \in 1 .. pos - 1
      <4>1. Account(src, tokens, k)
        BY <1>1, <3>2 DEF LexInv, Accounted
      <4>2. k \in Nat \ {0} /\ t.from \in Nat /\ t.to \in Int /\ k < t.from
        BY <1>2, <1>3, <3>2
      <4> QED BY <1>2, <4>1, <4>2, AccountKept
    <3> QED BY <1>2, <3>1, <3>2
  <2> QED BY <1>5, <1>6, <1>8, <2>2, <2>3 DEF LexInv
<1> QED BY <1>1, <1>9, <1>10 DEF t

LEMMA SingleCharStep == LexInv /\ lex_single_char_token => LexInv'
<1> SUFFICES ASSUME LexInv, lex_single_char_token PROVE LexInv'
  OBVIOUS
<1> DEFINE t == Token(PeekAt(pos), <<>>, col + 1, pos)
<1>1. /\ mode = "main" /\ PeekAt(pos) \in {"[", ",", ":"} /\ Skip(1)
      /\ src' = src /\ mode' = mode /\ string' = string /\ Silent
      /\ tokens' = Append(tokens, t)
  BY DEF lex_single_char_token, InMain, NoError, Silent, push_token
<1>2. /\ t.type # "MINUS" /\ t.from = pos /\ t.to = pos /\ t.line = line
      /\ t.col = col
  BY <1>1 DEF Token
<1> HIDE DEF t
<1>3. Walk(1) /\ pos' = pos + 1 /\ pos \in Nat
  BY <1>1, CharacterWalks, PositionFacts
<1>4. t.to = pos' - 1 /\ 1 > 0
  BY <1>2, <1>3
<1> QED BY <1>1, <1>2, <1>3, <1>4, MainToken

\* What both kinds of number have in common: the characters from the cursor
\* up to n.end are on its line.
LEMMA PushNumberStep ==
    ASSUME LexInv, mode = "main", mode' = mode, src' = src, string' = string,
           NEW n, NEW fits, NEW value, PushNumber(n, fits, value),
           n.end \in pos + 1 .. Len(src) + 1,
           \A j \in pos .. n.end - 1 : src[j] # "LF"
    PROVE  LexInv'
<1> DEFINE t == Token("IMMEDIATE", <<value>>, col + n.end - pos, n.end - 1)
<1>1. /\ Skip(n.end - pos)
      /\ \/ tokens' = Append(tokens, t) /\ Silent
         \/ tokens' = tokens /\ Complained
  BY NumberPushed
<1>2. /\ t.type # "MINUS" /\ t.from = pos /\ t.to = n.end - 1 /\ t.line = line
      /\ t.col = col
  BY DEF Token
<1> HIDE DEF t
<1>3. pos \in Nat /\ Len(src) \in Nat
  BY PositionFacts
<1>4. n.end \in pos .. Len(src) + 1 /\ n.end - pos > 0
  BY <1>3
<1>5. Walk(n.end - pos) /\ pos' = n.end
  BY <1>1, <1>4, RunWalks
<1>6. CASE tokens' = Append(tokens, t) /\ Silent
  BY <1>2, <1>4, <1>5, <1>6, MainToken
<1>7. CASE tokens' = tokens /\ Complained
  BY <1>5, <1>7, ComplaintStep
<1> QED BY <1>1, <1>6, <1>7

LEMMA NumberStep == LexInv /\ lex_number => LexInv'
<1> SUFFICES ASSUME LexInv, lex_number PROVE LexInv'
  OBVIOUS
<1> DEFINE n == parse_number(pos)
<1>1. /\ mode = "main" /\ PeekAt(pos) \in Digits
      /\ PushNumber(n, n.fits, as_signed_bits(n.value))
      /\ src' = src /\ mode' = mode /\ string' = string
  BY DEF lex_number, InMain
<1>2. pos \in Nat \ {0} /\ IsSeq(src)
  BY PositionFacts DEF LexInv, LexShape
<1>3. /\ n.end \in pos + 1 .. Len(src) + 1
      /\ \A j \in pos .. n.end - 1 : src[j] # "LF"
  BY <1>1, <1>2, NumberFacts
<1> HIDE DEF n
<1> QED BY <1>1, <1>3, PushNumberStep

LEMMA MinusStep == LexInv /\ lex_minus_or_negative_number => LexInv'
<1> SUFFICES ASSUME LexInv, lex_minus_or_negative_number PROVE LexInv'
  OBVIOUS
<1>1. /\ mode = "main" /\ PeekAt(pos) = "-"
      /\ src' = src /\ mode' = mode /\ string' = string
  BY DEF lex_minus_or_negative_number, InMain
<1>2. /\ pos \in Nat \ {0} /\ IsSeq(src) /\ IsSeq(tokens) /\ Len(src) \in Nat
      /\ col \in Int /\ Behind(tokens, pos) /\ Before(tokens, pos)
  BY <1>1, PositionFacts DEF LexInv, LexShape
<1>3. pos <= Len(src) /\ src[pos] = "-"
  BY <1>1, <1>2, PeekFacts
<1>4. CASE PeekAt(pos + 1) \in Digits
  <2> DEFINE n == parse_number(pos + 1)
  <2> DEFINE value == as_signed_bits((UINT_MAX + 1 - n.value) % (UINT_MAX + 1))
  <2>1. PushNumber(n, NegativeFits(n), value)
    BY <1>4, Zenon DEF lex_minus_or_negative_number
  <2>2. pos + 1 \in Nat \ {0}
    BY <1>2
  <2>3. /\ n.end \in pos + 1 + 1 .. Len(src) + 1
        /\ \A j \in pos + 1 .. n.end - 1 : src[j] # "LF"
    BY <1>2, <1>4, <2>2, NumberFacts
  <2> HIDE DEF n, value
  <2>4. n.end \in pos + 1 .. Len(src) + 1
    BY <1>2, <2>3
  <2>5. ASSUME NEW j \in pos .. n.end - 1 PROVE src[j] # "LF"
    <3>1. CASE j = pos
      BY <1>3, <3>1
    <3>2. CASE j \in pos + 1 .. n.end - 1
      BY <2>3, <3>2
    <3> QED BY <1>2, <2>4, <3>1, <3>2
  <2> QED BY <1>1, <2>1, <2>4, <2>5, PushNumberStep
<1>5. CASE PeekAt(pos + 1) \notin Digits
  <2> DEFINE t == Token("MINUS", <<>>, col + 1, pos)
  <2>1. /\ pos' = pos + 1 /\ col' = col + 2 /\ line' = line
        /\ tokens' = Append(tokens, t) /\ Silent
    BY <1>5 DEF lex_minus_or_negative_number, push_token, NoError, Silent
  <2>2. /\ t.type = "MINUS" /\ t.from = pos /\ t.to = pos /\ t.line = line
        /\ t.col = col
    BY DEF Token
  <2> HIDE DEF t
  <2>3. /\ LineAt(src, pos + 1) = LineAt(src, pos)
        /\ ColAt(src, pos + 1) = ColAt(src, pos) + 1
    <3>1. \A j \in pos .. (pos + 1) - 1 : src[j] # "LF"
      BY <1>2, <1>3
    <3>2. pos + 1 \in Nat /\ pos <= pos + 1 /\ (pos + 1) - pos = 1
      BY <1>2
    <3> QED BY <1>2, <3>1, <3>2, SameLine
  <2>4. Cardinality(Minuses(src, tokens', pos + 1))
            = Cardinality(Minuses(src, tokens, pos)) + 1
    BY <1>2, <2>1, <2>2, <2>3, MinusesPush
  <2>5. CursorIsTrue'
    <3>1. col = ColAt(src, pos) + Cardinality(Minuses(src, tokens, pos))
      BY DEF LexInv, CursorIsTrue, ColumnAt
    <3>2. ColAt(src, pos) \in Int /\ Cardinality(Minuses(src, tokens, pos)) \in Nat
      BY <1>2, ColInt, MinusesFinite
    <3>3. ColumnAt(src, tokens', pos + 1) = col + 2
      BY <2>3, <2>4, <3>1, <3>2 DEF ColumnAt
    <3> QED BY <1>1, <2>1, <2>3, <3>3 DEF LexInv, CursorIsTrue
  <2>6. Complaints' /\ IsSeq(errors') /\ LexShape'
    <3>1. IsSeq(tokens')
      BY <1>2, <2>1, AppendFacts
    <3>2. Complaints' /\ IsSeq(errors')
      BY <1>1, <2>1, ComplaintsKept DEF LexInv, LexShape
    <3>3. pos' \in 1 .. Len(src') + 1
      BY <1>1, <1>2, <1>3, <2>1
    <3> QED BY <1>1, <1>2, <3>1, <3>2, <3>3 DEF LexInv, LexShape
  <2>7. pos' \in Nat /\ pos' >= pos /\ mode' # "done" /\ pos' - 1 = pos
    BY <1>1, <1>2, <2>1
  <2>8. StringStands' /\ CommentStands'
    BY <1>1 DEF StringStands, CommentStands
  <2>9. Proper(t)
    <3>1. t.from \in 1 .. pos /\ t.to \in 0 .. pos
      BY <1>2, <2>2
    <3>2. t.to \in 0 .. pos' - 1
      BY <2>7, <3>1, Zenon
    <3> QED BY <1>2, <2>2, <3>1, <3>2 DEF Proper, LexInv, CursorIsTrue
  <2>10. TokensStand' /\ TokensInOrder'
    BY <1>1, <1>2, <2>1, <2>2, <2>7, <2>9, TokenPushed
  <2>11. Accounted'
    <3> SUFFICES ASSUME ~reported, NEW k \in 1 .. pos
                 PROVE  Account(src, Append(tokens, t), k)
      BY <1>1, <2>1, <2>7 DEF Accounted, Silent
    <3>1. CASE k = pos
      BY <1>2, <2>2, <3>1, NewlyCovered
    <3>2. CASE k \in 1 .. pos - 1
      <4>1. Account(src, tokens, k)
        BY <1>1, <3>2 DEF LexInv, Accounted
      <4>2. k \in Nat \ {0} /\ t.from \in Nat /\ t.to \in Int /\ k < t.from
        BY <1>2, <2>2, <3>2
      <4> QED BY <1>2, <4>1, <4>2, AccountKept
    <3> QED BY <1>2, <3>1, <3>2
  <2> QED BY <2>5, <2>6, <2>8, <2>10, <2>11 DEF LexInv
<1> QED BY <1>4, <1>5

LEMMA IdentCharsFacts ==
    "LF" \notin IdentChars /\ "END" \notin IdentChars
  BY LettersAssumption DEF IdentChars, Digits

LEMMA DirectiveStep == LexInv /\ lex_directive => LexInv'
<1> SUFFICES ASSUME LexInv, lex_directive PROVE LexInv'
  OBVIOUS
<1> DEFINE end == RunEnd(pos + 1, IdentChars)
<1> DEFINE t == Token("DIRECTIVE", SubSeq(src, pos, end - 1), col + end - pos,
                      end - 1)
<1>1. /\ mode = "main" /\ PeekAt(pos) = "." /\ Skip(end - pos)
      /\ src' = src /\ mode' = mode /\ string' = string /\ Silent
      /\ tokens' = Append(tokens, t)
  BY DEF lex_directive, InMain, NoError, Silent, push_token
<1>2. /\ t.type # "MINUS" /\ t.from = pos /\ t.to = end - 1 /\ t.line = line
      /\ t.col = col
  BY DEF Token
<1> HIDE DEF t
<1>3. pos \in Nat \ {0} /\ IsSeq(src) /\ Len(src) \in Nat
  BY PositionFacts DEF LexInv, LexShape
<1>4. pos <= Len(src) /\ src[pos] = "."
  BY <1>1, <1>3, PeekFacts
<1>5. /\ end \in pos + 1 .. Len(src) + 1
      /\ \A j \in pos + 1 .. end - 1 : src[j] \in IdentChars
  <2>1. pos + 1 \in Nat \ {0} /\ pos + 1 <= Len(src) + 1
    BY <1>3, <1>4
  <2> QED BY <1>3, <2>1, IdentCharsFacts, RunEndFacts
<1> HIDE DEF end
<1>6. ASSUME NEW j \in pos .. end - 1 PROVE src[j] # "LF"
  <2>1. CASE j = pos
    BY <1>4, <2>1
  <2>2. CASE j \in pos + 1 .. end - 1
    BY <1>5, <2>2, IdentCharsFacts
  <2> QED BY <1>3, <1>5, <2>1, <2>2
<1>7. end \in pos .. Len(src) + 1 /\ end - pos > 0
  BY <1>3, <1>5
<1>8. Walk(end - pos) /\ pos' = end
  BY <1>1, <1>6, <1>7, RunWalks
<1>9. t.to = pos' - 1
  BY <1>2, <1>8
<1> QED BY <1>1, <1>2, <1>7, <1>8, <1>9, MainToken

LEMMA IdentifierStep == LexInv /\ lex_identifier => LexInv'
<1> SUFFICES ASSUME LexInv, lex_identifier PROVE LexInv'
  OBVIOUS
<1> DEFINE end   == RunEnd(pos, IdentChars)
           word  == SubSeq(src, pos, end - 1)
           after == col + end - pos
           label == PeekAt(end) = ":"
           type  == CASE label -> "LABEL_DEF"
                      [] ~label /\ word \in Mnemonics -> "MNEMONIC"
                      [] ~label /\ word \in Registers \ Mnemonics -> "REGISTER"
                      [] OTHER -> "LABEL_REF"
           reserved == has_reserved_register_prefix(word)
           t == Token(type, word, after, IF label THEN end ELSE end - 1)
<1>1. /\ mode = "main" /\ PeekAt(pos) \in Letters
      /\ Skip(IF label THEN end - pos + 1 ELSE end - pos)
      /\ src' = src /\ mode' = mode /\ string' = string
      /\ tokens' = Append(tokens, t)
      /\ IF reserved /\ (label \/ (type = "LABEL_REF" /\ word \notin Tolerated))
         THEN error_add_span(line, col, after) ELSE NoError
  BY Zenon DEF lex_identifier, InMain, push_token
<1>2. Silent \/ Complained
  BY <1>1, ErrorComplains, SilentNoError, Zenon
<1>3. type # "MINUS"
  <2> HIDE DEF word, label, end
  <2> QED OBVIOUS
<1>4. /\ t.type # "MINUS" /\ t.from = pos /\ t.line = line /\ t.col = col
      /\ t.to = IF label THEN end ELSE end - 1
  <2> HIDE DEF type, word, after, label, end
  <2> QED BY <1>3 DEF Token
<1> HIDE DEF t, type, word, after, reserved
<1>5. pos \in Nat \ {0} /\ IsSeq(src) /\ Len(src) \in Nat
  BY PositionFacts DEF LexInv, LexShape
<1>6. pos <= Len(src) /\ src[pos] \in Letters
  BY <1>1, <1>5, PeekFacts, LettersAssumption
<1>7. /\ end \in pos .. Len(src) + 1 /\ PeekAt(end) \notin IdentChars
      /\ \A j \in pos .. end - 1 : src[j] \in IdentChars
  <2>1. pos <= Len(src) + 1
    BY <1>5, <1>6
  <2> QED BY <1>5, <2>1, IdentCharsFacts, RunEndFacts
<1>8. end # pos
  BY <1>1, <1>7 DEF IdentChars
<1> DEFINE e == IF label THEN end + 1 ELSE end
<1>9. /\ e \in pos .. Len(src) + 1 /\ e - pos > 0 /\ t.to = e - 1
      /\ Skip(e - pos)
      /\ \A j \in pos .. e - 1 : src[j] # "LF"
  <2> HIDE DEF end
  <2>0. end \in Int /\ end > pos
    BY <1>5, <1>7, <1>8
  <2>1. CASE label
    <3>1. end <= Len(src) /\ src[end] = ":"
      <4>1. end \in Nat \ {0} /\ PeekAt(end) # "END"
        BY <1>5, <2>0, <2>1
      <4> QED BY <1>5, <2>1, <4>1, PeekFacts
    <3>2. e = end + 1 /\ e - pos = end - pos + 1 /\ e - 1 = end
      BY <1>5, <2>0, <2>1
    <3>3. Skip(e - pos)
      BY <1>1, <2>1, <3>2, Zenon
    <3>4. ASSUME NEW j \in pos .. end PROVE src[j] # "LF"
      <4>1. CASE j = end
        BY <3>1, <4>1
      <4>2. CASE j \in pos .. end - 1
        BY <1>7, <4>2, IdentCharsFacts
      <4> QED BY <1>5, <2>0, <4>1, <4>2
    <3>5. e \in pos .. Len(src) + 1 /\ e - pos > 0 /\ t.to = e - 1
      BY <1>4, <1>5, <2>0, <2>1, <3>1, <3>2
    <3> QED BY <3>2, <3>3, <3>4, <3>5
  <2>2. CASE ~label
    <3>1. e = end
      BY <2>2
    <3>2. Skip(e - pos)
      BY <1>1, <2>2, <3>1, Zenon
    <3>3. e \in pos .. Len(src) + 1 /\ e - pos > 0 /\ t.to = e - 1
      BY <1>4, <1>5, <1>7, <2>0, <2>2, <3>1
    <3>4. \A j \in pos .. end - 1 : src[j] # "LF"
      BY <1>7, IdentCharsFacts
    <3> QED BY <3>1, <3>2, <3>3, <3>4
  <2> QED BY <2>1, <2>2
<1> HIDE DEF e, end, label
<1>10. Walk(e - pos) /\ pos' = e
  BY <1>1, <1>9, RunWalks
<1>11. t.to = pos' - 1
  BY <1>9, <1>10
<1> QED BY <1>1, <1>2, <1>4, <1>9, <1>10, <1>11, MainToken

LEMMA IllFormedStep == LexInv /\ lex_ill_formed_utf8 => LexInv'
<1> SUFFICES ASSUME LexInv, lex_ill_formed_utf8 PROVE LexInv'
  OBVIOUS
<1> DEFINE end == RunEnd(pos, {"BAD"})
<1>1. /\ mode # "done" /\ PeekAt(pos) = "BAD" /\ Skip(end - pos)
      /\ error_add_span(line, col, col + end - pos)
      /\ string' = [string EXCEPT !.ok = string.ok /\ mode # "string"]
      /\ src' = src /\ mode' = mode /\ tokens' = tokens
  BY DEF lex_ill_formed_utf8
<1>2. Complained
  BY <1>1, ErrorComplains
<1>3. /\ DOMAIN string' = DOMAIN string /\ string'.from = string.from
      /\ string'.line = string.line /\ string'.col = string.col
  BY <1>1
<1>4. pos \in Nat \ {0} /\ IsSeq(src) /\ pos <= Len(src) + 1
  BY PositionFacts DEF LexInv, LexShape
<1>5. /\ end \in pos .. Len(src) + 1
      /\ \A j \in pos .. end - 1 : src[j] \in {"BAD"}
  BY <1>4, RunEndFacts
<1> HIDE DEF end
<1>6. \A j \in pos .. end - 1 : src[j] # "LF"
  BY <1>5
<1>7. Walk(end - pos)
  BY <1>1, <1>5, <1>6, RunWalks
<1> QED BY <1>1, <1>2, <1>3, <1>7, ComplaintStep

LEMMA UnknownStep == LexInv /\ LexUnknown => LexInv'
<1> SUFFICES ASSUME LexInv, LexUnknown PROVE LexInv'
  OBVIOUS
<1>1. /\ mode = "main" /\ PeekAt(pos) \notin {"END", "LF"} /\ Skip(1)
      /\ error_add_span(line, col, col + 1)
      /\ src' = src /\ mode' = mode /\ tokens' = tokens /\ string' = string
  BY DEF LexUnknown, InMain, Unknown
<1>2. Complained
  BY <1>1, ErrorComplains
<1>3. Walk(1)
  BY <1>1, CharacterWalks
<1> QED BY <1>1, <1>2, <1>3, ComplaintStep

LEMMA StillWalks ==
    ASSUME LexInv, src' = src, pos' = pos, line' = line, col' = col
    PROVE  Walk(0)
<1>1. pos \in Nat /\ pos <= Len(src) + 1 /\ col \in Int /\ Len(src) \in Nat
  BY PositionFacts
<1>2. pos + 0 = pos /\ col + 0 = col /\ 0 \in Nat
  BY <1>1
<1>3. \A j \in pos .. pos + 0 - 1 : src[j] # "LF"
  BY <1>1
<1> QED BY <1>1, <1>2, <1>3 DEF Walk, Skip

LEMMA StartCommentStep == LexInv /\ StartComment => LexInv'
<1> SUFFICES ASSUME LexInv, StartComment PROVE LexInv'
  OBVIOUS
<1>0. mode = "main"
  BY Zenon DEF StartComment, InMain
<1>1. /\ mode = "main" /\ PeekAt(pos) = ";" /\ mode' = "comment"
      /\ src' = src /\ pos' = pos /\ line' = line /\ col' = col
      /\ tokens' = tokens /\ string' = string /\ Silent
  BY DEF StartComment, InMain, NoError, Silent
<1>2. Walk(0)
  BY <1>1, StillWalks
<1>3. pos \in Nat \ {0} /\ IsSeq(src) /\ Behind(tokens, pos)
  BY <1>0, PositionFacts DEF LexInv, LexShape
<1>4. CommentStands'
  <2>1. pos <= Len(src) /\ src[pos] = PeekAt(pos)
    BY <1>1, <1>3, PeekFacts, Zenon
  <2>2. ~CoveredBy(tokens, pos)
    BY <1>3 DEF CoveredBy, Behind
  <2>3. pos \in 1 .. pos /\ \A i \in pos .. pos - 1 : src[i] # "LF"
    BY <1>3
  <2>4. Comment(src, tokens, pos, pos - 1)
    BY <1>1, <2>1, <2>2, <2>3, Zenon DEF Comment
  <2> QED BY <1>1, <2>1, <2>3, <2>4, Zenon DEF CommentStands
<1>5. StringStands'
  BY <1>1 DEF StringStands
<1>6. \A k \in pos .. pos - 1 : FALSE
  BY <1>3
<1>7. /\ DOMAIN string' = DOMAIN string /\ string'.ok = string.ok
      /\ mode # "string" /\ mode # "done" /\ mode' # "done"
  BY <1>1
<1> QED BY <1>1, <1>2, <1>4, <1>5, <1>6, <1>7, QuietStep

LEMMA SkipCommentStep == LexInv /\ SkipComment => LexInv'
<1> SUFFICES ASSUME LexInv, SkipComment PROVE LexInv'
  OBVIOUS
<1>1. /\ mode = "comment" /\ PeekAt(pos) \notin {"END", "LF"} /\ mode' = mode
      /\ Skip(1) /\ src' = src /\ tokens' = tokens /\ string' = string
      /\ Silent
  BY DEF SkipComment, NoError, Silent
<1>2. Walk(1) /\ pos' = pos + 1
  BY <1>1, CharacterWalks
<1>3. pos \in Nat /\ pos \in Int /\ pos > 0
  BY PositionFacts
<1>4. PICK j \in 1 .. pos : j <= Len(src) /\ Comment(src, tokens, j, pos' - 1)
  BY <1>1, <1>2, CommentKept
<1>5. CommentStands'
  <2>1. j \in 1 .. pos'
    <3>1. j \in 1 .. pos + 1
      BY <1>3, <1>4
    <3> QED BY <1>2, <3>1
  <2> QED BY <1>1, <1>4, <2>1 DEF CommentStands
<1>6. StringStands'
  BY <1>1 DEF StringStands
<1>7. Account(src, tokens, pos)
  <2>1. pos' - 1 = pos
    BY <1>2, <1>3
  <2>2. Comment(src, tokens, j, pos)
    BY <1>4, <2>1, Zenon
  <2>3. CommentAt(src, tokens, pos)
    BY <1>4, <2>2 DEF CommentAt
  <2> QED BY <2>3, Zenon DEF Account
<1>8. \A k \in pos .. pos' - 1 : Account(src, tokens, k)
  BY <1>2, <1>3, <1>7, OneCharacter, Zenon
<1>9. /\ DOMAIN string' = DOMAIN string /\ string'.ok = string.ok
      /\ mode # "string" /\ mode # "done" /\ mode' # "done"
  BY <1>1
<1> QED BY <1>1, <1>2, <1>5, <1>6, <1>8, <1>9, QuietStep

LEMMA EndCommentStep == LexInv /\ EndComment => LexInv'
<1> SUFFICES ASSUME LexInv, EndComment PROVE LexInv'
  OBVIOUS
<1>1. /\ mode = "comment" /\ mode' = "main"
      /\ src' = src /\ pos' = pos /\ line' = line /\ col' = col
      /\ tokens' = tokens /\ string' = string /\ Silent
  BY DEF EndComment, NoError, Silent
<1>2. Walk(0)
  BY <1>1, StillWalks
<1>3. pos \in Nat
  BY PositionFacts
<1>4. CommentStands' /\ StringStands'
  BY <1>1 DEF CommentStands, StringStands
<1>5. \A k \in pos .. pos - 1 : FALSE
  BY <1>3
<1>6. /\ DOMAIN string' = DOMAIN string /\ string'.ok = string.ok
      /\ mode # "string" /\ mode # "done" /\ mode' # "done"
  BY <1>1
<1> QED BY <1>1, <1>2, <1>4, <1>5, <1>6, QuietStep

LEMMA StartStringStep == LexInv /\ StartString => LexInv'
<1> SUFFICES ASSUME LexInv, StartString PROVE LexInv'
  OBVIOUS
<1>1. /\ mode = "main" /\ PeekAt(pos) \notin {"END", "LF"} /\ mode' = "string"
      /\ Skip(1) /\ src' = src /\ tokens' = tokens /\ Silent
      /\ string' = [line |-> line, col |-> col, from |-> pos, bytes |-> <<>>,
                    ok |-> TRUE]
  BY DEF StartString, InMain, NoError, Silent
<1>2. Walk(1) /\ pos' = pos + 1
  BY <1>1, CharacterWalks
<1>3. pos \in Nat /\ pos \in Int /\ pos > 0 /\ Behind(tokens, pos)
  BY <1>1, PositionFacts
<1>4. /\ DOMAIN string' = DOMAIN string /\ string'.ok = TRUE
      /\ string'.from = pos /\ string'.line = line /\ string'.col = col
  BY <1>1 DEF LexInv, LexShape
<1>5. StringStands'
  <2>1. pos \in 1 .. pos' - 1
    <3>1. pos' - 1 = pos /\ pos \in 1 .. pos
      BY <1>2, <1>3
    <3> QED BY <3>1, Zenon
  <2>2. \A n \in DOMAIN tokens : tokens[n].from < pos /\ tokens[n].to < pos
    BY <1>3 DEF Behind
  <2> QED BY <1>1, <1>4, <2>1, <2>2 DEF StringStands, LexInv, CursorIsTrue
<1>6. CommentStands'
  BY <1>1 DEF CommentStands
<1>7. pos >= string'.from
  BY <1>3, <1>4
<1>8. \A k \in pos .. pos' - 1 : k >= string'.from
  BY <1>2, <1>3, <1>7, OneCharacter, Zenon
<1>9. mode # "string" /\ mode # "done" /\ mode' # "done"
  BY <1>1
<1> QED BY <1>1, <1>2, <1>4, <1>5, <1>6, <1>8, <1>9, QuietStep

LEMMA EndStringStep == LexInv /\ EndString => LexInv'
<1> SUFFICES ASSUME LexInv, EndString PROVE LexInv'
  OBVIOUS
<1> DEFINE t == [type |-> "STRING", value |-> string.bytes,
                 line |-> string.line, col |-> string.col,
                 end_col |-> col + 1, from |-> string.from, to |-> pos]
<1>1. /\ mode = "string" /\ PeekAt(pos) \notin {"END", "LF"} /\ mode' = "main"
      /\ Skip(1) /\ src' = src /\ string' = string /\ Silent
      /\ IF string.ok THEN tokens' = Append(tokens, t) ELSE tokens' = tokens
  BY DEF EndString, NoError, Silent, push_token
<1>2. /\ t.type # "MINUS" /\ t.from = string.from /\ t.to = pos
      /\ t.line = string.line /\ t.col = string.col
  OBVIOUS
<1> HIDE DEF t
<1>3. Walk(1) /\ pos' = pos + 1
  BY <1>1, CharacterWalks
<1>4. /\ pos \in Nat /\ pos \in Int /\ pos > 0 /\ IsSeq(tokens)
      /\ Behind(tokens, pos)
  BY <1>1, PositionFacts DEF LexInv, LexShape
<1>5. /\ pos' \in Nat /\ pos' >= pos /\ pos' \in 1 .. Len(src') + 1
      /\ IsSeq(src')
  BY <1>3, WalkFacts
<1>6. tokens' = tokens \/ tokens' = Append(tokens, t)
  BY <1>1
<1>7. CursorIsTrue'
  BY <1>1, <1>2, <1>3, <1>6, CursorWalks
<1>8. IsSeq(tokens')
  BY <1>4, <1>6, AppendFacts
<1>9. Complaints' /\ IsSeq(errors')
  BY <1>1, ComplaintsKept DEF LexInv, LexShape
<1>10. LexShape'
  BY <1>1, <1>5, <1>8, <1>9 DEF LexInv, LexShape
<1>11. StringStands' /\ CommentStands'
  BY <1>1 DEF StringStands, CommentStands
<1>12. /\ string.from \in 1 .. pos - 1
       /\ string.line = LineAt(src, string.from)
       /\ string.col = ColumnAt(src, tokens, string.from)
       /\ \A n \in DOMAIN tokens : /\ tokens[n].from < string.from
                                   /\ tokens[n].to < string.from
  BY <1>1 DEF LexInv, StringStands
<1>13. CASE string.ok
  <2>1. tokens' = Append(tokens, t)
    BY <1>1, <1>13
  <2>2. Proper(t)
    <3>1. t.from \in 1 .. pos /\ t.to \in 0 .. pos
      BY <1>2, <1>4, <1>12
    <3>2. pos' - 1 = pos
      BY <1>3, <1>4
    <3>3. t.to \in 0 .. pos' - 1
      BY <3>1, <3>2, Zenon
    <3>4. Behind(tokens, t.from)
      BY <1>2, <1>4, <1>12 DEF Behind
    <3> QED BY <1>2, <1>12, <3>1, <3>3, <3>4 DEF Proper
  <2>3. t.from < pos'
    BY <1>2, <1>3, <1>4, <1>12
  <2>4. TokensStand' /\ TokensInOrder'
    BY <1>1, <1>5, <2>1, <2>2, <2>3, TokenPushed
  <2>5. Accounted'
    <3>0. pos' - 1 = pos
      BY <1>3, <1>4
    <3> SUFFICES ASSUME ~reported, NEW k \in 1 .. pos
                 PROVE  Account(src, Append(tokens, t), k)
      BY <1>1, <2>1, <3>0 DEF Accounted, Silent
    <3>1. CASE k >= string.from
      <4>1. k \in t.from .. t.to
        BY <1>2, <1>4, <1>12, <3>1
      <4> QED BY <1>4, <4>1, NewlyCovered
    <3>2. CASE ~(k >= string.from)
      <4>1. k \in 1 .. pos - 1
        BY <1>4, <1>12, <3>2
      <4>2. Account(src, tokens, k)
        BY <3>2, <4>1 DEF LexInv, Accounted
      <4>3. k \in Nat \ {0} /\ t.from \in Nat /\ t.to \in Int /\ k < t.from
        BY <1>2, <1>4, <1>12, <3>2
      <4> QED BY <1>4, <4>2, <4>3, AccountKept
    <3> QED BY <3>1, <3>2
  <2> QED BY <1>7, <1>9, <1>10, <1>11, <2>4, <2>5 DEF LexInv
<1>14. CASE ~string.ok
  <2>1. tokens' = tokens
    BY <1>1, <1>14
  <2>2. TokensStand' /\ TokensInOrder'
    BY <1>1, <1>5, <2>1, TokensKept
  <2>3. reported'
    BY <1>1, <1>14 DEF LexInv, Complaints, Silent
  <2>4. Accounted'
    BY <2>3 DEF Accounted
  <2> QED BY <1>7, <1>9, <1>10, <1>11, <2>2, <2>4 DEF LexInv
<1> QED BY <1>13, <1>14

LEMMA UnclosedStringStep == LexInv /\ UnclosedString => LexInv'
<1> SUFFICES ASSUME LexInv, UnclosedString PROVE LexInv'
  OBVIOUS
<1>1. /\ mode = "string" /\ mode' = "main"
      /\ error_add_span(string.line, string.col, col)
      /\ src' = src /\ pos' = pos /\ line' = line /\ col' = col
      /\ tokens' = tokens /\ string' = string
  BY DEF UnclosedString
<1>2. Complained
  BY <1>1, ErrorComplains
<1>3. Walk(0)
  BY <1>1, StillWalks
<1> QED BY <1>1, <1>2, <1>3, ComplaintStep

\* A step inside a string that reports nothing.
LEMMA InsideStep ==
    ASSUME LexInv, mode = "string", mode' = mode, NEW n, Walk(n),
           tokens' = tokens, Silent,
           DOMAIN string' = DOMAIN string, string'.from = string.from,
           string'.line = string.line, string'.col = string.col,
           string'.ok = string.ok
    PROVE  LexInv'
<1>1. pos \in Nat /\ pos' \in Nat /\ pos' >= pos /\ src' = src
  BY PositionFacts, WalkFacts
<1>2. /\ string.from \in 1 .. pos - 1
      /\ string.line = LineAt(src, string.from)
      /\ string.col = ColumnAt(src, tokens, string.from)
      /\ \A m \in DOMAIN tokens : /\ tokens[m].from < string.from
                                  /\ tokens[m].to < string.from
  BY DEF LexInv, StringStands
<1>3. string.from \in 1 .. pos' - 1
  BY <1>1, <1>2
<1>4. StringStands'
  BY <1>1, <1>2, <1>3 DEF StringStands
<1>5. CommentStands'
  BY DEF CommentStands
<1>6. \A k \in pos .. pos' - 1 : k >= string.from
  BY <1>1, <1>2
<1>7. mode # "done" /\ mode' # "done" /\ mode' = "string"
  OBVIOUS
<1> QED BY <1>4, <1>5, <1>6, <1>7, QuietStep

LEMMA StringCharacterStep == LexInv /\ StringCharacter => LexInv'
<1> SUFFICES ASSUME LexInv, StringCharacter PROVE LexInv'
  OBVIOUS
<1>1. /\ mode = "string" /\ PeekAt(pos) \notin {"END", "LF"} /\ mode' = mode
      /\ Skip(1) /\ src' = src /\ tokens' = tokens /\ Silent
      /\ string' = [string EXCEPT !.bytes = Append(string.bytes, PeekAt(pos))]
  BY DEF StringCharacter, NoError, Silent
<1>2. Walk(1)
  BY <1>1, CharacterWalks
<1>3. /\ DOMAIN string' = DOMAIN string /\ string'.from = string.from
      /\ string'.line = string.line /\ string'.col = string.col
      /\ string'.ok = string.ok
  BY <1>1
<1> QED BY <1>1, <1>2, <1>3, InsideStep

\* An escaped line feed: reported, and the cursor goes on to the next line.
LEMMA EscapedLineFeed ==
    ASSUME LexInv, mode = "string", mode' = mode, Wrap(1), tokens' = tokens,
           Complained, string' = [string EXCEPT !.ok = FALSE]
    PROVE  LexInv'
<1>1. /\ pos \in Nat /\ pos > 0 /\ Len(src) \in Nat /\ IsSeq(src) /\ IsSeq(tokens)
      /\ DOMAIN string = {"line", "col", "from", "bytes", "ok"}
  BY PositionFacts DEF LexInv, LexShape
<1>2. pos' = pos + 1 + 1 /\ src' = src /\ pos + 1 <= Len(src)
  BY DEF Wrap
<1>3. pos' \in Nat /\ pos' >= pos /\ pos' \in 1 .. Len(src) + 1
  BY <1>1, <1>2
<1>4. /\ DOMAIN string' = DOMAIN string /\ string'.from = string.from
      /\ string'.line = string.line /\ string'.col = string.col
  OBVIOUS
<1>5. Complaints' /\ IsSeq(errors')
  BY <1>1, <1>4, ComplaintsKept
<1>6. LexShape'
  BY <1>1, <1>2, <1>3, <1>4, <1>5 DEF LexShape
<1>7. CursorIsTrue'
  BY CursorWraps
<1>8. TokensStand' /\ TokensInOrder'
  BY <1>2, <1>3, TokensKept
<1>9. StringStands'
  <2>1. /\ string.from \in 1 .. pos - 1
        /\ string.line = LineAt(src, string.from)
        /\ string.col = ColumnAt(src, tokens, string.from)
        /\ \A m \in DOMAIN tokens : /\ tokens[m].from < string.from
                                    /\ tokens[m].to < string.from
    BY DEF LexInv, StringStands
  <2>2. string.from \in 1 .. pos' - 1
    BY <1>1, <1>2, <2>1
  <2> QED BY <1>2, <1>4, <2>1, <2>2 DEF StringStands
<1>10. CommentStands' /\ Accounted'
  BY DEF CommentStands, Accounted, Complained
<1> QED BY <1>5, <1>6, <1>7, <1>8, <1>9, <1>10 DEF LexInv

LEMMA StringEscapeStep == LexInv /\ StringEscape => LexInv'
<1> SUFFICES ASSUME LexInv, StringEscape PROVE LexInv'
  OBVIOUS
<1> DEFINE esc == PeekAt(pos + 1)
<1>1. mode = "string" /\ src' = src /\ tokens' = tokens
  BY Zenon DEF StringEscape
<1>2. PeekAt(pos) \notin {"END", "LF"}
  BY Zenon DEF StringEscape
<1>3. pos \in Nat \ {0} /\ IsSeq(src) /\ Len(src) \in Nat
  BY PositionFacts DEF LexInv, LexShape
<1>4. pos <= Len(src) /\ src[pos] # "LF"
  BY <1>2, <1>3, PeekFacts
<1>5. CASE esc = "END"
  <2>1. /\ mode' = "main" /\ Skip(1) /\ string' = string
        /\ error_add_span(string.line, string.col, col + 1)
    BY <1>5, Zenon DEF StringEscape
  <2>2. Complained
    BY <2>1, ErrorComplains
  <2>3. Walk(1)
    BY <1>1, <1>2, <2>1, CharacterWalks
  <2> QED BY <1>1, <2>1, <2>2, <2>3, ComplaintStep
<1>6. CASE esc # "END"
  <2>1. /\ mode' = mode
        /\ IF esc = "LF" THEN pos' = pos + 2 /\ line' = line + 1 /\ col' = 1
           ELSE Skip(2)
        /\ IF esc \in Escapes
           THEN /\ string' = [string EXCEPT !.bytes = Append(@, EscapeByte(esc))]
                /\ NoError
           ELSE /\ string' = [string EXCEPT !.ok = FALSE]
                /\ error_add_span(line, col + 1, col + 2)
    BY <1>6, Zenon DEF StringEscape
  <2>2. pos + 1 <= Len(src) /\ src[pos + 1] = esc
    BY <1>3, <1>6, PeekFacts
  <2>3. CASE esc = "LF"
    <3>1. esc \notin Escapes
      BY <2>3, Zenon DEF Escapes
    <3>2. string' = [string EXCEPT !.ok = FALSE] /\ error_add_span(line, col + 1, col + 2)
      BY <2>1, <3>1, Zenon
    <3>3. Complained
      BY <3>2, ErrorComplains
    <3>4. Wrap(1)
      <4>1. pos' = pos + 1 + 1 /\ line' = line + 1 /\ col' = 1
        BY <1>3, <2>1, <2>3
      <4>2. \A j \in pos .. pos + 1 - 1 : src[j] # "LF"
        BY <1>3, <1>4
      <4> QED BY <1>1, <2>2, <2>3, <4>1, <4>2 DEF Wrap
    <3> QED BY <1>1, <2>1, <3>2, <3>3, <3>4, EscapedLineFeed
  <2>4. CASE esc # "LF"
    <3>1. Walk(2)
      <4>1. Skip(2)
        BY <2>1, <2>4, Zenon
      <4>2. pos + 2 <= Len(src) + 1 /\ 2 \in Nat
        BY <1>3, <2>2
      <4>3. ASSUME NEW j \in pos .. pos + 2 - 1 PROVE src[j] # "LF"
        <5>1. j = pos \/ j = pos + 1
          BY <1>3
        <5> QED BY <1>4, <2>2, <2>4, <5>1
      <4> QED BY <1>1, <4>1, <4>2, <4>3 DEF Walk
    <3>2. CASE esc \in Escapes
      <4> DEFINE b == Append(string.bytes, EscapeByte(esc))
      <4>1. string' = [string EXCEPT !.bytes = b] /\ NoError
        BY <2>1, <3>2, Zenon
      <4> HIDE DEF b
      <4>2. /\ DOMAIN string' = DOMAIN string /\ string'.from = string.from
            /\ string'.line = string.line /\ string'.col = string.col
            /\ string'.ok = string.ok
        BY <4>1
      <4>3. Silent
        BY <4>1, SilentNoError
      <4> QED BY <1>1, <2>1, <3>1, <4>2, <4>3, InsideStep
    <3>3. CASE esc \notin Escapes
      <4>1. string' = [string EXCEPT !.ok = FALSE] /\ error_add_span(line, col + 1, col + 2)
        BY <2>1, <3>3, Zenon
      <4>2. Complained
        BY <4>1, ErrorComplains
      <4>3. /\ DOMAIN string' = DOMAIN string /\ string'.from = string.from
            /\ string'.line = string.line /\ string'.col = string.col
        BY <4>1
      <4> QED BY <1>1, <2>1, <3>1, <4>2, <4>3, ComplaintStep
    <3> QED BY <3>2, <3>3
  <2> QED BY <2>3, <2>4
<1> QED BY <1>5, <1>6

LEMMA EofStep == LexInv /\ LexEof => LexInv'
<1> SUFFICES ASSUME LexInv, LexEof PROVE LexInv'
  OBVIOUS
<1> DEFINE t == Token("EOF", <<>>, col, pos - 1)
<1>1. /\ mode = "main" /\ pos > Len(src) /\ mode' = "done"
      /\ src' = src /\ pos' = pos /\ line' = line /\ col' = col
      /\ string' = string /\ tokens' = Append(tokens, t) /\ Silent
  BY DEF LexEof, at_end, push_token, NoError, Silent
<1>2. /\ t.type # "MINUS" /\ t.from = pos /\ t.to = pos - 1 /\ t.line = line
      /\ t.col = col
  BY DEF Token
<1> HIDE DEF t
<1>3. /\ pos \in Nat /\ pos > 0 /\ pos <= Len(src) + 1 /\ Len(src) \in Nat
      /\ IsSeq(src) /\ IsSeq(tokens) /\ Behind(tokens, pos)
  BY <1>1, PositionFacts DEF LexInv, LexShape
<1>4. Walk(0)
  BY <1>1, StillWalks
<1>5. CursorIsTrue'
  BY <1>1, <1>2, <1>4, CursorWalks
<1>6. Complaints' /\ IsSeq(errors')
  BY <1>1, ComplaintsKept DEF LexInv, LexShape
<1>7. LexShape'
  <2>1. IsSeq(tokens')
    BY <1>1, <1>3, AppendFacts
  <2>2. pos = Len(src) + 1 /\ pos \in 1 .. Len(src) + 1
    BY <1>1, <1>3
  <2> QED BY <1>1, <1>3, <1>6, <2>1, <2>2 DEF LexInv, LexShape
<1>8. Proper(t)
  <2>1. t.from \in 1 .. pos /\ t.to \in 0 .. pos - 1
    BY <1>2, <1>3
  <2> QED BY <1>1, <1>2, <1>3, <2>1 DEF Proper, LexInv, CursorIsTrue
<1>9. TokensStand' /\ TokensInOrder'
  <2>1. pos' \in Nat /\ pos' >= pos
    BY <1>1, <1>3
  <2> QED BY <1>1, <1>8, <2>1, TokenPushed
<1>10. StringStands' /\ CommentStands'
  BY <1>1 DEF StringStands, CommentStands
<1>11. Accounted'
  <2> SUFFICES ASSUME ~reported, NEW k \in 1 .. pos - 1
               PROVE  Account(src, Append(tokens, t), k)
    BY <1>1 DEF Accounted, Silent
  <2>1. Account(src, tokens, k)
    BY <1>1 DEF LexInv, Accounted
  <2>2. k \in Nat \ {0} /\ t.from \in Nat /\ t.to \in Int /\ k < t.from
    BY <1>2, <1>3
  <2> QED BY <1>3, <2>1, <2>2, AccountKept
<1> QED BY <1>5, <1>6, <1>7, <1>9, <1>10, <1>11 DEF LexInv

LEMMA LexUnchanged == LexInv /\ UNCHANGED vars => LexInv'
  BY DEF vars, LexInv, LexShape, CursorIsTrue, TokensStand, TokensInOrder,
         StringStands, CommentStands, Complaints, Accounted

LEMMA LexNext == LexInv /\ [Next]_vars => LexInv'
<1> SUFFICES ASSUME LexInv, [Next]_vars PROVE LexInv'
  OBVIOUS
<1>1. CASE UNCHANGED vars
  BY <1>1, LexUnchanged
<1>2. CASE Next
  BY <1>2, BlankStep, NewlineStep, SingleCharStep, MinusStep, NumberStep,
     DirectiveStep, IdentifierStep, IllFormedStep, UnknownStep,
     StartCommentStep, SkipCommentStep, EndCommentStep, StartStringStep,
     EndStringStep, UnclosedStringStep, StringEscapeStep, StringCharacterStep,
     EofStep, LexUnchanged DEF Next, Terminated
<1> QED BY <1>1, <1>2

-----------------------------------------------------------------------------
(* The invariant in the front end *)

SourceIsSeq == IsSeq(src)

LEMMA StartHolds == SourceIsSeq /\ Start => LexInv
<1> SUFFICES ASSUME IsSeq(src), Start PROVE LexInv
  BY DEF SourceIsSeq
<1>1. /\ mode = "main" /\ pos = 1 /\ line = 1 /\ col = 1 /\ tokens = <<>>
      /\ string = [line |-> 0, col |-> 0, from |-> 0, bytes |-> <<>>, ok |-> TRUE]
      /\ errors = <<>> /\ reported = FALSE
  BY DEF Start
<1>2. Len(src) \in Nat
  BY SeqFacts
<1>3. LexShape
  <2>1. pos \in 1 .. Len(src) + 1
    BY <1>1, <1>2
  <2>2. IsSeq(tokens) /\ IsSeq(errors)
    BY <1>1, EmptyIsSeq
  <2>3. DOMAIN string = {"line", "col", "from", "bytes", "ok"}
    BY <1>1
  <2> QED BY <1>1, <2>1, <2>2, <2>3 DEF LexShape
<1>4. CursorIsTrue
  <2>1. Feeds(src, 1) = {}
    BY DEF Feeds
  <2>2. LineAt(src, 1) = 1 /\ ColAt(src, 1) = 1
    BY <2>1, FS_EmptySet DEF LineAt, ColAt
  <2>3. Minuses(src, <<>>, 1) = {}
    BY EmptyIsSeq DEF Minuses
  <2>4. ColumnAt(src, <<>>, 1) = 1
    BY <2>2, <2>3, FS_EmptySet DEF ColumnAt
  <2> QED BY <1>1, <2>2, <2>4 DEF CursorIsTrue
<1>5. TokensStand /\ TokensInOrder
  BY <1>1, EmptyIsSeq DEF TokensStand, TokensInOrder
<1>6. StringStands /\ CommentStands /\ Complaints
  BY <1>1 DEF StringStands, CommentStands, Complaints
<1>7. Accounted
  BY <1>1 DEF Accounted
<1> QED BY <1>3, <1>4, <1>5, <1>6, <1>7 DEF LexInv

LEMMA FrontEndStart == FrontEndInit => FrontEndInv
<1> SUFFICES ASSUME FrontEndInit PROVE FrontEndInv
  OBVIOUS
<1>1. Start /\ cps = <<>>
  BY DEF FrontEndInit, Decoder!Start
<1>2. IsSeq(cps)
  BY <1>1, EmptyIsSeq
<1>3. IsSeq(src)
  <2>1. src = <<>> \/ src \in Sources
    BY DEF FrontEndInit
  <2>2. CASE src \in Sources
    BY <2>2, SourcesAssumption, SeqIsSeq
  <2> QED BY <2>1, <2>2, EmptyIsSeq
<1>4. LexInv
  BY <1>1, <1>3, StartHolds DEF SourceIsSeq
<1> QED BY <1>1, <1>2, <1>4 DEF FrontEndInv

LEMMA FrontEndStep == FrontEndInv /\ [FrontEndNext]_allVars => FrontEndInv'
<1> SUFFICES ASSUME FrontEndInv, [FrontEndNext]_allVars PROVE FrontEndInv'
  OBVIOUS
<1>0. LexInv /\ IsSeq(cps) /\ (stage = "decode" => Start)
  BY DEF FrontEndInv
<1>1. ASSUME UNCHANGED vars, IsSeq(cps'), stage' # "decode" \/ stage = "decode"
      PROVE  FrontEndInv'
  <2>1. LexInv'
    BY <1>0, <1>1, LexUnchanged
  <2>2. stage' = "decode" => Start'
    BY <1>0, <1>1 DEF vars, Start
  <2> QED BY <1>1, <2>1, <2>2 DEF FrontEndInv
<1>2. CASE DecodeStep
  <2>1. UNCHANGED vars /\ stage' = stage /\ Decoder!Decode /\ stage = "decode"
    BY <1>2 DEF DecodeStep
  <2>2. \E e : cps' = Append(cps, e)
    BY <2>1, Zenon DEF Decoder!Decode
  <2>3. IsSeq(cps')
    BY <1>0, <2>2, AppendFacts
  <2> QED BY <1>1, <2>1, <2>3
<1>3. CASE StartLexer
  <2>1. /\ stage' = "lex" /\ Start /\ cps' = cps
        /\ src' = [k \in DOMAIN cps |-> CharacterAt(cps[k])]
        /\ UNCHANGED <<mode, pos, line, col, tokens, string, errors, reported>>
    BY <1>0, <1>3 DEF StartLexer, decoderVars
  <2>2. Start'
    BY <2>1 DEF Start
  <2>3. IsSeq(src')
    <3>1. Len(cps) \in Nat /\ DOMAIN cps = 1 .. Len(cps)
      BY <1>0, SeqFacts
    <3> DEFINE C(k) == CharacterAt(cps[k])
    <3> DEFINE S == {C(k) : k \in DOMAIN cps}
    <3>2. src' \in [1 .. Len(cps) -> S]
      BY <2>1, <3>1, Zenon
    <3> HIDE DEF S
    <3> QED BY <3>1, <3>2, FunctionIsSeq
  <2>4. LexInv'
    <3>1. SourceIsSeq'
      BY <2>3 DEF SourceIsSeq
    <3> QED BY <2>2, <3>1, StartHolds, PTL
  <2> QED BY <1>0, <2>1, <2>4 DEF FrontEndInv
<1>4. CASE LexStep
  <2>1. stage = "lex" /\ stage' = stage /\ Next /\ cps' = cps
    BY <1>4 DEF LexStep, decoderVars
  <2>2. LexInv'
    BY <1>0, <2>1, LexNext
  <2> QED BY <1>0, <2>1, <2>2 DEF FrontEndInv
<1>5. CASE StartParser
  <2>1. UNCHANGED vars /\ stage' = "parse" /\ cps' = cps
    BY <1>5 DEF StartParser, decoderVars
  <2> QED BY <1>0, <1>1, <2>1
<1>6. CASE ParseStep
  <2>1. UNCHANGED vars /\ stage' = "parse" /\ cps' = cps
    BY <1>6 DEF ParseStep, decoderVars
  <2> QED BY <1>0, <1>1, <2>1
<1>7. CASE UNCHANGED allVars
  <2>1. UNCHANGED vars /\ stage' = stage /\ cps' = cps
    BY <1>7 DEF allVars, decoderVars
  <2> QED BY <1>0, <1>1, <2>1
<1> QED BY <1>2, <1>3, <1>4, <1>5, <1>6, <1>7 DEF FrontEndNext

LEMMA FrontEndInvHolds == FrontEndSpec => []FrontEndInv
  BY FrontEndStart, FrontEndStep, PTL DEF FrontEndSpec

LEMMA SameLines ==
    \A k : LineAt(src, k) = TrueLine(k) /\ ColAt(src, k) = TrueCol(k)
  BY Zenon DEF LineAt, ColAt, TrueLine, TrueCol, Feeds, LineFeedsBefore

LEMMA SameMinuses ==
    \A k : Minuses(src, tokens, k) = MinusBefore(k)
  BY SameLines, Zenon DEF Minuses, MinusBefore

(***************************************************************************)
(* Whatever bytes or characters it is given, advance_cp in lexer.c keeps   *)
(* line and column so that every token is stamped with its true line, and  *)
(* with its true column shifted by the minus signs that stood alone before *)
(* it on that line, and by nothing else.                                   *)
(***************************************************************************)
THEOREM TokensCarryTheirPosition == FrontEndSpec => []PositionsFollowTheSource
<1>1. FrontEndInv => PositionsFollowTheSource
  <2> SUFFICES ASSUME FrontEndInv, NEW n \in DOMAIN tokens
               PROVE  /\ tokens[n].line = TrueLine(tokens[n].from)
                      /\ tokens[n].col = TrueCol(tokens[n].from)
                                + Cardinality(MinusBefore(tokens[n].from))
    BY Zenon DEF PositionsFollowTheSource
  <2>1. /\ tokens[n].line = LineAt(src, tokens[n].from)
        /\ tokens[n].col = ColumnAt(src, tokens, tokens[n].from)
    BY DEF FrontEndInv, LexInv, TokensStand
  <2> QED BY <2>1, SameLines, SameMinuses, Zenon DEF ColumnAt
<1> QED BY <1>1, FrontEndInvHolds, PTL

(***************************************************************************)
(* When lex_all of lexer.c is done and no diagnostic is recorded, none was *)
(* raised, every character of the source is part of a token, of a comment  *)
(* or of a run of blanks and line ends, and the tokens stand in order: for *)
(* every source, every limit on diagnostics and every table of words.      *)
(***************************************************************************)
THEOREM NothingIsDropped == FrontEndSpec => []NothingDroppedSilently
<1>1. FrontEndInv => NothingDroppedSilently
  <2> SUFFICES ASSUME FrontEndInv, mode = "done", errors = <<>>
               PROVE  /\ ~reported
                      /\ \A k \in DOMAIN src :
                            Covered(k) \/ InComment(k) \/ src[k] \in {" ", "CR", "LF"}
                      /\ \A n \in 2 .. Len(tokens) : tokens[n].from > tokens[n - 1].to
    BY Zenon DEF NothingDroppedSilently, error_has_any
  <2>0. LexInv
    BY DEF FrontEndInv
  <2>1. ~reported
    BY <2>0 DEF LexInv, Complaints
  <2>2. \A n \in 2 .. Len(tokens) : tokens[n].from > tokens[n - 1].to
    BY <2>0 DEF LexInv, TokensInOrder
  <2>3. ASSUME NEW k \in DOMAIN src
        PROVE  Covered(k) \/ InComment(k) \/ src[k] \in {" ", "CR", "LF"}
    <3>1. k \in 1 .. pos - 1
      BY <2>0, PositionFacts DEF LexInv, LexShape
    <3>2. Account(src, tokens, k)
      BY <2>0, <2>1, <3>1 DEF LexInv, Accounted
    <3> QED BY <3>2, Zenon DEF Account, CoveredBy, CommentAt, Comment, Covered,
                               InComment
  <2> QED BY <2>1, <2>2, <2>3
<1> QED BY <1>1, FrontEndInvHolds, PTL

-----------------------------------------------------------------------------
(* The decoder: one call of utf8_next_codepoint against the table *)

Byte == 0 .. 255
Cont == 128 .. 191
Lead1 == 0 .. 127
Lead2 == 194 .. 223
Lead3 == 224 .. 239
Lead4 == 240 .. 244

\* The second byte narrows what may begin a longer sequence.
Pair3(x, y) ==
    \/ x = 224 /\ y \in 160 .. 191
    \/ x \in 225 .. 236 /\ y \in 128 .. 191
    \/ x = 237 /\ y \in 128 .. 159
    \/ x \in 238 .. 239 /\ y \in 128 .. 191

Pair4(x, y) ==
    \/ x = 240 /\ y \in 144 .. 191
    \/ x \in 241 .. 243 /\ y \in 128 .. 191
    \/ x = 244 /\ y \in 128 .. 143

\* The rows of Decoder!Table by the length of the sequences they admit.
Form1(b) == b[1] \in Lead1
Form2(b) == Len(b) >= 2 /\ b[1] \in Lead2 /\ b[2] \in Cont
Form3(b) == Len(b) >= 3 /\ Pair3(b[1], b[2]) /\ b[3] \in Cont
Form4(b) == Len(b) >= 4 /\ Pair4(b[1], b[2]) /\ b[3] \in Cont /\ b[4] \in Cont

Formed(b, n) ==
    \/ n = 1 /\ Form1(b)
    \/ n = 2 /\ Form2(b)
    \/ n = 3 /\ Form3(b)
    \/ n = 4 /\ Form4(b)

\* The masks and shifts of the decoder, and the sums by position.
Masked2(x, y) == (x % 32) * 64 + (y % 64)
Masked3(x, y, z) == ((x % 16) * 64 + (y % 64)) * 64 + (z % 64)
Masked4(x, y, z, w) ==
    (((x % 8) * 64 + (y % 64)) * 64 + (z % 64)) * 64 + (w % 64)

Sum2(x, y) == (x - 192) * 64 + (y - 128)
Sum3(x, y, z) == (x - 224) * 4096 + (y - 128) * 64 + (z - 128)
Sum4(x, y, z, w) ==
    (x - 240) * 262144 + (y - 128) * 4096 + (z - 128) * 64 + (w - 128)

Character(value, n) == [cp |-> value, bytes |-> n]

\* The lead bytes, and the pairs that begin the longer forms.
LEMMA LeadBytes ==
    /\ \A x \in Lead1 : Decoder!LeadLength(x) = 1
    /\ \A x \in Lead2 : Decoder!LeadLength(x) = 2
    /\ \A x \in Lead3 : Decoder!LeadLength(x) = 3
    /\ \A x \in Lead4 : Decoder!LeadLength(x) = 4
    /\ \A x \in Byte :
          \/ x \in Lead1 \/ x \in Lead2 \/ x \in Lead3 \/ x \in Lead4
          \/ Decoder!LeadLength(x) = 0
  BY DEF Decoder!LeadLength, Byte, Lead1, Lead2, Lead3, Lead4

LEMMA PairFacts ==
    /\ \A x, y : Pair3(x, y) => x \in Lead3 /\ y \in Cont
    /\ \A x, y : Pair4(x, y) => x \in Lead4 /\ y \in Cont
  BY DEF Pair3, Pair4, Cont, Lead3, Lead4

\* The masks and shifts give the sum by position, and the tests of the code
\* point admit exactly the pairs of the table.
LEMMA Value2 ==
    \A x \in Lead2, y \in Cont :
        /\ Masked2(x, y) = Sum2(x, y)
        /\ Decoder!InRange(Masked2(x, y), 2)
  BY DEF Decoder!InRange, Decoder!Minimum, Cont, Lead2, Masked2, Sum2

LEMMA Value3 ==
    \A x \in Lead3, y \in Cont, z \in Cont :
        /\ Masked3(x, y, z) = Sum3(x, y, z)
        /\ Decoder!InRange(Masked3(x, y, z), 3) <=> Pair3(x, y)
<1> SUFFICES ASSUME NEW x \in Lead3, NEW y \in Cont, NEW z \in Cont
             PROVE  /\ Masked3(x, y, z) = Sum3(x, y, z)
                    /\ Decoder!InRange(Masked3(x, y, z), 3) <=> Pair3(x, y)
  BY Zenon
<1>1. x % 16 = x - 224 /\ y % 64 = y - 128 /\ z % 64 = z - 128
  BY DEF Cont, Lead3
<1>2. Masked3(x, y, z) = Sum3(x, y, z)
  BY <1>1 DEF Cont, Lead3, Masked3, Sum3
<1>3. Decoder!InRange(Sum3(x, y, z), 3) <=> Pair3(x, y)
  BY DEF Decoder!InRange, Decoder!Minimum, Pair3, Cont, Lead3, Sum3
<1> QED BY <1>2, <1>3, Zenon

LEMMA Value4 ==
    \A x \in Lead4, y \in Cont, z \in Cont, w \in Cont :
        /\ Masked4(x, y, z, w) = Sum4(x, y, z, w)
        /\ Decoder!InRange(Masked4(x, y, z, w), 4) <=> Pair4(x, y)
<1> SUFFICES ASSUME NEW x \in Lead4, NEW y \in Cont, NEW z \in Cont,
                    NEW w \in Cont
             PROVE  /\ Masked4(x, y, z, w) = Sum4(x, y, z, w)
                    /\ Decoder!InRange(Masked4(x, y, z, w), 4) <=> Pair4(x, y)
  BY Zenon
<1>1. /\ x % 8 = x - 240 /\ y % 64 = y - 128 /\ z % 64 = z - 128
      /\ w % 64 = w - 128
  BY DEF Cont, Lead4
<1>2. Masked4(x, y, z, w) = Sum4(x, y, z, w)
  BY <1>1 DEF Cont, Lead4, Masked4, Sum4
<1>3. Decoder!InRange(Sum4(x, y, z, w), 4) <=> Pair4(x, y)
  BY DEF Decoder!InRange, Decoder!Minimum, Pair4, Cont, Lead4, Sum4
<1> QED BY <1>2, <1>3, Zenon

LEMMA OneByte ==
    ASSUME NEW b \in Seq(Byte), Form1(b)
    PROVE  Decoder!utf8_next_codepoint(b) = Character(b[1], 1)
<1>1. Decoder!LeadLength(b[1]) = 1
  BY LeadBytes, Zenon DEF Form1
<1> QED BY <1>1, Zenon DEF Decoder!utf8_next_codepoint, Character

LEMMA NoLeadByte ==
    ASSUME NEW b \in Seq(Byte), Decoder!LeadLength(b[1]) = 0
    PROVE  Decoder!utf8_next_codepoint(b) = Character(Decoder!Replacement, 1)
<1>1. 0 # 1
  OBVIOUS
<1> QED BY <1>1, Zenon DEF Decoder!utf8_next_codepoint, Character

\* What is left of a call when the lead byte announces n bytes.
LEMMA LongForms ==
    ASSUME NEW b \in Seq(Byte), NEW n \in 2 .. 4, Decoder!LeadLength(b[1]) = n
    PROVE  Decoder!utf8_next_codepoint(b) =
             IF /\ Len(b) >= n
                /\ \A k \in 2 .. n : b[k] \in Cont
                /\ Decoder!InRange(Decoder!Bits(b, n), n)
             THEN Character(Decoder!Bits(b, n), n)
             ELSE Character(Decoder!Replacement, 1)
<1>1. n # 1 /\ n # 0
  OBVIOUS
<1>2. Len(b) < n <=> ~(Len(b) >= n)
  OBVIOUS
<1>3. \A x : Decoder!IsContinuation(x) <=> x \in Cont
  BY DEF Decoder!IsContinuation, Cont
<1> QED BY <1>1, <1>2, <1>3, Zenon DEF Decoder!utf8_next_codepoint, Character

LEMMA TwoBytes ==
    ASSUME NEW b \in Seq(Byte), b[1] \in Lead2
    PROVE  Decoder!utf8_next_codepoint(b) =
               IF Form2(b) THEN Character(Decoder!ScalarValue(b, 2), 2)
               ELSE Character(Decoder!Replacement, 1)
<1>1. Decoder!LeadLength(b[1]) = 2
  BY LeadBytes, Zenon
<1>2. Decoder!Bits(b, 2) = Masked2(b[1], b[2])
  BY DEF Decoder!Bits, Decoder!LeadBits, Masked2
<1>3. Decoder!ScalarValue(b, 2) = Sum2(b[1], b[2])
  BY DEF Decoder!ScalarValue, Sum2
<1>4. b[2] \in Cont => /\ Decoder!Bits(b, 2) = Decoder!ScalarValue(b, 2)
                       /\ Decoder!InRange(Decoder!Bits(b, 2), 2)
  BY <1>2, <1>3, Value2, Zenon
<1>5. (\A k \in 2 .. 2 : b[k] \in Cont) <=> b[2] \in Cont
  <2>1. \A k : k \in 2 .. 2 <=> k = 2
    OBVIOUS
  <2> QED BY <2>1, Zenon
<1>6. 2 \in 2 .. 4
  OBVIOUS
<1>7. Decoder!utf8_next_codepoint(b) =
             IF /\ Len(b) >= 2
                /\ \A k \in 2 .. 2 : b[k] \in Cont
                /\ Decoder!InRange(Decoder!Bits(b, 2), 2)
             THEN Character(Decoder!Bits(b, 2), 2)
             ELSE Character(Decoder!Replacement, 1)
  BY <1>1, <1>6, LongForms, Zenon
<1> QED BY <1>4, <1>5, <1>7, Zenon DEF Form2

LEMMA ThreeBytes ==
    ASSUME NEW b \in Seq(Byte), b[1] \in Lead3
    PROVE  Decoder!utf8_next_codepoint(b) =
               IF Form3(b) THEN Character(Decoder!ScalarValue(b, 3), 3)
               ELSE Character(Decoder!Replacement, 1)
<1>1. Decoder!LeadLength(b[1]) = 3
  BY LeadBytes, Zenon
<1>2. Decoder!Bits(b, 3) = Masked3(b[1], b[2], b[3])
  BY DEF Decoder!Bits, Decoder!LeadBits, Masked3
<1>3. Decoder!ScalarValue(b, 3) = Sum3(b[1], b[2], b[3])
  BY DEF Decoder!ScalarValue, Sum3
<1>4. b[2] \in Cont /\ b[3] \in Cont =>
          /\ Decoder!Bits(b, 3) = Decoder!ScalarValue(b, 3)
          /\ Decoder!InRange(Decoder!Bits(b, 3), 3) <=> Pair3(b[1], b[2])
  BY <1>2, <1>3, Value3, Zenon
<1>5. (\A k \in 2 .. 3 : b[k] \in Cont) <=> b[2] \in Cont /\ b[3] \in Cont
  <2>1. \A k : k \in 2 .. 3 <=> k = 2 \/ k = 3
    OBVIOUS
  <2> QED BY <2>1, Zenon
<1>6. 3 \in 2 .. 4
  OBVIOUS
<1>7. Decoder!utf8_next_codepoint(b) =
             IF /\ Len(b) >= 3
                /\ \A k \in 2 .. 3 : b[k] \in Cont
                /\ Decoder!InRange(Decoder!Bits(b, 3), 3)
             THEN Character(Decoder!Bits(b, 3), 3)
             ELSE Character(Decoder!Replacement, 1)
  BY <1>1, <1>6, LongForms, Zenon
<1> QED BY <1>4, <1>5, <1>7, PairFacts, Zenon DEF Form3

LEMMA FourBytes ==
    ASSUME NEW b \in Seq(Byte), b[1] \in Lead4
    PROVE  Decoder!utf8_next_codepoint(b) =
               IF Form4(b) THEN Character(Decoder!ScalarValue(b, 4), 4)
               ELSE Character(Decoder!Replacement, 1)
<1>1. Decoder!LeadLength(b[1]) = 4
  BY LeadBytes, Zenon
<1>2. Decoder!Bits(b, 4) = Masked4(b[1], b[2], b[3], b[4])
  BY DEF Decoder!Bits, Decoder!LeadBits, Masked4
<1>3. Decoder!ScalarValue(b, 4) = Sum4(b[1], b[2], b[3], b[4])
  BY DEF Decoder!ScalarValue, Sum4
<1>4. b[2] \in Cont /\ b[3] \in Cont /\ b[4] \in Cont =>
          /\ Decoder!Bits(b, 4) = Decoder!ScalarValue(b, 4)
          /\ Decoder!InRange(Decoder!Bits(b, 4), 4) <=> Pair4(b[1], b[2])
  BY <1>2, <1>3, Value4, Zenon
<1>5. (\A k \in 2 .. 4 : b[k] \in Cont)
          <=> b[2] \in Cont /\ b[3] \in Cont /\ b[4] \in Cont
  <2>1. \A k : k \in 2 .. 4 <=> k = 2 \/ k = 3 \/ k = 4
    OBVIOUS
  <2> QED BY <2>1, Zenon
<1>6. 4 \in 2 .. 4
  OBVIOUS
<1>7. Decoder!utf8_next_codepoint(b) =
             IF /\ Len(b) >= 4
                /\ \A k \in 2 .. 4 : b[k] \in Cont
                /\ Decoder!InRange(Decoder!Bits(b, 4), 4)
             THEN Character(Decoder!Bits(b, 4), 4)
             ELSE Character(Decoder!Replacement, 1)
  BY <1>1, <1>6, LongForms, Zenon
<1> QED BY <1>4, <1>5, <1>7, PairFacts, Zenon DEF Form4

\* One call takes the sequence that stands there, or one byte.
LEMMA DecoderFollowsTheForms ==
    ASSUME NEW b \in Seq(Byte), b # <<>>
    PROVE  /\ \A n \in 1 .. 4 : Formed(b, n) =>
                  /\ n <= Len(b)
                  /\ Decoder!utf8_next_codepoint(b)
                         = Character(Decoder!ScalarValue(b, n), n)
           /\ (\A n \in 1 .. 4 : ~Formed(b, n)) =>
                  Decoder!utf8_next_codepoint(b) = Character(Decoder!Replacement, 1)
<1>0. b[1] \in Byte /\ Len(b) \in Nat /\ Len(b) >= 1
  OBVIOUS
<1>1. ASSUME Form1(b)
      PROVE  Decoder!utf8_next_codepoint(b) = Character(Decoder!ScalarValue(b, 1), 1)
  <2>1. Decoder!ScalarValue(b, 1) = b[1]
    BY DEF Decoder!ScalarValue
  <2> QED BY <1>1, <2>1, OneByte, Zenon
<1>2. ASSUME Form2(b)
      PROVE  Decoder!utf8_next_codepoint(b) = Character(Decoder!ScalarValue(b, 2), 2)
  <2>1. b[1] \in Lead2
    BY <1>2, Zenon DEF Form2
  <2> QED BY <1>2, <2>1, TwoBytes, Zenon
<1>3. ASSUME Form3(b)
      PROVE  Decoder!utf8_next_codepoint(b) = Character(Decoder!ScalarValue(b, 3), 3)
  <2>1. b[1] \in Lead3
    BY <1>3, PairFacts, Zenon DEF Form3
  <2> QED BY <1>3, <2>1, ThreeBytes, Zenon
<1>4. ASSUME Form4(b)
      PROVE  Decoder!utf8_next_codepoint(b) = Character(Decoder!ScalarValue(b, 4), 4)
  <2>1. b[1] \in Lead4
    BY <1>4, PairFacts, Zenon DEF Form4
  <2> QED BY <1>4, <2>1, FourBytes, Zenon
<1>5. ASSUME ~Form1(b), ~Form2(b), ~Form3(b), ~Form4(b)
      PROVE  Decoder!utf8_next_codepoint(b) = Character(Decoder!Replacement, 1)
  <2>1. CASE b[1] \in Lead2
    BY <1>5, <2>1, TwoBytes, Zenon
  <2>2. CASE b[1] \in Lead3
    BY <1>5, <2>2, ThreeBytes, Zenon
  <2>3. CASE b[1] \in Lead4
    BY <1>5, <2>3, FourBytes, Zenon
  <2>4. CASE Decoder!LeadLength(b[1]) = 0
    BY <2>4, NoLeadByte, Zenon
  <2>5. b[1] \notin Lead1
    BY <1>5, Zenon DEF Form1
  <2> QED BY <1>0, <2>1, <2>2, <2>3, <2>4, <2>5, LeadBytes, Zenon
<1>6. (Form2(b) => Len(b) >= 2) /\ (Form3(b) => Len(b) >= 3) /\ (Form4(b) => Len(b) >= 4)
  BY Zenon DEF Form2, Form3, Form4
<1>7. ASSUME NEW n \in 1 .. 4, Formed(b, n)
      PROVE  /\ n <= Len(b)
             /\ Decoder!utf8_next_codepoint(b) = Character(Decoder!ScalarValue(b, n), n)
  <2>1. n <= Len(b)
    BY <1>0, <1>6, <1>7 DEF Formed
  <2> QED BY <2>1, <1>1, <1>2, <1>3, <1>4, <1>7, Zenon DEF Formed
<1>8. (\A n \in 1 .. 4 : ~Formed(b, n)) =>
           ~Form1(b) /\ ~Form2(b) /\ ~Form3(b) /\ ~Form4(b)
  BY DEF Formed
<1> QED BY <1>5, <1>7, <1>8, Zenon

-----------------------------------------------------------------------------
(* The forms against the rows of the table *)

LEMMA MatchesRow ==
    ASSUME NEW b
    PROVE  /\ \A A : Decoder!Matches(b, <<A>>) <=> Len(b) >= 1 /\ b[1] \in A
           /\ \A A, B : Decoder!Matches(b, <<A, B>>)
                  <=> Len(b) >= 2 /\ b[1] \in A /\ b[2] \in B
           /\ \A A, B, C : Decoder!Matches(b, <<A, B, C>>)
                  <=> Len(b) >= 3 /\ b[1] \in A /\ b[2] \in B /\ b[3] \in C
           /\ \A A, B, C, D : Decoder!Matches(b, <<A, B, C, D>>)
                  <=> /\ Len(b) >= 4
                      /\ b[1] \in A /\ b[2] \in B /\ b[3] \in C /\ b[4] \in D
  BY DEF Decoder!Matches

Rows1 == {<<Lead1>>}
Rows2 == {<<Lead2, Cont>>}
Rows3 == {<<{224}, 160 .. 191, Cont>>, <<225 .. 236, Cont, Cont>>,
          <<{237}, 128 .. 159, Cont>>, <<238 .. 239, Cont, Cont>>}
Rows4 == {<<{240}, 144 .. 191, Cont, Cont>>, <<241 .. 243, Cont, Cont, Cont>>,
          <<{244}, 128 .. 143, Cont, Cont>>}

LEMMA TableByLength ==
    Decoder!Table = Rows1 \cup Rows2 \cup Rows3 \cup Rows4
  BY DEF Decoder!Table, Decoder!T, Rows1, Rows2, Rows3, Rows4, Lead1, Lead2, Cont

LEMMA RowLengths ==
    /\ \A row \in Rows1 : Len(row) = 1
    /\ \A row \in Rows2 : Len(row) = 2
    /\ \A row \in Rows3 : Len(row) = 3
    /\ \A row \in Rows4 : Len(row) = 4
  BY DEF Rows1, Rows2, Rows3, Rows4

LEMMA PairsOfRows ==
    /\ \A x, y : Pair3(x, y) <=>
          \/ x \in {224} /\ y \in 160 .. 191
          \/ x \in 225 .. 236 /\ y \in Cont
          \/ x \in {237} /\ y \in 128 .. 159
          \/ x \in 238 .. 239 /\ y \in Cont
    /\ \A x, y : Pair4(x, y) <=>
          \/ x \in {240} /\ y \in 144 .. 191
          \/ x \in 241 .. 243 /\ y \in Cont
          \/ x \in {244} /\ y \in 128 .. 143
  BY DEF Pair3, Pair4, Cont

LEMMA RowsAreForms ==
    ASSUME NEW b \in Seq(Byte), b # <<>>
    PROVE  /\ Form1(b) <=> \E row \in Rows1 : Decoder!Matches(b, row)
           /\ Form2(b) <=> \E row \in Rows2 : Decoder!Matches(b, row)
           /\ Form3(b) <=> \E row \in Rows3 : Decoder!Matches(b, row)
           /\ Form4(b) <=> \E row \in Rows4 : Decoder!Matches(b, row)
<1>0. Len(b) >= 1
  OBVIOUS
<1>1. Form1(b) <=> \E row \in Rows1 : Decoder!Matches(b, row)
  BY <1>0, MatchesRow, Zenon DEF Form1, Rows1
<1>2. Form2(b) <=> \E row \in Rows2 : Decoder!Matches(b, row)
  BY MatchesRow, Zenon DEF Form2, Rows2
<1>3. Form3(b) <=> \E row \in Rows3 : Decoder!Matches(b, row)
  <2> DEFINE A1 == {224}  B1 == 160 .. 191  A2 == 225 .. 236
             A3 == {237}  B3 == 128 .. 159  A4 == 238 .. 239
  <2>1. Rows3 = {<<A1, B1, Cont>>, <<A2, Cont, Cont>>, <<A3, B3, Cont>>,
                 <<A4, Cont, Cont>>}
    BY DEF Rows3
  <2>2. \A x, y : Pair3(x, y) <=> \/ x \in A1 /\ y \in B1
                                  \/ x \in A2 /\ y \in Cont
                                  \/ x \in A3 /\ y \in B3
                                  \/ x \in A4 /\ y \in Cont
    BY PairsOfRows
  <2> HIDE DEF A1, A2, A3, A4, B1, B3
  <2> DEFINE M(A, B) == Decoder!Matches(b, <<A, B, Cont>>)
  <2>3. \A A, B : M(A, B) <=> Len(b) >= 3 /\ b[1] \in A /\ b[2] \in B /\ b[3] \in Cont
    BY MatchesRow, Zenon
  <2>4. (\E row \in Rows3 : Decoder!Matches(b, row))
            <=> M(A1, B1) \/ M(A2, Cont) \/ M(A3, B3) \/ M(A4, Cont)
    BY <2>1, Zenon
  <2> HIDE DEF M
  <2> QED BY <2>2, <2>3, <2>4, Zenon DEF Form3
<1>4. Form4(b) <=> \E row \in Rows4 : Decoder!Matches(b, row)
  <2> DEFINE A1 == {240}  B1 == 144 .. 191  A2 == 241 .. 243
             A3 == {244}  B3 == 128 .. 143
  <2>1. Rows4 = {<<A1, B1, Cont, Cont>>, <<A2, Cont, Cont, Cont>>,
                 <<A3, B3, Cont, Cont>>}
    BY DEF Rows4
  <2>2. \A x, y : Pair4(x, y) <=> \/ x \in A1 /\ y \in B1
                                  \/ x \in A2 /\ y \in Cont
                                  \/ x \in A3 /\ y \in B3
    BY PairsOfRows
  <2> HIDE DEF A1, A2, A3, B1, B3
  <2> DEFINE M(A, B) == Decoder!Matches(b, <<A, B, Cont, Cont>>)
  <2>3. \A A, B : M(A, B) <=> /\ Len(b) >= 4
                             /\ b[1] \in A /\ b[2] \in B
                             /\ b[3] \in Cont /\ b[4] \in Cont
    BY MatchesRow, Zenon
  <2>4. (\E row \in Rows4 : Decoder!Matches(b, row))
            <=> M(A1, B1) \/ M(A2, Cont) \/ M(A3, B3)
    BY <2>1, Zenon
  <2> HIDE DEF M
  <2> QED BY <2>2, <2>3, <2>4, Zenon DEF Form4
<1> QED BY <1>1, <1>2, <1>3, <1>4, Zenon

LEMMA RowsAndForms ==
    ASSUME NEW b \in Seq(Byte), b # <<>>
    PROVE  /\ \A row \in Decoder!Table : Decoder!Matches(b, row) =>
                  Len(row) \in 1 .. 4 /\ Formed(b, Len(row))
           /\ \A n \in 1 .. 4 : Formed(b, n) =>
                  \E row \in Decoder!Table : Decoder!Matches(b, row)
<1>0. 1 \in 1 .. 4 /\ 2 \in 1 .. 4 /\ 3 \in 1 .. 4 /\ 4 \in 1 .. 4
  OBVIOUS
<1>1. ASSUME NEW row \in Decoder!Table, Decoder!Matches(b, row)
      PROVE  Len(row) \in 1 .. 4 /\ Formed(b, Len(row))
  <2>1. CASE row \in Rows1
    BY <1>0, <1>1, <2>1, RowLengths, RowsAreForms, Zenon DEF Formed
  <2>2. CASE row \in Rows2
    BY <1>0, <1>1, <2>2, RowLengths, RowsAreForms, Zenon DEF Formed
  <2>3. CASE row \in Rows3
    BY <1>0, <1>1, <2>3, RowLengths, RowsAreForms, Zenon DEF Formed
  <2>4. CASE row \in Rows4
    BY <1>0, <1>1, <2>4, RowLengths, RowsAreForms, Zenon DEF Formed
  <2> QED BY <2>1, <2>2, <2>3, <2>4, TableByLength, Zenon
<1>2. ASSUME NEW n \in 1 .. 4, Formed(b, n)
      PROVE  \E row \in Decoder!Table : Decoder!Matches(b, row)
  BY <1>2, TableByLength, RowsAreForms, Zenon DEF Formed
<1> QED BY <1>1, <1>2, Zenon

\* U+FFFD is three bytes long: no other form has its value.
LEMMA ReplacementIsThreeBytes ==
    ASSUME NEW b \in Seq(Byte), NEW n \in 1 .. 4, Formed(b, n), n # 3
    PROVE  Decoder!ScalarValue(b, n) # Decoder!Replacement
<1>1. \A x \in Lead1 : x # Decoder!Replacement
  BY DEF Lead1, Decoder!Replacement
<1>2. \A x \in Lead2, y \in Cont : Sum2(x, y) # Decoder!Replacement
  BY DEF Lead2, Cont, Sum2, Decoder!Replacement
<1>3. \A x \in Lead4, y \in Cont, z \in Cont, w \in Cont :
          Pair4(x, y) => Sum4(x, y, z, w) # Decoder!Replacement
  BY DEF Lead4, Cont, Sum4, Pair4, Decoder!Replacement
<1>4. /\ Decoder!ScalarValue(b, 1) = b[1]
      /\ Decoder!ScalarValue(b, 2) = Sum2(b[1], b[2])
      /\ Decoder!ScalarValue(b, 4) = Sum4(b[1], b[2], b[3], b[4])
  BY DEF Decoder!ScalarValue, Sum2, Sum4
<1>5. CASE n = 1 /\ Form1(b)
  BY <1>1, <1>4, <1>5, Zenon DEF Form1
<1>6. CASE n = 2 /\ Form2(b)
  BY <1>2, <1>4, <1>6, Zenon DEF Form2
<1>7. CASE n = 4 /\ Form4(b)
  BY <1>3, <1>4, <1>7, PairFacts, Zenon DEF Form4
<1> QED BY <1>5, <1>6, <1>7, Zenon DEF Formed

LEMMA CharacterFields ==
    ASSUME NEW v, NEW n
    PROVE  Character(v, n).cp = v /\ Character(v, n).bytes = n
  BY DEF Character

LEMMA WellFormedIsFormed ==
    ASSUME NEW b \in Seq(Byte), b # <<>>
    PROVE  Decoder!utf8_is_well_formed_at(b) <=> \E n \in 1 .. 4 : Formed(b, n)
<1> DEFINE c == Decoder!utf8_next_codepoint(b)
<1>1. ASSUME NEW n \in 1 .. 4, Formed(b, n)
      PROVE  Decoder!utf8_is_well_formed_at(b)
  <2>1. c = Character(Decoder!ScalarValue(b, n), n)
    BY <1>1, DecoderFollowsTheForms, Zenon
  <2>2. c.cp = Decoder!ScalarValue(b, n) /\ c.bytes = n
    BY <2>1, CharacterFields, Zenon
  <2>3. c.cp # Decoder!Replacement \/ c.bytes = 3
    BY <1>1, <2>2, ReplacementIsThreeBytes, Zenon
  <2> QED BY <2>3, Zenon DEF Decoder!utf8_is_well_formed_at
<1>2. ASSUME \A n \in 1 .. 4 : ~Formed(b, n)
      PROVE  ~Decoder!utf8_is_well_formed_at(b)
  <2>1. c = Character(Decoder!Replacement, 1)
    BY <1>2, DecoderFollowsTheForms, Zenon
  <2>2. c.cp = Decoder!Replacement /\ c.bytes = 1
    BY <2>1 DEF Character
  <2>3. 1 # 3
    OBVIOUS
  <2> QED BY <2>2, <2>3, Zenon DEF Decoder!utf8_is_well_formed_at
<1> QED BY <1>1, <1>2, Zenon

\* A call against the table: what ScanFollowsTheTable says of one character.
LEMMA OneCall ==
    ASSUME NEW b \in Seq(Byte), b # <<>>
    PROVE  LET c    == Decoder!utf8_next_codepoint(b)
               rows == {row \in Decoder!Table : Decoder!Matches(b, row)}
           IN  /\ c.bytes \in 1 .. Len(b)
               /\ Decoder!utf8_is_well_formed_at(b) <=> rows # {}
               /\ \A row \in rows : c.bytes = Len(row)
                                    /\ c.cp = Decoder!ScalarValue(b, Len(row))
               /\ rows = {} => c.bytes = 1
<1> DEFINE c    == Decoder!utf8_next_codepoint(b)
           rows == {row \in Decoder!Table : Decoder!Matches(b, row)}
<1>1. ASSUME NEW n \in 1 .. 4, Formed(b, n)
      PROVE  c.bytes = n /\ c.cp = Decoder!ScalarValue(b, n) /\ n <= Len(b)
  <2>1. c = Character(Decoder!ScalarValue(b, n), n) /\ n <= Len(b)
    BY <1>1, DecoderFollowsTheForms, Zenon
  <2> QED BY <2>1, CharacterFields, Zenon
<1>2. ASSUME \A n \in 1 .. 4 : ~Formed(b, n)
      PROVE  c.bytes = 1
  <2>1. c = Character(Decoder!Replacement, 1)
    BY <1>2, DecoderFollowsTheForms, Zenon
  <2> QED BY <2>1 DEF Character
<1>3. rows # {} <=> \E n \in 1 .. 4 : Formed(b, n)
  BY RowsAndForms, Zenon
<1>4. \A row \in rows : c.bytes = Len(row)
                        /\ c.cp = Decoder!ScalarValue(b, Len(row))
  BY <1>1, RowsAndForms, Zenon
<1>5. c.bytes \in 1 .. Len(b)
  <2> HIDE DEF c
  <2>1. CASE \E n \in 1 .. 4 : Formed(b, n)
    <3>1. PICK n \in 1 .. 4 : Formed(b, n)
      BY <2>1
    <3> QED BY <1>1, <3>1
  <2>2. CASE \A n \in 1 .. 4 : ~Formed(b, n)
    BY <1>2, <2>2
  <2> QED BY <2>1, <2>2, Zenon
<1> QED BY <1>2, <1>3, <1>4, <1>5, WellFormedIsFormed, Zenon

-----------------------------------------------------------------------------
(* The scan *)

Here(s, p) == SubSeq(s, p + 1, Len(s))
EndOf(c) == c.at + c.bytes

\* What one character of the list says of the string s scanned up to o.
Stands(s, o, cs, k) ==
    /\ cs[k].at \in 0 .. Len(s) - 1
    /\ cs[k].bytes \in Nat \ {0}
    /\ EndOf(cs[k]) <= o
    /\ cs[k].cp = Decoder!utf8_next_codepoint(Here(s, cs[k].at)).cp
    /\ cs[k].bytes = Decoder!utf8_next_codepoint(Here(s, cs[k].at)).bytes
    /\ cs[k].at = IF k = 1 THEN 0 ELSE EndOf(cs[k - 1])
    /\ \A j \in 1 .. k - 1 : EndOf(cs[j]) <= cs[k].at

\* The list is what calls from the front of s made of its first o bytes.
Scanned(s, o, cs) ==
    /\ s \in Seq(Byte) /\ IsSeq(cs)
    /\ o \in 0 .. Len(s)
    /\ o = IF cs = <<>> THEN 0 ELSE EndOf(cs[Len(cs)])
    /\ \A k \in DOMAIN cs : Stands(s, o, cs, k)
    /\ \A p \in 1 .. o : \E k \in DOMAIN cs : cs[k].at < p /\ p <= EndOf(cs[k])

DecodeInv == Scanned(bytes, offset, cps)

LEMMA HereFacts ==
    ASSUME NEW s \in Seq(Byte), NEW p \in 0 .. Len(s) - 1
    PROVE  /\ Here(s, p) \in Seq(Byte) /\ Here(s, p) # <<>>
           /\ Len(Here(s, p)) = Len(s) - p
           /\ \A i \in 1 .. Len(s) - p : Here(s, p)[i] = s[p + i]
<1>1. Len(s) \in Nat /\ p \in Nat /\ p + 1 \in Int /\ Len(s) \in Int /\ p + 1 <= Len(s)
  OBVIOUS
<1>2. \A i \in p + 1 .. Len(s) : s[i] \in Byte
  BY <1>1
<1>3. /\ Here(s, p) \in Seq(Byte)
      /\ Len(Here(s, p)) = Len(s) - (p + 1) + 1
      /\ \A i \in 1 .. Len(s) - (p + 1) + 1 : Here(s, p)[i] = s[(p + 1) + i - 1]
  BY <1>1, <1>2, SubSeqProperties DEF Here
<1>4. Len(s) - (p + 1) + 1 = Len(s) - p
  BY <1>1
<1>5. \A i \in 1 .. Len(s) - p : (p + 1) + i - 1 = p + i
  BY <1>1
<1>6. Len(Here(s, p)) > 0
  BY <1>1, <1>3, <1>4
<1>7. Here(s, p) # <<>>
  BY <1>6
<1>8. \A i \in 1 .. Len(s) - p : Here(s, p)[i] = s[p + i]
  BY <1>3, <1>4, <1>5, Zenon
<1> QED BY <1>3, <1>4, <1>7, <1>8, Zenon

LEMMA CallBytes ==
    ASSUME NEW b \in Seq(Byte), b # <<>>
    PROVE  Decoder!utf8_next_codepoint(b).bytes \in 1 .. Len(b)
  BY OneCall, Zenon

\* One utf8_next_codepoint call keeps the list true.
LEMMA ScanGrows ==
    ASSUME NEW s, NEW o, NEW cs, Scanned(s, o, cs), o < Len(s),
           NEW cp, NEW n,
           cp = Decoder!utf8_next_codepoint(Here(s, o)).cp,
           n = Decoder!utf8_next_codepoint(Here(s, o)).bytes
    PROVE  Scanned(s, o + n, Append(cs, [cp |-> cp, at |-> o, bytes |-> n]))
<1> DEFINE c == [cp |-> cp, at |-> o, bytes |-> n]
           new == Append(cs, c)
<1>1. /\ s \in Seq(Byte) /\ Len(s) \in Nat /\ o \in Nat /\ o \in 0 .. Len(s) - 1
      /\ IsSeq(cs) /\ Len(cs) \in Nat /\ DOMAIN cs = 1 .. Len(cs)
      /\ o = IF cs = <<>> THEN 0 ELSE EndOf(cs[Len(cs)])
      /\ \A k \in DOMAIN cs : Stands(s, o, cs, k)
      /\ \A p \in 1 .. o : \E k \in DOMAIN cs : cs[k].at < p /\ p <= EndOf(cs[k])
  BY SeqFacts DEF Scanned
<1>2. n \in Nat \ {0} /\ o + n <= Len(s)
  <2>1. n \in 1 .. Len(Here(s, o)) /\ Len(Here(s, o)) = Len(s) - o
    BY <1>1, HereFacts, CallBytes, Zenon
  <2> QED BY <1>1, <2>1
<1>3. /\ IsSeq(new) /\ Len(new) = Len(cs) + 1 /\ DOMAIN new = 1 .. Len(cs) + 1
      /\ new[Len(cs) + 1] = c /\ new # <<>>
      /\ \A k \in 1 .. Len(cs) : new[k] = cs[k]
  <2> HIDE DEF c
  <2>1. IsSeq(cs)
    BY <1>1
  <2>2. IsSeq(new) /\ Len(new) = Len(cs) + 1 /\ DOMAIN new = 1 .. Len(cs) + 1
    BY <2>1, AppendFacts, Zenon
  <2>3. new[Len(cs) + 1] = c
    BY <2>1, AppendFacts, Zenon
  <2>4. new # <<>>
    BY <2>1, AppendFacts, Zenon
  <2>5. \A k \in 1 .. Len(cs) : new[k] = cs[k]
    <3>1. \A e : \A k \in 1 .. Len(cs) : Append(cs, e)[k] = cs[k]
      BY <2>1, AppendFacts
    <3> QED BY <3>1, Zenon
  <2> QED BY <2>2, <2>3, <2>4, <2>5
<1>4. c.cp = cp /\ c.at = o /\ c.bytes = n /\ EndOf(c) = o + n
  BY DEF EndOf
<1> HIDE DEF c, new
<1>5. ASSUME NEW k \in 1 .. Len(cs)
      PROVE  Stands(s, o + n, new, k)
  <2>1. Stands(s, o, cs, k)
    BY <1>1, <1>5
  <2>2. new[k] = cs[k] /\ \A j \in 1 .. k - 1 : new[j] = cs[j]
    BY <1>1, <1>3
  <2>3. k # 1 => new[k - 1] = cs[k - 1]
    <3>1. k # 1 => k - 1 \in 1 .. Len(cs)
      BY <1>1
    <3> QED BY <1>3, <3>1, Zenon
  <2>4. EndOf(new[k]) <= o + n
    <3>1. EndOf(cs[k]) <= o /\ EndOf(cs[k]) \in Int
      BY <1>1, <2>1 DEF Stands, EndOf
    <3> QED BY <1>1, <1>2, <2>2, <3>1
  <2> QED BY <2>1, <2>2, <2>3, <2>4, Zenon DEF Stands
<1>6. Stands(s, o + n, new, Len(cs) + 1)
  <2> DEFINE k == Len(cs) + 1
  <2>1. new[k] = c /\ k - 1 = Len(cs)
    BY <1>1, <1>3
  <2>2. o = IF k = 1 THEN 0 ELSE EndOf(new[k - 1])
    <3>1. CASE cs = <<>>
      BY <1>1, <3>1
    <3>2. CASE cs # <<>>
      <4>1. Len(cs) # 0 /\ Len(cs) \in 1 .. Len(cs)
        <5>1. Len(cs) # 0
          BY <1>1, <3>2 DEF IsSeq
        <5> QED BY <1>1, <5>1
      <4> QED BY <1>1, <1>3, <2>1, <3>2, <4>1
    <3> QED BY <3>1, <3>2
  <2>3. \A j \in 1 .. k - 1 : EndOf(new[j]) <= o
    <3> SUFFICES ASSUME NEW j \in 1 .. Len(cs) PROVE EndOf(new[j]) <= o
      BY <2>1
    <3>1. Stands(s, o, cs, j) /\ new[j] = cs[j]
      BY <1>1, <1>3
    <3> QED BY <3>1 DEF Stands
  <2>4. EndOf(new[k]) <= o + n
    BY <1>1, <1>2, <1>4, <2>1
  <2>5. new[k].at = o /\ new[k].bytes = n /\ new[k].cp = cp
    BY <1>4, <2>1, Zenon
  <2>6. o \in 0 .. Len(s) - 1 /\ n \in Nat \ {0}
    BY <1>1, <1>2
  <2>7. Stands(s, o + n, new, k)
    <3> HIDE DEF k
    <3> QED BY <2>2, <2>3, <2>4, <2>5, <2>6, Zenon DEF Stands
  <2> QED BY <2>7
<1>7. ASSUME NEW p \in 1 .. o + n
      PROVE  \E k \in DOMAIN new : new[k].at < p /\ p <= EndOf(new[k])
  <2>1. CASE p <= o
    <3>1. PICK k \in DOMAIN cs : cs[k].at < p /\ p <= EndOf(cs[k])
      BY <1>1, <1>2, <2>1
    <3>2. k \in DOMAIN new /\ new[k] = cs[k]
      BY <1>1, <1>3
    <3> QED BY <3>1, <3>2
  <2>2. CASE p > o
    <3>1. Len(cs) + 1 \in DOMAIN new
      BY <1>1, <1>3
    <3>2. new[Len(cs) + 1].at < p /\ p <= EndOf(new[Len(cs) + 1])
      BY <1>1, <1>2, <1>3, <1>4, <2>2
    <3> QED BY <3>1, <3>2, Zenon
  <2> QED BY <1>1, <1>2, <2>1, <2>2
<1>8. o + n \in 0 .. Len(s)
  BY <1>1, <1>2
<1>9. o + n = IF new = <<>> THEN 0 ELSE EndOf(new[Len(new)])
  BY <1>3, <1>4
<1>10. \A k \in DOMAIN new : Stands(s, o + n, new, k)
  BY <1>1, <1>3, <1>5, <1>6
<1>11. Scanned(s, o + n, new)
  BY <1>1, <1>3, <1>7, <1>8, <1>9, <1>10, Zenon DEF Scanned
<1> QED BY <1>11 DEF c, new

LEMMA DecodeStart == FrontEndInit => DecodeInv
<1> SUFFICES ASSUME FrontEndInit PROVE DecodeInv
  OBVIOUS
<1>1. offset = 0 /\ cps = <<>> /\ (bytes = <<>> \/ bytes \in ByteStrings)
  BY DEF FrontEndInit, Decoder!Start
<1>2. bytes \in Seq(Byte)
  <2>1. CASE bytes = <<>>
    BY <2>1
  <2>2. CASE bytes \in ByteStrings
    BY <2>2, BytesAssumption, Zenon DEF Byte
  <2> QED BY <1>1, <2>1, <2>2
<1>3. Len(bytes) \in Nat
  BY <1>2
<1> QED BY <1>1, <1>2, <1>3, EmptyIsSeq DEF DecodeInv, Scanned

LEMMA DecodeInductive == DecodeInv /\ [FrontEndNext]_allVars => DecodeInv'
<1> SUFFICES ASSUME DecodeInv, [FrontEndNext]_allVars PROVE DecodeInv'
  OBVIOUS
<1>1. ASSUME UNCHANGED decoderVars
      PROVE  DecodeInv'
  <2>1. bytes' = bytes /\ offset' = offset /\ cps' = cps
    BY <1>1 DEF decoderVars
  <2> QED BY <2>1 DEF DecodeInv
<1>2. CASE DecodeStep
  <2> DEFINE c == Decoder!utf8_next_codepoint(Here(bytes, offset))
  <2>1. /\ offset < Len(bytes)
        /\ cps' = Append(cps, [cp |-> c.cp, at |-> offset, bytes |-> c.bytes])
        /\ offset' = offset + c.bytes /\ bytes' = bytes
    BY <1>2 DEF DecodeStep, Decoder!Decode, Decoder!Rest, Here
  <2>2. Scanned(bytes, offset + c.bytes,
                Append(cps, [cp |-> c.cp, at |-> offset, bytes |-> c.bytes]))
    BY <2>1, ScanGrows, Zenon DEF DecodeInv
  <2> HIDE DEF c
  <2> QED BY <2>1, <2>2 DEF DecodeInv
<1>3. CASE UNCHANGED allVars
  BY <1>1, <1>3 DEF allVars
<1> QED BY <1>1, <1>2, <1>3 DEF FrontEndNext, StartLexer, LexStep, StartParser, ParseStep

LEMMA DecodeInvHolds == FrontEndSpec => []DecodeInv
  BY DecodeStart, DecodeInductive, PTL DEF FrontEndSpec

LEMMA ScanIsTrue == DecodeInv => Decoder!ScanFollowsTheTable
<1> SUFFICES ASSUME DecodeInv PROVE Decoder!ScanFollowsTheTable
  OBVIOUS
<1>1. Scanned(bytes, offset, cps)
  BY DEF DecodeInv
<1>2. offset = IF cps = <<>> THEN 0 ELSE Decoder!Last(cps).at + Decoder!Last(cps).bytes
  BY <1>1 DEF Scanned, EndOf, Decoder!Last
<1>3. ASSUME NEW k \in DOMAIN cps
      PROVE  LET c    == cps[k]
                 here == SubSeq(bytes, c.at + 1, Len(bytes))
                 rows == {row \in Decoder!Table : Decoder!Matches(here, row)}
             IN  /\ c.at = IF k = 1 THEN 0 ELSE cps[k - 1].at + cps[k - 1].bytes
                 /\ Decoder!utf8_is_well_formed_at(here) <=> rows # {}
                 /\ \A row \in rows : c.bytes = Len(row)
                                 /\ c.cp = Decoder!ScalarValue(here, Len(row))
                 /\ rows = {} => c.bytes = 1
  <2> DEFINE c    == cps[k]
             here == Here(bytes, c.at)
  <2>1. bytes \in Seq(Byte) /\ Stands(bytes, offset, cps, k)
    BY <1>1, Zenon DEF Scanned
  <2>2. here \in Seq(Byte) /\ here # <<>>
    BY <2>1, HereFacts, Zenon DEF Stands
  <2>3. /\ c.cp = Decoder!utf8_next_codepoint(here).cp
        /\ c.bytes = Decoder!utf8_next_codepoint(here).bytes
        /\ c.at = IF k = 1 THEN 0 ELSE cps[k - 1].at + cps[k - 1].bytes
    BY <2>1, Zenon DEF Stands, EndOf
  <2> HIDE DEF here
  <2>4. LET rows == {row \in Decoder!Table : Decoder!Matches(here, row)}
        IN  /\ Decoder!utf8_is_well_formed_at(here) <=> rows # {}
            /\ \A row \in rows : c.bytes = Len(row)
                                 /\ c.cp = Decoder!ScalarValue(here, Len(row))
            /\ rows = {} => c.bytes = 1
    BY <2>2, <2>3, OneCall, Zenon
  <2> QED BY <2>3, <2>4, Zenon DEF here, Here
<1> QED BY <1>2, <1>3, Zenon DEF Decoder!ScanFollowsTheTable

-----------------------------------------------------------------------------
(* The cut *)

\* The length utf8_complete_prefix takes a lead byte to announce.
Needed(x) == IF x >= 240 THEN 4 ELSE IF x >= 224 THEN 3
             ELSE IF x >= 192 THEN 2 ELSE 1

LEMMA NeededFacts ==
    /\ \A x \in Lead1 : Needed(x) = 1 /\ x \notin Cont
    /\ \A x \in Lead2 : Needed(x) = 2 /\ x \notin Cont
    /\ \A x \in Lead3 : Needed(x) = 3 /\ x \notin Cont
    /\ \A x \in Lead4 : Needed(x) = 4 /\ x \notin Cont
  BY DEF Needed, Lead1, Lead2, Lead3, Lead4, Cont

\* A well-formed sequence: a lead byte that announces its length, and
\* continuation bytes.
LEMMA FormedBytes ==
    ASSUME NEW b, NEW m \in 1 .. 4, Formed(b, m)
    PROVE  /\ b[1] \notin Cont /\ Needed(b[1]) = m
           /\ \A j \in 2 .. m : b[j] \in Cont
<1>0. /\ \A j : j \in 2 .. 1 => FALSE
      /\ \A j : j \in 2 .. 2 => j = 2
      /\ \A j : j \in 2 .. 3 => j = 2 \/ j = 3
      /\ \A j : j \in 2 .. 4 => j = 2 \/ j = 3 \/ j = 4
  OBVIOUS
<1>1. CASE m = 1 /\ Form1(b)
  BY <1>0, <1>1, NeededFacts, Zenon DEF Form1
<1>2. CASE m = 2 /\ Form2(b)
  BY <1>0, <1>2, NeededFacts, Zenon DEF Form2
<1>3. CASE m = 3 /\ Form3(b)
  <2>1. b[1] \in Lead3 /\ b[2] \in Cont /\ b[3] \in Cont
    BY <1>3, PairFacts, Zenon DEF Form3
  <2> QED BY <1>0, <1>3, <2>1, NeededFacts, Zenon
<1>4. CASE m = 4 /\ Form4(b)
  <2>1. b[1] \in Lead4 /\ b[2] \in Cont /\ b[3] \in Cont /\ b[4] \in Cont
    BY <1>4, PairFacts, Zenon DEF Form4
  <2> QED BY <1>0, <1>4, <2>1, NeededFacts, Zenon
<1> QED BY <1>1, <1>2, <1>3, <1>4, Zenon DEF Formed

\* A text that ends within or right behind one character: the m bytes from
\* a + 1 on.
LEMMA CutInCharacter ==
    ASSUME NEW t \in Seq(Byte), NEW a \in Nat, NEW m \in 1 .. 4,
           Len(t) > a, Len(t) <= a + m,
           t[a + 1] \notin Cont, Needed(t[a + 1]) = m,
           \A j \in a + 2 .. Len(t) : t[j] \in Cont
    PROVE  Decoder!utf8_complete_prefix(t)
               = IF Len(t) < a + m THEN a ELSE Len(t)
<1> DEFINE len  == Len(t)
           P(k) == /\ \A j \in k + 1 .. len : Decoder!IsContinuation(t[j])
                   /\ len - k <= 3
                   /\ k = 0 \/ len - k = 3 \/ ~Decoder!IsContinuation(t[k])
           lead == CHOOSE k \in 0 .. len : P(k)
<1>0. len \in Nat /\ a + 1 \in 0 .. len /\ a + 1 # 0
  OBVIOUS
<1>1. \A x : Decoder!IsContinuation(x) <=> x \in Cont
  BY DEF Decoder!IsContinuation, Cont
<1>2. P(a + 1)
  <2>1. \A j \in (a + 1) + 1 .. len : Decoder!IsContinuation(t[j])
    <3>1. (a + 1) + 1 = a + 2
      OBVIOUS
    <3> QED BY <1>1, <3>1, Zenon
  <2>2. len - (a + 1) <= 3
    BY <1>0
  <2>3. ~Decoder!IsContinuation(t[a + 1])
    BY <1>1
  <2> QED BY <2>1, <2>2, <2>3, Zenon
<1>3. ASSUME NEW k \in 0 .. len, P(k)
      PROVE  k = a + 1
  <2>1. CASE k < a + 1
    <3>1. a + 1 \in k + 1 .. len
      BY <1>0, <2>1
    <3>2. Decoder!IsContinuation(t[a + 1])
      BY <1>3, <3>1, Zenon
    <3> QED BY <1>1, <3>2, Zenon
  <2>2. CASE k > a + 1
    <3>1. k \in a + 2 .. len /\ len - k # 3 /\ k # 0
      BY <1>0, <2>2
    <3>2. Decoder!IsContinuation(t[k])
      BY <1>1, <3>1, Zenon
    <3> QED BY <1>3, <3>1, <3>2, Zenon
  <2> QED BY <1>0, <2>1, <2>2
<1>4. lead = a + 1
  <2>1. lead \in 0 .. len /\ P(lead)
    <3> HIDE DEF P
    <3> QED BY <1>0, <1>2
  <2> HIDE DEF P, lead
  <2> QED BY <1>3, <2>1
<1>5. Decoder!utf8_complete_prefix(t)
          = IF lead = 0 THEN len
            ELSE IF len - (lead - 1) < Needed(t[lead]) THEN lead - 1 ELSE len
  BY Zenon DEF Decoder!utf8_complete_prefix, Needed
<1> HIDE DEF lead, len
<1>6. (a + 1) - 1 = a /\ (len - a < m <=> len < a + m)
  BY <1>0
<1>7. Decoder!utf8_complete_prefix(t) = IF len < a + m THEN a ELSE len
  BY <1>0, <1>4, <1>5, <1>6, Zenon
<1> QED BY <1>7 DEF len

LEMMA CutOfNothing ==
    ASSUME NEW t \in Seq(Byte), Len(t) = 0
    PROVE  Decoder!utf8_complete_prefix(t) = 0
<1> DEFINE P(k) == /\ \A j \in k + 1 .. Len(t) : Decoder!IsContinuation(t[j])
                   /\ Len(t) - k <= 3
                   /\ k = 0 \/ Len(t) - k = 3 \/ ~Decoder!IsContinuation(t[k])
           lead == CHOOSE k \in 0 .. Len(t) : P(k)
<1>1. P(0) /\ 0 \in 0 .. Len(t)
  OBVIOUS
<1>2. lead \in 0 .. Len(t)
  <2> HIDE DEF P
  <2> QED BY <1>1
<1>3. lead = 0
  <2> HIDE DEF lead, P
  <2> QED BY <1>2
<1>4. lead = 0 => Decoder!utf8_complete_prefix(t) = Len(t)
  BY Zenon DEF Decoder!utf8_complete_prefix
<1> HIDE DEF lead
<1> QED BY <1>3, <1>4

LEMMA FrontFacts ==
    ASSUME NEW s \in Seq(Byte), NEW n \in 0 .. Len(s)
    PROVE  /\ SubSeq(s, 1, n) \in Seq(Byte) /\ Len(SubSeq(s, 1, n)) = n
           /\ \A i \in 1 .. n : SubSeq(s, 1, n)[i] = s[i]
<1>1. Len(s) \in Nat /\ n \in Int /\ 1 \in Int
  OBVIOUS
<1>2. \A i \in 1 .. n : s[i] \in Byte
  BY <1>1
<1>3. /\ SubSeq(s, 1, n) \in Seq(Byte)
      /\ Len(SubSeq(s, 1, n)) = IF 1 <= n THEN n - 1 + 1 ELSE 0
      /\ \A i \in 1 .. n - 1 + 1 : SubSeq(s, 1, n)[i] = s[1 + i - 1]
  BY <1>1, <1>2, SubSeqProperties
<1>4. (IF 1 <= n THEN n - 1 + 1 ELSE 0) = n /\ n - 1 + 1 = n
  BY <1>1
<1>5. \A i \in 1 .. n : 1 + i - 1 = i
  BY <1>1
<1> QED BY <1>3, <1>4, <1>5, Zenon

\* Every cut of a scanned text of whole characters.
LEMMA CutFacts ==
    ASSUME NEW s, NEW cs, Scanned(s, Len(s), cs),
           \A k \in DOMAIN cs : Decoder!utf8_is_well_formed_at(Here(s, cs[k].at)),
           NEW n \in 0 .. Len(s)
    PROVE  LET kept == Decoder!utf8_complete_prefix(SubSeq(s, 1, n))
               ends == {0} \cup {EndOf(cs[k]) : k \in DOMAIN cs}
           IN  /\ kept \in ends /\ kept <= n
               /\ \A e \in ends : e <= n => e <= kept
<1> DEFINE t    == SubSeq(s, 1, n)
           kept == Decoder!utf8_complete_prefix(t)
           ends == {0} \cup {EndOf(cs[k]) : k \in DOMAIN cs}
<1>1. /\ s \in Seq(Byte) /\ Len(s) \in Nat /\ n \in Nat
      /\ IsSeq(cs) /\ Len(cs) \in Nat /\ DOMAIN cs = 1 .. Len(cs)
  BY SeqFacts DEF Scanned
<1>2. t \in Seq(Byte) /\ Len(t) = n /\ \A i \in 1 .. n : t[i] = s[i]
  BY <1>1, FrontFacts
<1>3. \A k \in DOMAIN cs : Stands(s, Len(s), cs, k)
  BY Zenon DEF Scanned
<1>4. \A e \in ends : e \in Int
  <2>1. \A k \in DOMAIN cs : EndOf(cs[k]) \in Int
    BY <1>1, <1>3 DEF Stands, EndOf
  <2> QED BY <2>1
<1>5. CASE n = 0
  <2>1. kept = 0
    BY <1>2, <1>5, CutOfNothing
  <2>2. 0 \in ends
    OBVIOUS
  <2> HIDE DEF kept, ends
  <2>3. kept \in ends /\ kept <= n /\ \A e \in ends : e <= n => e <= kept
    BY <1>4, <1>5, <2>1, <2>2
  <2> QED BY <2>3 DEF kept, ends
<1>6. CASE n # 0
  <2>1. n \in 1 .. Len(s)
    BY <1>1, <1>6
  <2>2. PICK k \in DOMAIN cs : cs[k].at < n /\ n <= EndOf(cs[k])
    BY <2>1 DEF Scanned
  <2> DEFINE a == cs[k].at
             b == Here(s, a)
  <2>3. /\ a \in 0 .. Len(s) - 1 /\ a \in Nat
        /\ cs[k].bytes = Decoder!utf8_next_codepoint(b).bytes
        /\ a = IF k = 1 THEN 0 ELSE EndOf(cs[k - 1])
        /\ \A j \in 1 .. k - 1 : EndOf(cs[j]) <= a
    BY <1>3, <2>2 DEF Stands
  <2>4. /\ b \in Seq(Byte) /\ b # <<>>
        /\ \A i \in 1 .. Len(s) - a : b[i] = s[a + i]
    BY <1>1, <2>3, HereFacts, Zenon
  <2>5. Decoder!utf8_is_well_formed_at(b)
    BY Zenon
  <2>6. PICK m \in 1 .. 4 : Formed(b, m)
    BY <2>4, <2>5, WellFormedIsFormed, Zenon
  <2>7. cs[k].bytes = m /\ m <= Len(b) /\ Len(b) = Len(s) - a
    <3>1. Decoder!utf8_next_codepoint(b) = Character(Decoder!ScalarValue(b, m), m)
          /\ m <= Len(b)
      BY <2>4, <2>6, DecoderFollowsTheForms, Zenon
    <3>2. Len(b) = Len(s) - a
      BY <1>1, <2>3, HereFacts, Zenon
    <3>3. Decoder!utf8_next_codepoint(b).bytes = m
      BY <3>1, CharacterFields, Zenon
    <3> QED BY <2>3, <3>1, <3>2, <3>3, Zenon
  <2>8. EndOf(cs[k]) = a + m
    BY <2>7 DEF EndOf
  <2> HIDE DEF a, b, t
  <2>9. t[a + 1] \notin Cont /\ Needed(t[a + 1]) = m
    <3>1. b[1] \notin Cont /\ Needed(b[1]) = m
      BY <2>6, FormedBytes, Zenon
    <3>2. 1 \in 1 .. Len(s) - a /\ a + 1 \in 1 .. n
      BY <1>1, <2>2, <2>3 DEF a
    <3> QED BY <1>2, <2>4, <3>1, <3>2, Zenon
  <2>10. a < n /\ n <= a + m
    BY <2>2, <2>8, Zenon DEF a
  <2>11. ASSUME NEW j \in a + 2 .. n
         PROVE  t[j] \in Cont
    <3>0. a \in Nat /\ m \in Nat /\ n \in Nat /\ n <= Len(s) /\ Len(s) \in Nat
      BY <1>1, <2>3
    <3>1. /\ j - a \in 2 .. m /\ j - a \in 1 .. Len(s) - a /\ j \in 1 .. n
          /\ a + (j - a) = j
      BY <2>10, <3>0
    <3>2. b[j - a] \in Cont
      BY <2>6, <3>1, FormedBytes, Zenon
    <3> QED BY <1>2, <2>4, <3>1, <3>2, Zenon
  <2>12. kept = IF n < a + m THEN a ELSE n
    <3>1. Len(t) > a /\ Len(t) <= a + m
      BY <1>2, <2>3, <2>10
    <3> QED BY <1>2, <2>3, <2>9, <2>11, <3>1, CutInCharacter, Zenon
  <2>13. a \in ends /\ a + m \in ends
    <3>1. k # 1 => k - 1 \in DOMAIN cs
      BY <1>1
    <3>2. a \in ends
      BY <2>3, <3>1, Zenon
    <3>3. a + m \in ends
      BY <2>8, Zenon
    <3> QED BY <3>2, <3>3
  <2>14. ASSUME NEW e \in ends, e <= n
         PROVE  e <= kept
    <3>1. CASE e = 0
      BY <1>1, <2>3, <2>12, <3>1
    <3>2. ASSUME NEW j \in DOMAIN cs, e = EndOf(cs[j])
          PROVE  e <= kept
      <4>1. CASE j < k
        <5>1. e <= a
          BY <1>1, <2>3, <3>2, <4>1
        <5> QED BY <1>1, <1>4, <2>3, <2>10, <2>12, <5>1
      <4>2. CASE j = k
        BY <2>3, <2>8, <2>10, <2>12, <2>14, <3>2, <4>2
      <4>3. CASE j > k
        <5>1. Stands(s, Len(s), cs, j)
          BY <1>3
        <5>2. EndOf(cs[k]) <= cs[j].at
          BY <1>1, <4>3, <5>1 DEF Stands
        <5>3. cs[j].at < EndOf(cs[j]) /\ cs[j].at \in Int /\ EndOf(cs[j]) \in Int
          BY <1>1, <5>1 DEF Stands, EndOf
        <5> QED BY <2>3, <2>8, <2>10, <2>14, <3>2, <5>2, <5>3
      <4> QED BY <1>1, <4>1, <4>2, <4>3
    <3> QED BY <3>1, <3>2
  <2>15. kept \in ends /\ kept <= n
    <3> HIDE DEF kept, ends
    <3>1. n < a + m \/ n = a + m
      BY <1>1, <2>3, <2>10
    <3> QED BY <1>1, <2>3, <2>10, <2>12, <2>13, <3>1
  <2> QED BY <2>14, <2>15, Zenon DEF t
<1> QED BY <1>5, <1>6

LEMMA CutsAreWhole == DecodeInv => Decoder!CutKeepsWholeCharacters
<1> SUFFICES ASSUME DecodeInv, offset = Len(bytes), Decoder!WellFormed,
                    NEW n \in 0 .. Len(bytes)
             PROVE  LET kept == Decoder!utf8_complete_prefix(SubSeq(bytes, 1, n))
                        ends == {0} \cup {cps[k].at + cps[k].bytes : k \in DOMAIN cps}
                    IN  /\ kept \in ends /\ kept <= n
                        /\ \A e \in ends : e <= n => e <= kept
  BY Zenon DEF Decoder!CutKeepsWholeCharacters
<1>1. Scanned(bytes, Len(bytes), cps)
  BY DEF DecodeInv
<1>2. \A k \in DOMAIN cps : Decoder!utf8_is_well_formed_at(Here(bytes, cps[k].at))
  BY Zenon DEF Decoder!WellFormed, Here
<1>3. LET kept == Decoder!utf8_complete_prefix(SubSeq(bytes, 1, n))
          ends == {0} \cup {EndOf(cps[k]) : k \in DOMAIN cps}
      IN  /\ kept \in ends /\ kept <= n
          /\ \A e \in ends : e <= n => e <= kept
  BY <1>1, <1>2, CutFacts, Zenon
<1> QED BY <1>3, Zenon DEF EndOf

(***************************************************************************)
(* For every byte string: utf8_next_codepoint of arabic.c takes at each    *)
(* place exactly the well-formed sequence of the Unicode table that stands *)
(* there, with its value, or one byte where none stands; and               *)
(* utf8_complete_prefix keeps a text of whole characters, wherever it was  *)
(* cut, up to its last whole character and no further.                     *)
(***************************************************************************)
THEOREM CharactersAreNeverSplit == FrontEndSpec => []CharactersStayWhole
<1>1. DecodeInv => CharactersStayWhole
  BY ScanIsTrue, CutsAreWhole, Zenon
     DEF CharactersStayWhole, Decoder!CharactersStayWhole
<1> QED BY <1>1, DecodeInvHolds, PTL

=============================================================================
