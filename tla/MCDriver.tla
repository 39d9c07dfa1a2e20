------------------------------ MODULE MCDriver ------------------------------
(***************************************************************************)
(* A working directory /w with a subdirectory d and a symbolic link l to   *)
(* d; a hard link h.o to the source; command lines that assemble with each *)
(* pair of output paths, and every sequence of up to three arguments.      *)
(***************************************************************************)
EXTENDS Driver

P(absolute, dirs, stem, ext) ==
    [absolute |-> absolute, dirs |-> dirs, stem |-> stem, ext |-> ext]
F(dir, stem, ext) == [dir |-> dir, stem |-> stem, ext |-> ext]

MCCwd == <<"w">>
MCLinks == (<<<<"w">>, "l">> :> <<"w", "d">>)
MCSameInode == (F(<<"w">>, "h", "o") :> F(<<"w">>, "s", "nazm"))

MCPathOf ==
    "s.nazm" :> P(FALSE, <<>>, "s", "nazm")
    @@ "a.o" :> P(FALSE, <<>>, "a", "o")
    @@ "s.o" :> P(FALSE, <<>>, "s", "o")
    @@ "h.o" :> P(FALSE, <<>>, "h", "o")
    @@ "d/a.o" :> P(FALSE, <<"d">>, "a", "o")
    @@ "l/a.o" :> P(FALSE, <<"l">>, "a", "o")
    @@ "/../w/./a.o" :> P(TRUE, <<"..", "w", ".">>, "a", "o")
    @@ "d/../a.o" :> P(FALSE, <<"d", "..">>, "a", "o")
    @@ "l/../s.nazm" :> P(FALSE, <<"l", "..">>, "s", "nazm")
    @@ "" :> P(FALSE, <<>>, "", "")
    @@ "--listing" :> P(FALSE, <<>>, "--listing", "")
    @@ "--help" :> P(FALSE, <<>>, "--help", "")

Given == {"s.nazm", "a.o", "s.o", "h.o", "d/a.o", "l/a.o", "/../w/./a.o",
          "d/../a.o", "l/../s.nazm", ""}

\* Command lines that assemble.
Assembling ==
    {<<"s.nazm">>, <<"--format", "coff", "s.nazm">>}
    \cup {<<"--out", p, "s.nazm">> : p \in Given}
    \cup {<<"--listing", p, "s.nazm">> : p \in Given}
    \cup {<<"--out", p, "--listing", q, "l/../s.nazm">> : p, q \in Given}

\* Every short sequence of a few arguments, for the scan.
Words == {"s.nazm", "a.o", "--out", "--listing", "--help", "--format", "coff",
          "--name", "-o"}
Scanned == UNION {[1 .. n -> Words] : n \in 0 .. 3}
           \cup {<<"--verbose">> \o w \o <<"s.nazm">> : w \in [1 .. 2 -> Words]}
           \cup {<<"--name", "", "s.nazm">>, <<"--version">>, <<"--api-info">>}

MCCommandLines == Assembling \cup Scanned

MCPathOfAll ==
    [a \in Words \cup Given \cup {"--verbose", "--version", "--api-info"} |->
        IF a \in DOMAIN MCPathOf THEN MCPathOf[a] ELSE P(FALSE, <<>>, a, "")]

MCFiles ==
    {FileOf(MCPathOfAll[a]) : a \in DOMAIN MCPathOfAll}
    \cup {F(<<"w">>, "s", "o"), F(<<"w">>, "s", "obj"), F(<<>>, "s", "nazm")}

\* The outputs of an earlier run are there, or not.
MCDisks ==
    {[f \in MCFiles |-> IF f = F(<<"w">>, "s", "nazm") THEN "source"
                        ELSE IF f \in old THEN "old" ELSE "none"] :
        old \in {{}, {F(<<"w">>, "a", "o"), F(<<"w">>, "s", "o")},
                 {F(<<"w", "d">>, "a", "o")}}}
=============================================================================
