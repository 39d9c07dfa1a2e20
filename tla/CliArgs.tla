------------------------------ MODULE CliArgs -------------------------------
(***************************************************************************)
(* The argument parser, cli_parse of src/cli/args.c: one scan from left to *)
(* right in which an option that takes a value takes whatever follows it.  *)
(***************************************************************************)
EXTENDS Naturals, Sequences, SequencesExt

CONSTANTS
    PathOf,    \* [argument -> path], how an argument reads as a path
    Dashed     \* arguments that start with '-' and are no option (0.3's too)

Queries == {"--help", "--version", "--api-info"}
ValueOptions == {"--out", "--listing", "--name", "--format"}
Formats == {"elf64", "coff"}

HasSourceSuffix(a) == PathOf[a].ext = "nazm"

-----------------------------------------------------------------------------
(* The scan.  `want' is the option whose value comes next. *)

EmptyArgs ==
    [status |-> "scan", want |-> "none", source |-> "none", output |-> "none",
     listing |-> "none", format |-> "elf64"]

Invalid(c) == [c EXCEPT !.status = "invalid"]

TakeValue(c, a) ==
    LET taken == [c EXCEPT !.want = "none"]
    IN  CASE c.want = "--out" -> [taken EXCEPT !.output = a]
          [] c.want = "--listing" -> [taken EXCEPT !.listing = a]
          [] c.want = "--name" -> IF a = "" THEN Invalid(c) ELSE taken
          [] c.want = "--format" -> IF a \in Formats
                                    THEN [taken EXCEPT !.format = a]
                                    ELSE Invalid(c)

\* Wrong form: an option is recognised even where a value is expected.
ScanArgOptionsFirst(c, a) ==
    IF c.status # "scan" THEN c
    ELSE IF a \in Queries THEN [c EXCEPT !.status = a]
    ELSE IF c.want # "none" THEN TakeValue(c, a)
    ELSE IF a \in ValueOptions THEN [c EXCEPT !.want = a]
    ELSE IF a = "--verbose" THEN c
    ELSE IF a \in Dashed \/ c.source # "none" THEN Invalid(c)
    ELSE [c EXCEPT !.source = a]

ScanArg(c, a) ==
    IF c.status # "scan" THEN c
    ELSE IF c.want # "none" THEN TakeValue(c, a)
    ELSE IF a \in Queries THEN [c EXCEPT !.status = a]
    ELSE IF a \in ValueOptions THEN [c EXCEPT !.want = a]
    ELSE IF a = "--verbose" THEN c
    ELSE IF a \in Dashed \/ c.source # "none" THEN Invalid(c)
    ELSE [c EXCEPT !.source = a]

EndOfArgs(c) ==
    IF c.status # "scan" THEN c
    ELSE IF c.want # "none" \/ c.source = "none" THEN Invalid(c)
    ELSE IF ~HasSourceSuffix(c.source) THEN Invalid(c)
    ELSE [c EXCEPT !.status = "valid"]

cli_parse(argv) == EndOfArgs(FoldLeft(ScanArg, EmptyArgs, argv))

-----------------------------------------------------------------------------
(* The same, said without a scan *)

\* The positions that are the value of the option before them.
ValuePositions(argv) ==
    LET isValue[i \in 0 .. Len(argv)] ==
            i > 1 /\ argv[i - 1] \in ValueOptions /\ ~isValue[i - 1]
    IN  {i \in DOMAIN argv : isValue[i]}

FreePositions(argv) == DOMAIN argv \ ValuePositions(argv)

Positionals(argv) ==
    {i \in FreePositions(argv) :
        argv[i] \notin Queries \cup ValueOptions \cup Dashed \cup {"--verbose"}}

\* The positions at which reading stops, for a query or for an error.
Stops(argv) ==
    {i \in FreePositions(argv) : argv[i] \in Queries \cup Dashed}
    \cup {i \in Positionals(argv) : \E j \in Positionals(argv) : j < i}
    \cup {i \in ValuePositions(argv) :
             \/ argv[i - 1] = "--format" /\ argv[i] \notin Formats
             \/ argv[i - 1] = "--name" /\ argv[i] = ""}

\* The value of the last occurrence of an option.
LastValue(argv, option, default) ==
    LET given == {i \in ValuePositions(argv) : argv[i - 1] = option}
    IN  IF given = {} THEN default
        ELSE argv[CHOOSE i \in given : \A j \in given : j <= i]

IsReadingOf(c, argv) ==
    IF Stops(argv) # {}
    THEN LET i == CHOOSE i \in Stops(argv) : \A j \in Stops(argv) : i <= j
         IN  c.status = IF i \in FreePositions(argv) /\ argv[i] \in Queries
                        THEN argv[i] ELSE "invalid"
    ELSE IF \/ \A i \in Positionals(argv) : ~HasSourceSuffix(argv[i])
            \/ /\ Len(argv) \in FreePositions(argv)
               /\ argv[Len(argv)] \in ValueOptions
    THEN c.status = "invalid"
    ELSE /\ c.status = "valid"
         /\ \E i \in Positionals(argv) : c.source = argv[i]
         /\ c.output = LastValue(argv, "--out", "none")
         /\ c.listing = LastValue(argv, "--listing", "none")
         /\ c.format = LastValue(argv, "--format", "elf64")
=============================================================================
