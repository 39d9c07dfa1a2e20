------------------------------- MODULE Driver -------------------------------
(***************************************************************************)
(* The command-line driver, nazm_main_utf8 of src/main.c: arguments,       *)
(* source file, the four stages, the comparison of the paths, the object   *)
(* and the listing, with every failure and the exit code it leads to.      *)
(*                                                                         *)
(* `content' is the file system: what each file holds that exists or can   *)
(* be created.  Opening a file for writing empties it; nothing the driver  *)
(* does removes one.  No other process writes while it runs.               *)
(***************************************************************************)
EXTENDS Naturals, PathIdentity, CliArgs

CONSTANTS
    CommandLines,   \* the argument vectors
    Disks           \* the file systems to start from: [file -> content]

\* No file has an empty name, so nothing is opened through an empty path.
ASSUME EmptyNameAssumption ==
    /\ \A f \in DOMAIN SameInode : f.stem # "" /\ SameInode[f].stem # ""
    /\ \A d \in Disks : \A f \in DOMAIN d : f.stem = "" => d[f] = "none"

VARIABLES
    argv, args,     \* the arguments, and what cli_parse made of them
    pc,             \* the step to come, or "exit"
    exit,           \* the exit code, 9 while running
    content,        \* [file -> "none", "source", "old", "partial", "object"
                    \*          or "listing"]
    disk            \* content as it was at the start

vars == <<argv, args, pc, exit, content, disk>>

Existing == {f \in DOMAIN content : content[f] # "none"}

\* make_output_path: the extension of the last segment is replaced.
make_output_path(source) ==
    [PathOf[source] EXCEPT !.ext = IF args.format = "coff" THEN "obj" ELSE "o"]

source_path == PathOf[args.source]
out_path == IF args.output = "none" THEN make_output_path(args.source)
            ELSE PathOf[args.output]
listing_path == PathOf[args.listing]
HasListing == args.listing # "none"

Exit(code) == pc' = "exit" /\ exit' = code

Init ==
    /\ argv \in CommandLines
    /\ args = EmptyArgs
    /\ pc = "args"
    /\ exit = 9
    /\ disk \in Disks
    /\ content = disk

ParseArgs ==
    /\ pc = "args"
    /\ args' = cli_parse(argv)
    /\ \/ args'.status \in Queries /\ Exit(0)
       \/ args'.status = "invalid" /\ Exit(2)
       \/ args'.status = "valid" /\ pc' = "read" /\ UNCHANGED exit
    /\ UNCHANGED <<argv, content, disk>>

\* read_file: it cannot be opened, sized or read, is too large, or is read.
ReadSource ==
    /\ pc = "read"
    /\ \/ Exit(2)
       \/ FileOf(source_path) \in Existing /\ pc' = "lex" /\ UNCHANGED exit
    /\ UNCHANGED <<argv, args, content, disk>>

\* The stages in order; each reports errors, runs out of memory or succeeds.
StageAfter == [lex |-> "parse", parse |-> "pass1", pass1 |-> "pass2",
               pass2 |-> "paths"]

RunStage ==
    /\ pc \in DOMAIN StageAfter
    /\ \/ Exit(1)
       \/ Exit(2)
       \/ pc' = StageAfter[pc] /\ UNCHANGED exit
    /\ UNCHANGED <<argv, args, content, disk>>

\* The pairs of paths that must differ.
PathPairs ==
    {<<out_path, source_path>>}
    \cup IF HasListing
         THEN {<<listing_path, source_path>>, <<listing_path, out_path>>}
         ELSE {}

\* One clash, or one doubt, is enough to stop.
CheckPaths ==
    /\ pc = "paths"
    /\ \E answer \in [PathPairs -> {"SAME", "UNKNOWN", "DIFFERENT"}] :
        /\ \A p \in PathPairs :
               answer[p] \in io_path_identity(p[1], p[2], Existing)
        /\ IF Range(answer) = {"DIFFERENT"}
           THEN pc' = "build" /\ UNCHANGED exit
           ELSE Exit(2)
    /\ UNCHANGED <<argv, args, content, disk>>

\* output_write, which may refuse the input; nothing is written yet.
BuildObject ==
    /\ pc = "build"
    /\ \/ Exit(1)
       \/ Exit(2)
       \/ pc' = "open_object" /\ UNCHANGED exit
    /\ UNCHANGED <<argv, args, content, disk>>

\* Wrong form: a failed write has the exit code of a rejected source.
WriteFailureCodeOfSource == 1

WriteFailureCode == 2

\* io_fopen_utf8(path, "wb"): it fails, or the file is empty from now on.
Open(path, then) ==
    \/ Exit(WriteFailureCode) /\ UNCHANGED content
    \/ /\ path.stem # "" /\ FileOf(path) \in DOMAIN content
       /\ content' = [content EXCEPT ![FileOf(path)] = "partial"]
       /\ pc' = then
       /\ UNCHANGED exit

\* fwrite and fclose: one of them fails, or the file is whole.
Fill(path, what, then) ==
    \/ Exit(WriteFailureCode) /\ UNCHANGED content
    \/ /\ content' = [content EXCEPT ![FileOf(path)] = what]
       /\ IF then = "exit" THEN Exit(0) ELSE pc' = then /\ UNCHANGED exit

OpenObject ==
    /\ pc = "open_object"
    /\ Open(out_path, "write_object")
    /\ UNCHANGED <<argv, args, disk>>

WriteObject ==
    /\ pc = "write_object"
    /\ Fill(out_path, "object", IF HasListing THEN "open_listing" ELSE "exit")
    /\ UNCHANGED <<argv, args, disk>>

OpenListing ==
    /\ pc = "open_listing"
    /\ Open(listing_path, "write_listing")
    /\ UNCHANGED <<argv, args, disk>>

WriteListing ==
    /\ pc = "write_listing"
    /\ Fill(listing_path, "listing", "exit")
    /\ UNCHANGED <<argv, args, disk>>

Terminated == pc = "exit" /\ UNCHANGED vars

Next == \/ ParseArgs \/ ReadSource \/ RunStage \/ CheckPaths \/ BuildObject
        \/ OpenObject \/ WriteObject \/ OpenListing \/ WriteListing
        \/ Terminated

Spec == Init /\ [][Next]_vars

-----------------------------------------------------------------------------

(***************************************************************************)
(* What the scan makes of a command line is what its grammar says: values  *)
(* are never taken for options, the last of several options counts, and    *)
(* the first query or error decides.                                       *)
(***************************************************************************)
ArgumentsAreRead == pc # "args" => IsReadingOf(args, argv)

(***************************************************************************)
(* The file the source is read from is never written, whatever names the   *)
(* outputs are given: other spellings, other links to the file, paths      *)
(* through symbolic links, or no name at all.                              *)
(***************************************************************************)
SourceIsSafe ==
    args.status = "valid" =>
        content[FileOf(source_path)] = disk[FileOf(source_path)]

\* The path is not empty and goes through no symbolic link.
Plain(path) ==
    /\ path.stem # ""
    /\ \A k \in DOMAIN path.dirs :
        LET before == [path EXCEPT !.dirs = SubSeq(path.dirs, 1, k - 1)]
        IN  <<Opened(before).dir, path.dirs[k]>> \notin DOMAIN Links

(***************************************************************************)
(* Of paths that go through no symbolic link, and with a working directory *)
(* that can be read, two that get past the check are two files, for any    *)
(* mixture of ".", "..", relative and absolute.  When getcwd fails, what   *)
(* io_path_identity answers is still right for two absolute paths and for  *)
(* a file that exists, and wrong at most for two names, one of them        *)
(* relative, of a file yet to be made.  Two that are stopped as equal are  *)
(* one file, whatever fails.                                               *)
(***************************************************************************)
PlainPathsAreTold ==
    pc = "paths" =>
        \A p \in PathPairs : Plain(p[1]) /\ Plain(p[2]) =>
            /\ "DIFFERENT" \in
                    IdentityUnder(Faults \ {"GETCWD"}, p[1], p[2], Existing) =>
                   Opened(p[1]) # Opened(p[2])
            /\ "DIFFERENT" \in io_path_identity(p[1], p[2], Existing) =>
                   \/ Opened(p[1]) # Opened(p[2])
                   \/ /\ ~(p[1].absolute /\ p[2].absolute)
                      /\ FileOf(p[1]) \notin Existing
            /\ "SAME" \in io_path_identity(p[1], p[2], Existing) =>
                   FileOf(p[1]) = FileOf(p[2])

\* Object and listing are one file, which did not exist before: io_path_identity
\* told its two names apart, one of them through a symbolic link, or one of them
\* relative while getcwd failed.
UnseenAlias ==
    HasListing /\ FileOf(out_path) = FileOf(listing_path)
    /\ disk[FileOf(out_path)] = "none"

(***************************************************************************)
(* The exit code tells what became of the files.  After a rejected source  *)
(* (1), a query or a wrong command line every file is as it was.  After    *)
(* success (0) the object, and the listing when one was asked for, are     *)
(* whole; the one exception is an object and a listing that are the same   *)
(* new file under two names.  After a failure (2), as ever, no file but    *)
(* these two has changed, and a listing has only where the object is       *)
(* whole: a write that fails is the last thing the driver does.            *)
(***************************************************************************)
ExitCodeTellsTheFiles ==
    /\ exit = 1 \/ args.status \in Queries \cup {"invalid"} => content = disk
    /\ args.status = "valid" =>
        \A f \in DOMAIN content : content[f] # disk[f] =>
            f = FileOf(out_path) \/ (HasListing /\ f = FileOf(listing_path))
    /\ exit = 2 /\ args.status = "valid" /\ HasListing /\ ~UnseenAlias =>
        \A f \in DOMAIN content : f = FileOf(listing_path) /\ content[f] # disk[f] =>
            content[FileOf(out_path)] = "object"
    /\ exit = 0 /\ args.status = "valid" =>
        /\ HasListing => content[FileOf(listing_path)] = "listing"
        /\ ~UnseenAlias => content[FileOf(out_path)] = "object"
=============================================================================
