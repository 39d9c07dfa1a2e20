---------------------------- MODULE DriverProof -----------------------------
(***************************************************************************)
(* Proof that nazm_main_utf8 never writes the file it reads from, and that *)
(* its exit code tells what became of the files: for every command line,   *)
(* every file system with its links, and every failure on the way.  What   *)
(* cli_parse and the path comparison compute plays no part but for the     *)
(* answers io_path_identity may give.                                      *)
(***************************************************************************)
EXTENDS Driver, TLAPS

\* The steps before the object file is opened, and the ones after.
Reading == {"args", "read", "lex", "parse", "pass1", "pass2", "paths", "build",
            "open_object"}
Writing == {"write_object", "open_listing", "write_listing"}

\* The files that were there at the start.
Original == {f \in DOMAIN disk : disk[f] # "none"}

\* The source is a file, and CheckPaths told the outputs from it and from each
\* other as far as files that exist can tell them apart.
PathsTold ==
    /\ FileOf(source_path) \in Original
    /\ out_path.stem # "" => FileOf(out_path) # FileOf(source_path)
    /\ HasListing /\ listing_path.stem # "" =>
        /\ FileOf(listing_path) # FileOf(source_path)
        /\ out_path.stem # "" /\ FileOf(listing_path) = FileOf(out_path) =>
               FileOf(out_path) \notin Original

\* Only the outputs differ from the start.
OnlyOutputsChanged ==
    /\ DOMAIN content = DOMAIN disk
    /\ \A f \in DOMAIN content : content[f] # disk[f] =>
           f = FileOf(out_path) \/ (HasListing /\ f = FileOf(listing_path))

DriverInv ==
    /\ pc \in Reading \union Writing \union {"exit"}
    /\ disk \in Disks
    /\ exit \in {0, 1, 2, 9}
    /\ pc # "exit" => exit = 9
    /\ pc = "args" => args = EmptyArgs
    /\ pc \notin {"args", "exit"} => args.status = "valid"
    /\ pc \in Reading => content = disk
    /\ pc \in Reading \ {"args", "read"} => FileOf(source_path) \in Original
    /\ pc \in {"build", "open_object"} \union Writing => PathsTold
    /\ OnlyOutputsChanged
    /\ pc \in Writing => out_path.stem # "" /\ FileOf(out_path) \in DOMAIN content
    /\ pc = "write_object" /\ HasListing /\ ~UnseenAlias =>
        \A f \in DOMAIN content : f = FileOf(listing_path) => content[f] = disk[f]
    /\ pc = "open_listing" => HasListing /\ content[FileOf(out_path)] = "object"
    /\ pc = "write_listing" =>
        /\ HasListing /\ listing_path.stem # "" /\ FileOf(listing_path) \in DOMAIN content
        /\ ~UnseenAlias => /\ content[FileOf(out_path)] = "object"
                           /\ FileOf(out_path) # FileOf(listing_path)
    /\ SourceIsSafe
    /\ ExitCodeTellsTheFiles

-----------------------------------------------------------------------------
(* The operating system and the comparison *)

\* An empty path opens no file that exists.
LEMMA EmptyPathOpensNothing ==
    ASSUME disk \in Disks, NEW path, path.stem = ""
    PROVE  FileOf(path) \notin Original
<1>1. Opened(path).stem = ""
  BY DEF Opened
<1>2. Opened(path) \notin DOMAIN SameInode
  BY <1>1, EmptyNameAssumption
<1>3. FileOf(path) = Opened(path)
  BY <1>2 DEF FileOf
<1>4. \A f \in DOMAIN disk : f.stem = "" => disk[f] = "none"
  BY EmptyNameAssumption
<1> QED BY <1>1, <1>3, <1>4 DEF Original

\* A path that is not empty does not open what an empty one would.
LEMMA OneEmptyName ==
    ASSUME NEW left, NEW right, left.stem = "", right.stem # ""
    PROVE  FileOf(left) # FileOf(right)
<1>1. Opened(left).stem = "" /\ Opened(right).stem # ""
  BY DEF Opened
<1>2. FileOf(left).stem = ""
  BY <1>1, EmptyNameAssumption DEF FileOf
<1>3. FileOf(right).stem # ""
  BY <1>1, EmptyNameAssumption DEF FileOf
<1> QED BY <1>2, <1>3

\* Two nonempty paths that may be answered "different" are not one file that
\* exists.
LEMMA DifferentIsNotOneFile ==
    ASSUME NEW left, NEW right, NEW existing,
           "DIFFERENT" \in io_path_identity(left, right, existing),
           left.stem # "", right.stem # "", FileOf(left) = FileOf(right)
    PROVE  FileOf(right) \notin existing
BY DEF io_path_identity, IdentityUnder

-----------------------------------------------------------------------------
(* Steps that touch no file *)

\* The paths and the comparisons depend on the arguments and the files alone.
LEMMA SamePaths ==
    ASSUME UNCHANGED <<args, content, disk>>
    PROVE  /\ PathsTold' = PathsTold /\ OnlyOutputsChanged' = OnlyOutputsChanged
           /\ SourceIsSafe' = SourceIsSafe /\ UnseenAlias' = UnseenAlias
           /\ HasListing' = HasListing /\ Original' = Original
           /\ source_path' = source_path /\ out_path' = out_path
           /\ listing_path' = listing_path
BY DEF PathsTold, OnlyOutputsChanged, SourceIsSafe, UnseenAlias, HasListing, Original,
       source_path, out_path, listing_path, make_output_path

\* As long as it runs, the exit code says nothing.
LEMMA StillRunning ==
    ASSUME args'.status = "valid", exit' = 9, exit' \in {0, 1, 2, 9},
           OnlyOutputsChanged'
    PROVE  ExitCodeTellsTheFiles'
<1>1. exit' \in Int
  OBVIOUS
<1>2. exit' # 1 /\ exit' # 0 /\ exit' # 2
  BY <1>1
<1>3. args'.status \notin Queries \cup {"invalid"}
  BY DEF Queries
<1> QED BY <1>2, <1>3 DEF ExitCodeTellsTheFiles, OnlyOutputsChanged

\* The driver gives up: the files stay as the last step left them.
LEMMA GivingUp ==
    ASSUME DriverInv, pc \notin {"args", "exit"}, pc' = "exit", exit' \in {1, 2},
           exit' = 1 => pc \in Reading, UNCHANGED <<args, content, disk>>
    PROVE  DriverInv'
<1>1. args.status = "valid" /\ args.status \notin Queries \cup {"invalid"}
  BY DEF DriverInv, Queries
<1>2. exit' = 1 => content = disk
  BY DEF DriverInv
<1>3. SourceIsSafe' /\ OnlyOutputsChanged'
  BY SamePaths DEF DriverInv
<1>4. ASSUME HasListing, ~UnseenAlias, NEW f \in DOMAIN content,
             f = FileOf(listing_path), content[f] # disk[f]
      PROVE  content[FileOf(out_path)] = "object"
  <2>1. pc \notin Reading
    BY <1>4 DEF DriverInv
  <2>2. pc # "write_object"
    BY <1>4 DEF DriverInv
  <2> QED BY <1>4, <2>1, <2>2 DEF DriverInv, Writing
<1>5. exit' # 0
  <2>1. exit' \in Int
    OBVIOUS
  <2> QED BY <2>1
<1>6. ExitCodeTellsTheFiles'
  BY <1>1, <1>2, <1>3, <1>4, <1>5, SamePaths DEF ExitCodeTellsTheFiles, OnlyOutputsChanged
<1> QED BY <1>3, <1>6 DEF DriverInv, Reading, Writing

LEMMA WriteFailure ==
    ASSUME DriverInv, pc \notin {"args", "exit"}, pc' = "exit", exit' = 2,
           UNCHANGED <<args, content, disk>>
    PROVE  DriverInv'
<1>1. exit' \in Int
  OBVIOUS
<1>2. exit' \in {1, 2} /\ exit' # 1
  BY <1>1
<1> QED BY <1>2, GivingUp

\* The driver goes on to a step before the first write.
LEMMA GoingOn ==
    ASSUME DriverInv, pc \in Reading \ {"args"}, pc' \in Reading \ {"args", "read"},
           FileOf(source_path) \in Original,
           pc' \in {"build", "open_object"} => PathsTold,
           UNCHANGED <<args, exit, content, disk>>
    PROVE  DriverInv'
<1>1. args.status = "valid" /\ exit = 9 /\ exit \in {0, 1, 2, 9} /\ content = disk
  BY DEF DriverInv, Reading
<1>2. ExitCodeTellsTheFiles'
  BY <1>1, SamePaths, StillRunning DEF DriverInv
<1>3. /\ SourceIsSafe' /\ OnlyOutputsChanged' /\ FileOf(source_path') \in Original'
      /\ pc' \in {"build", "open_object"} => PathsTold'
  BY SamePaths DEF DriverInv
<1> QED BY <1>1, <1>2, <1>3 DEF DriverInv, Reading, Writing

LEMMA ParseArgsKeeps == DriverInv /\ ParseArgs => DriverInv'
<1> SUFFICES ASSUME DriverInv, ParseArgs PROVE DriverInv'
  OBVIOUS
<1>1. /\ pc = "args" /\ exit = 9 /\ content = disk /\ disk \in Disks
      /\ content' = content /\ disk' = disk
  BY DEF ParseArgs, DriverInv, Reading
<1>2. SourceIsSafe' /\ OnlyOutputsChanged'
  BY <1>1 DEF SourceIsSafe, OnlyOutputsChanged, source_path
<1>3. CASE args'.status \in Queries /\ Exit(0)
  <2>1. args'.status # "valid"
    BY <1>3 DEF Queries
  <2>2. ExitCodeTellsTheFiles'
    BY <1>1, <1>3, <2>1 DEF ExitCodeTellsTheFiles, Exit
  <2> QED BY <1>1, <1>2, <1>3, <2>2 DEF DriverInv, Exit, Reading, Writing
<1>4. CASE args'.status = "invalid" /\ Exit(2)
  <2>1. ExitCodeTellsTheFiles'
    BY <1>1, <1>4 DEF ExitCodeTellsTheFiles, Exit
  <2> QED BY <1>1, <1>2, <1>4, <2>1 DEF DriverInv, Exit, Reading, Writing
<1>5. CASE args'.status = "valid" /\ pc' = "read" /\ UNCHANGED exit
  <2>1. ExitCodeTellsTheFiles'
    BY <1>1, <1>5 DEF ExitCodeTellsTheFiles
  <2> QED BY <1>1, <1>2, <1>5, <2>1 DEF DriverInv, Reading, Writing
<1> QED BY <1>3, <1>4, <1>5 DEF ParseArgs

LEMMA ReadSourceKeeps == DriverInv /\ ReadSource => DriverInv'
<1> SUFFICES ASSUME DriverInv, ReadSource PROVE DriverInv'
  OBVIOUS
<1>1. pc = "read" /\ UNCHANGED <<args, content, disk>> /\ content = disk
  BY DEF ReadSource, DriverInv, Reading
<1>2. CASE Exit(2)
  BY <1>1, <1>2, GivingUp DEF Exit, Reading
<1>3. CASE FileOf(source_path) \in Existing /\ pc' = "lex" /\ UNCHANGED exit
  <2>1. FileOf(source_path) \in Original
    BY <1>1, <1>3 DEF Existing, Original
  <2> QED BY <1>1, <1>3, <2>1, GoingOn DEF Reading
<1> QED BY <1>2, <1>3 DEF ReadSource

LEMMA RunStageKeeps == DriverInv /\ RunStage => DriverInv'
<1> SUFFICES ASSUME DriverInv, RunStage PROVE DriverInv'
  OBVIOUS
<1>1. pc \in {"lex", "parse", "pass1", "pass2"} /\ UNCHANGED <<args, content, disk>>
  BY DEF RunStage, StageAfter
<1>2. FileOf(source_path) \in Original
  BY <1>1 DEF DriverInv, Reading
<1>3. CASE Exit(1) \/ Exit(2)
  BY <1>1, <1>3, GivingUp DEF Exit, Reading
<1>4. CASE pc' = StageAfter[pc] /\ UNCHANGED exit
  <2>1. pc' \in {"parse", "pass1", "pass2", "paths"}
    BY <1>1, <1>4 DEF StageAfter
  <2> QED BY <1>1, <1>2, <1>4, <2>1, GoingOn DEF Reading
<1> QED BY <1>3, <1>4 DEF RunStage

LEMMA BuildObjectKeeps == DriverInv /\ BuildObject => DriverInv'
<1> SUFFICES ASSUME DriverInv, BuildObject PROVE DriverInv'
  OBVIOUS
<1>1. pc = "build" /\ UNCHANGED <<args, content, disk>>
  BY DEF BuildObject
<1>2. FileOf(source_path) \in Original /\ PathsTold
  BY <1>1 DEF DriverInv, Reading
<1>3. CASE Exit(1) \/ Exit(2)
  BY <1>1, <1>3, GivingUp DEF Exit, Reading
<1>4. CASE pc' = "open_object" /\ UNCHANGED exit
  BY <1>1, <1>2, <1>4, GoingOn DEF Reading
<1> QED BY <1>3, <1>4 DEF BuildObject

\* Past the comparison, an output that can be opened is not the source.
LEMMA CheckPathsKeeps == DriverInv /\ CheckPaths => DriverInv'
<1> SUFFICES ASSUME DriverInv, CheckPaths PROVE DriverInv'
  OBVIOUS
<1>1. pc = "paths" /\ UNCHANGED <<args, content, disk>> /\ content = disk /\ disk \in Disks
  BY DEF CheckPaths, DriverInv, Reading
<1>2. FileOf(source_path) \in Original /\ Existing = Original
  BY <1>1 DEF DriverInv, Reading, Existing, Original
<1>3. PICK answer \in [PathPairs -> {"SAME", "UNKNOWN", "DIFFERENT"}] :
        /\ \A p \in PathPairs : answer[p] \in io_path_identity(p[1], p[2], Existing)
        /\ IF Range(answer) = {"DIFFERENT"}
           THEN pc' = "build" /\ UNCHANGED exit
           ELSE Exit(2)
  BY DEF CheckPaths
<1>4. CASE Range(answer) = {"DIFFERENT"}
  <2>1. \A p \in PathPairs : "DIFFERENT" \in io_path_identity(p[1], p[2], Original)
    BY <1>2, <1>3, <1>4 DEF Range
  <2>2. source_path.stem # ""
    BY <1>1, <1>2, EmptyPathOpensNothing
  <2>3. <<out_path, source_path>> \in PathPairs
    BY DEF PathPairs
  <2>4. "DIFFERENT" \in io_path_identity(out_path, source_path, Original)
    BY <2>1, <2>3
  <2>5. out_path.stem # "" => FileOf(out_path) # FileOf(source_path)
    BY <1>2, <2>2, <2>4, DifferentIsNotOneFile
  <2>6. ASSUME HasListing, listing_path.stem # ""
        PROVE  /\ FileOf(listing_path) # FileOf(source_path)
               /\ out_path.stem # "" /\ FileOf(listing_path) = FileOf(out_path) =>
                    FileOf(out_path) \notin Original
    <3>1. /\ <<listing_path, source_path>> \in PathPairs
          /\ <<listing_path, out_path>> \in PathPairs
      BY <2>6 DEF PathPairs
    <3>2. /\ "DIFFERENT" \in io_path_identity(listing_path, source_path, Original)
          /\ "DIFFERENT" \in io_path_identity(listing_path, out_path, Original)
      BY <2>1, <3>1
    <3> QED BY <1>2, <2>2, <2>6, <3>2, DifferentIsNotOneFile
  <2>7. PathsTold
    BY <1>2, <2>5, <2>6 DEF PathsTold
  <2> QED BY <1>1, <1>2, <1>3, <1>4, <2>7, GoingOn DEF Reading
<1>5. CASE Range(answer) # {"DIFFERENT"}
  BY <1>1, <1>3, <1>5, GivingUp DEF Exit, Reading
<1> QED BY <1>4, <1>5

-----------------------------------------------------------------------------
(* Steps that write *)

\* The paths are those of the arguments, whatever was written.
LEMMA PathsStay ==
    ASSUME UNCHANGED <<args, disk>>
    PROVE  /\ PathsTold' = PathsTold /\ UnseenAlias' = UnseenAlias
           /\ HasListing' = HasListing /\ Original' = Original
           /\ source_path' = source_path /\ out_path' = out_path
           /\ listing_path' = listing_path
BY DEF PathsTold, UnseenAlias, HasListing, Original, source_path, out_path,
       listing_path, make_output_path

\* Writing an output changes that output and never the source.
LEMMA WritingAnOutput ==
    ASSUME DriverInv, PathsTold, args.status = "valid", NEW f, NEW what,
           f = FileOf(out_path) \/ (HasListing /\ f = FileOf(listing_path)),
           f # FileOf(source_path), f \in DOMAIN content,
           content' = [content EXCEPT ![f] = what], UNCHANGED <<args, disk>>
    PROVE  /\ OnlyOutputsChanged' /\ SourceIsSafe'
           /\ DOMAIN content' = DOMAIN content /\ content'[f] = what
           /\ \A g \in DOMAIN content : g # f => content'[g] = content[g]
<1>1. /\ DOMAIN content' = DOMAIN content /\ content'[f] = what
      /\ \A g \in DOMAIN content : g # f => content'[g] = content[g]
  OBVIOUS
<1>2. OnlyOutputsChanged
  BY DEF DriverInv
<1>3. OnlyOutputsChanged'
  BY <1>1, <1>2, PathsStay DEF OnlyOutputsChanged
<1>4. FileOf(source_path) \in DOMAIN content
  BY <1>2 DEF PathsTold, Original, OnlyOutputsChanged
<1>5. SourceIsSafe'
  <2>1. content[FileOf(source_path)] = disk[FileOf(source_path)]
    BY DEF DriverInv, SourceIsSafe
  <2>2. content'[FileOf(source_path)] = disk[FileOf(source_path)]
    BY <1>1, <1>4, <2>1
  <2> QED BY <2>2, PathsStay DEF SourceIsSafe
<1> QED BY <1>1, <1>3, <1>5

LEMMA OpenObjectKeeps == DriverInv /\ OpenObject => DriverInv'
<1> SUFFICES ASSUME DriverInv, OpenObject PROVE DriverInv'
  OBVIOUS
<1>1. /\ pc = "open_object" /\ UNCHANGED <<args, disk>> /\ PathsTold /\ exit = 9
      /\ args.status = "valid" /\ disk \in Disks
  BY DEF OpenObject, DriverInv
<1>2. CASE Exit(WriteFailureCode) /\ UNCHANGED content
  BY <1>1, <1>2, WriteFailure DEF Exit, WriteFailureCode
<1>3. CASE /\ out_path.stem # "" /\ FileOf(out_path) \in DOMAIN content
           /\ content' = [content EXCEPT ![FileOf(out_path)] = "partial"]
           /\ pc' = "write_object" /\ UNCHANGED exit
  <2>1. FileOf(out_path) # FileOf(source_path)
    BY <1>1, <1>3 DEF PathsTold
  <2>2. /\ OnlyOutputsChanged' /\ SourceIsSafe' /\ DOMAIN content' = DOMAIN content
        /\ \A g \in DOMAIN content : g # FileOf(out_path) => content'[g] = content[g]
    BY <1>1, <1>3, <2>1, WritingAnOutput
  <2>3. ExitCodeTellsTheFiles'
    BY <1>1, <1>3, <2>2, StillRunning DEF DriverInv
  <2>4. ASSUME HasListing, ~UnseenAlias, NEW g \in DOMAIN content,
               g = FileOf(listing_path)
        PROVE  content'[g] = disk[g]
    <3>1. content = disk
      BY <1>1 DEF DriverInv, Reading
    <3>2. CASE listing_path.stem = ""
      BY <1>1, <1>3, <2>2, <2>4, <3>1, <3>2, OneEmptyName
    <3>3. CASE listing_path.stem # ""
      <4>1. g = FileOf(out_path) => disk[g] = "none"
        BY <1>1, <1>3, <2>4, <3>1, <3>3 DEF PathsTold, Original
      <4>2. g # FileOf(out_path)
        BY <2>4, <4>1 DEF UnseenAlias
      <4> QED BY <2>2, <2>4, <3>1, <4>2
    <3> QED BY <3>2, <3>3
  <2>5. /\ pc' = "write_object" /\ exit' = 9 /\ args' = args /\ disk' = disk
        /\ FileOf(out_path') \in DOMAIN content' /\ out_path'.stem # ""
    BY <1>1, <1>3, <2>2, PathsStay
  <2>6. HasListing' /\ ~UnseenAlias' =>
            \A g \in DOMAIN content' : g = FileOf(listing_path') => content'[g] = disk'[g]
    BY <1>1, <2>2, <2>4, PathsStay
  <2> QED BY <1>1, <2>2, <2>3, <2>5, <2>6, PathsStay DEF DriverInv, Reading, Writing
<1> QED BY <1>2, <1>3 DEF OpenObject, Open

LEMMA WriteObjectKeeps == DriverInv /\ WriteObject => DriverInv'
<1> SUFFICES ASSUME DriverInv, WriteObject PROVE DriverInv'
  OBVIOUS
<1> DEFINE f == FileOf(out_path)
<1>1. /\ pc = "write_object" /\ UNCHANGED <<args, disk>> /\ PathsTold /\ exit = 9
      /\ args.status = "valid" /\ disk \in Disks
      /\ out_path.stem # "" /\ f \in DOMAIN content
  BY DEF WriteObject, DriverInv, Writing
<1>2. CASE Exit(WriteFailureCode) /\ UNCHANGED content
  BY <1>1, <1>2, WriteFailure DEF Exit, WriteFailureCode
<1>3. CASE /\ content' = [content EXCEPT ![f] = "object"]
           /\ IF HasListing THEN pc' = "open_listing" /\ UNCHANGED exit ELSE Exit(0)
  <2>1. f # FileOf(source_path)
    BY <1>1 DEF PathsTold
  <2>2. /\ OnlyOutputsChanged' /\ SourceIsSafe' /\ DOMAIN content' = DOMAIN content
        /\ content'[f] = "object"
    BY <1>1, <1>3, <2>1, WritingAnOutput
  <2>3. CASE HasListing
    <3>1. ExitCodeTellsTheFiles'
      BY <1>1, <1>3, <2>2, <2>3, StillRunning DEF DriverInv
    <3> QED BY <1>1, <1>3, <2>2, <2>3, <3>1, PathsStay DEF DriverInv, Reading, Writing
  <2>4. CASE ~HasListing
    <3>1. exit' = 0 /\ exit' \in Int /\ pc' = "exit"
      BY <1>3, <2>4 DEF Exit
    <3>2. exit' # 1 /\ exit' # 2
      BY <3>1
    <3>3. args'.status \notin Queries \cup {"invalid"}
      BY <1>1 DEF Queries
    <3>4. ~HasListing'
      BY <1>1, <2>4 DEF HasListing
    <3>5. FileOf(out_path') = f
      BY <1>1, PathsStay
    <3>6. content'[FileOf(out_path')] = "object"
      BY <2>2, <3>5
    <3>7. ExitCodeTellsTheFiles'
      BY <2>2, <3>2, <3>3, <3>4, <3>6 DEF ExitCodeTellsTheFiles, OnlyOutputsChanged
    <3> QED BY <1>1, <2>2, <3>1, <3>7, PathsStay DEF DriverInv, Reading, Writing
  <2> QED BY <2>3, <2>4
<1>4. (IF HasListing THEN "open_listing" ELSE "exit") = "exit" <=> ~HasListing
  OBVIOUS
<1> QED BY <1>2, <1>3, <1>4 DEF WriteObject, Fill

LEMMA OpenListingKeeps == DriverInv /\ OpenListing => DriverInv'
<1> SUFFICES ASSUME DriverInv, OpenListing PROVE DriverInv'
  OBVIOUS
<1> DEFINE f == FileOf(listing_path)
           o == FileOf(out_path)
<1>1. /\ pc = "open_listing" /\ UNCHANGED <<args, disk>> /\ PathsTold /\ exit = 9
      /\ args.status = "valid" /\ disk \in Disks /\ HasListing
      /\ out_path.stem # "" /\ o \in DOMAIN content /\ content[o] = "object"
  BY DEF OpenListing, DriverInv, Writing
<1>2. CASE Exit(WriteFailureCode) /\ UNCHANGED content
  BY <1>1, <1>2, WriteFailure DEF Exit, WriteFailureCode
<1>3. CASE /\ listing_path.stem # "" /\ f \in DOMAIN content
           /\ content' = [content EXCEPT ![f] = "partial"]
           /\ pc' = "write_listing" /\ UNCHANGED exit
  <2>1. f # FileOf(source_path)
    BY <1>1, <1>3 DEF PathsTold
  <2>2. /\ OnlyOutputsChanged' /\ SourceIsSafe' /\ DOMAIN content' = DOMAIN content
        /\ \A g \in DOMAIN content : g # f => content'[g] = content[g]
    BY <1>1, <1>3, <2>1, WritingAnOutput
  <2>3. ASSUME ~UnseenAlias PROVE o # f /\ content'[o] = "object"
    <3>1. CASE o = f
      <4>1. o \notin Original
        BY <1>1, <1>3, <3>1 DEF PathsTold
      <4>2. DOMAIN content = DOMAIN disk
        BY DEF DriverInv, OnlyOutputsChanged
      <4>3. disk[o] = "none"
        BY <1>1, <4>1, <4>2 DEF Original
      <4> QED BY <1>1, <2>3, <3>1, <4>3 DEF UnseenAlias
    <3>2. CASE o # f
      BY <1>1, <2>2, <3>2
    <3> QED BY <3>1, <3>2
  <2>4. ExitCodeTellsTheFiles'
    BY <1>1, <1>3, <2>2, StillRunning DEF DriverInv
  <2> QED BY <1>1, <1>3, <2>2, <2>3, <2>4, PathsStay DEF DriverInv, Reading, Writing
<1> QED BY <1>2, <1>3 DEF OpenListing, Open

LEMMA WriteListingKeeps == DriverInv /\ WriteListing => DriverInv'
<1> SUFFICES ASSUME DriverInv, WriteListing PROVE DriverInv'
  OBVIOUS
<1> DEFINE f == FileOf(listing_path)
           o == FileOf(out_path)
<1>1. /\ pc = "write_listing" /\ UNCHANGED <<args, disk>> /\ PathsTold /\ exit = 9
      /\ args.status = "valid" /\ disk \in Disks /\ HasListing
      /\ listing_path.stem # "" /\ f \in DOMAIN content /\ o \in DOMAIN content
      /\ ~UnseenAlias => content[o] = "object" /\ o # f
  BY DEF WriteListing, DriverInv, Writing
<1>2. CASE Exit(WriteFailureCode) /\ UNCHANGED content
  BY <1>1, <1>2, WriteFailure DEF Exit, WriteFailureCode
<1>3. CASE content' = [content EXCEPT ![f] = "listing"] /\ Exit(0)
  <2>1. f # FileOf(source_path)
    BY <1>1 DEF PathsTold
  <2>2. /\ OnlyOutputsChanged' /\ SourceIsSafe' /\ content'[f] = "listing"
        /\ \A g \in DOMAIN content : g # f => content'[g] = content[g]
    BY <1>1, <1>3, <2>1, WritingAnOutput
  <2>3. ~UnseenAlias => content'[o] = "object"
    BY <1>1, <2>2
  <2>4. exit' = 0 /\ exit' \in Int /\ pc' = "exit"
    BY <1>3 DEF Exit
  <2>5. exit' # 1 /\ exit' # 2
    BY <2>4
  <2>6. args'.status \notin Queries \cup {"invalid"}
    BY <1>1 DEF Queries
  <2>7. ExitCodeTellsTheFiles'
    BY <1>1, <2>2, <2>3, <2>5, <2>6, PathsStay DEF ExitCodeTellsTheFiles, OnlyOutputsChanged
  <2> QED BY <1>1, <2>2, <2>4, <2>7, PathsStay DEF DriverInv, Reading, Writing
<1> QED BY <1>2, <1>3 DEF WriteListing, Fill

-----------------------------------------------------------------------------
(* The theorems *)

(***************************************************************************)
(* DriverInv is inductive: through every step and every failure of         *)
(* nazm_main_utf8 the outputs stay apart from the source as far as         *)
(* io_path_identity told them apart, and only they are written.            *)
(***************************************************************************)
THEOREM DriverStaysSound == Spec => []DriverInv
<1>1. Init => DriverInv
  <2> SUFFICES ASSUME Init PROVE DriverInv
    OBVIOUS
  <2>1. SourceIsSafe /\ OnlyOutputsChanged
    BY DEF Init, SourceIsSafe, OnlyOutputsChanged
  <2>2. ExitCodeTellsTheFiles
    BY DEF Init, ExitCodeTellsTheFiles, EmptyArgs, Queries
  <2> QED BY <2>1, <2>2 DEF Init, DriverInv, Reading, Writing
<1>2. DriverInv /\ [Next]_vars => DriverInv'
  <2> SUFFICES ASSUME DriverInv, [Next]_vars PROVE DriverInv'
    OBVIOUS
  <2>1. CASE UNCHANGED vars
    <3>1. ExitCodeTellsTheFiles'
      BY <2>1 DEF vars, DriverInv, ExitCodeTellsTheFiles, UnseenAlias, HasListing,
                  out_path, listing_path, make_output_path
    <3>2. pc' = pc /\ exit' = exit /\ args' = args /\ content' = content /\ disk' = disk
      BY <2>1 DEF vars
    <3>3. UNCHANGED <<args, content, disk>>
      BY <3>2
    <3>4. /\ PathsTold' = PathsTold /\ OnlyOutputsChanged' = OnlyOutputsChanged
          /\ SourceIsSafe' = SourceIsSafe /\ UnseenAlias' = UnseenAlias
          /\ HasListing' = HasListing /\ FileOf(source_path') = FileOf(source_path)
          /\ Original' = Original /\ out_path' = out_path
          /\ FileOf(listing_path') = FileOf(listing_path)
      BY <3>3, SamePaths
    <3>5. pc' = "write_object" /\ HasListing' /\ ~UnseenAlias' =>
              \A f \in DOMAIN content' :
                  f = FileOf(listing_path') => content'[f] = disk'[f]
      BY <3>2, <3>4 DEF DriverInv
    <3> QED BY <3>1, <3>2, <3>3, <3>4, <3>5, SamePaths DEF DriverInv
  <2> QED BY <2>1, ParseArgsKeeps, ReadSourceKeeps, RunStageKeeps, CheckPathsKeeps,
             BuildObjectKeeps, OpenObjectKeeps, WriteObjectKeeps, OpenListingKeeps,
             WriteListingKeeps DEF Next, Terminated
<1> QED BY <1>1, <1>2, PTL DEF Spec

(***************************************************************************)
(* The file the source was read from holds what it held, whatever the      *)
(* outputs are called and whatever links lead to it: main.c compares the   *)
(* paths before it opens anything, and stops on a doubt.                   *)
(***************************************************************************)
THEOREM SourceIsNeverWritten == Spec => []SourceIsSafe
<1>1. DriverInv => SourceIsSafe
  BY DEF DriverInv
<1> QED BY <1>1, DriverStaysSound, PTL

(***************************************************************************)
(* The exit code of nazm_main_utf8 tells what became of the files.         *)
(***************************************************************************)
THEOREM ExitCodesAreHonest == Spec => []ExitCodeTellsTheFiles
<1>1. DriverInv => ExitCodeTellsTheFiles
  BY DEF DriverInv
<1> QED BY <1>1, DriverStaysSound, PTL
=============================================================================
