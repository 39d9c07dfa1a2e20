---------------------------- MODULE PathIdentity ----------------------------
(***************************************************************************)
(* Whether two paths name one file: the POSIX half of src/io/file.c.       *)
(*                                                                         *)
(* A path is [absolute, dirs, stem, ext]; dirs are the segments before the *)
(* file name, "." and ".." among them.  The operating system walks the     *)
(* directories that are there, symbolic links included; the comparison of  *)
(* paths that do not exist yet only looks at the segments.                 *)
(***************************************************************************)
EXTENDS Sequences, SequencesExt

CONSTANTS
    Cwd,         \* the working directory, a sequence of directory names
    Links,       \* symbolic links: [<<directory, name>> -> directory]
    SameInode,   \* other names of a file: [file -> file]
    Faults       \* a subset of {"ENOMEM", "GETCWD"}

ASSUME FaultsAssumption == Faults \subseteq {"ENOMEM", "GETCWD"}

-----------------------------------------------------------------------------
(* The operating system *)

Walk(dir, segment) ==
    IF segment = "." THEN dir
    ELSE IF segment = ".." THEN IF dir = <<>> THEN dir ELSE Front(dir)
    ELSE IF <<dir, segment>> \in DOMAIN Links THEN Links[<<dir, segment>>]
    ELSE Append(dir, segment)

Opened(path) ==
    [dir |-> FoldLeft(Walk, IF path.absolute THEN <<>> ELSE Cwd, path.dirs),
     stem |-> path.stem, ext |-> path.ext]

\* The file a path opens.
FileOf(path) ==
    LET f == Opened(path)
    IN  IF f \in DOMAIN SameInode THEN SameInode[f] ELSE f

-----------------------------------------------------------------------------
(* The comparison *)

\* Wrong form: ".." is kept as a segment.
NormaliseSegmentKeepingDots(dir, segment) ==
    IF segment = "." THEN dir ELSE Append(dir, segment)

\* The loop of normalized_posix_path over one segment.
NormaliseSegment(dir, segment) ==
    IF segment = "." THEN dir
    ELSE IF segment = ".." THEN IF dir = <<>> THEN dir ELSE Front(dir)
    ELSE Append(dir, segment)

absolute_posix_path(path) ==
    IF path.absolute THEN path.dirs ELSE Cwd \o path.dirs

normalized_posix_path(path) ==
    [dir |-> FoldLeft(NormaliseSegment, <<>>, absolute_posix_path(path)),
     stem |-> path.stem, ext |-> path.ext]

\* What a failing allocation or a failing getcwd turns the answer into: only the
\* first is a doubt, the second passes for two names that differ.
FaultyIdentities(faults, left, right) ==
    (IF "ENOMEM" \in faults THEN {"UNKNOWN"} ELSE {})
    \cup (IF "GETCWD" \in faults /\ ~(left.absolute /\ right.absolute)
          THEN {"DIFFERENT"} ELSE {})

\* Wrong form: existing files are compared by name only.
identity_without_inodes(left, right, existing) ==
    IF normalized_posix_path(left) = normalized_posix_path(right)
    THEN {"SAME"} ELSE {"DIFFERENT"}

\* The answers while some of `faults' may happen; stat succeeds for the files
\* that exist.
IdentityUnder(faults, left, right, existing) ==
    IF "" \in {left.stem, right.stem} THEN {"DIFFERENT"}
    ELSE IF left = right THEN {"SAME"}
    ELSE IF FileOf(left) = FileOf(right) /\ FileOf(left) \in existing
         THEN {"SAME"}
    ELSE FaultyIdentities(faults, left, right)
         \cup {IF normalized_posix_path(left) = normalized_posix_path(right)
               THEN "SAME" ELSE "DIFFERENT"}

\* The answers io_path_identity may give.
io_path_identity(left, right, existing) ==
    IdentityUnder(Faults, left, right, existing)
=============================================================================
