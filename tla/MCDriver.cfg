SPECIFICATION Spec
CONSTANTS
    Cwd <- MCCwd
    Links <- MCLinks
    SameInode <- MCSameInode
    Faults = {"ENOMEM", "GETCWD"}
    PathOf <- MCPathOfAll
    Dashed = {"-o"}
    CommandLines <- MCCommandLines
    Disks <- MCDisks
INVARIANTS ArgumentsAreRead SourceIsSafe PlainPathsAreTold ExitCodeTellsTheFiles
