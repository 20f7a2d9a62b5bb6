SPECIFICATION MountSpec
CONSTANTS
    a = a
    b = b
    MaxMounts = 2
    N = 5
    PerBlock = 2
    Lo = 2
    Hi = 5
    BlockSize = 1
    Word = 64
    FirstFile = 3
    FirstDir = 4
    EntrySize = 8
    MaxUnlinked = 1
    Fresh = 0
    Lengths = {0}
    Tokens = {1}
    FilePaths <- Two
    DirPaths <- Dir
    Spans <- Bytewise
SYMMETRY NameSymmetry
INVARIANTS
    CrashWarns
    CheckCounts
PROPERTIES
    CrashSparesFiles
    CrashOnlyLeaks
    MountRepairs
    MountFindsList
