SPECIFICATION PoliteSpec
CONSTANTS
    h1 = h1
    h2 = h2
    HandleIds = {h1, h2}
    MaxVino = 3
    N = 6
    PerBlock = 2
    Lo = 2
    Hi = 2
    BlockSize = 1
    Word = 64
    FirstFile = 3
    FirstDir = 4
    EntrySize = 8
    MaxUnlinked = 1
    Fresh = 0
    Lengths = {0}
    Tokens = {0}
    FilePaths <- OneFile
    DirPaths <- OneDir
    Spans <- Byte
SYMMETRY HandleSymmetry
INVARIANTS
    FuseTypeOK
    HandlesFollowFiles
    PathAndHandleAgree
    QuietSpace
    DirRenameKeepsIt
