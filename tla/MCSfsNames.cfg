SPECIFICATION SafeSpec
CONSTANTS
    a = a
    b = b
    N = 9
    PerBlock = 2
    Lo = 2
    Hi = 2
    BlockSize = 2
    Word = 64
    FirstFile = 3
    FirstDir = 4
    EntrySize = 8
    MaxUnlinked = 1
    Fresh = 0
    Lengths = {0}
    Tokens = {0}
    FilePaths <- Nested
    DirPaths <- Prefixed
    Spans <- FewSpans
INVARIANTS
    ParentsExist
    EveryNameFound
    NoOrphanEntries
    ListsItsChildren
