SPECIFICATION Spec
CONSTANTS
    a = a
    b = b
    N = 8
    PerBlock = 2
    Lo = 2
    Hi = 5
    BlockSize = 2
    Word = 64
    FirstFile = 3
    FirstDir = 4
    EntrySize = 8
    MaxUnlinked = 1
    Fresh = 0
    Lengths = {1}
    Tokens = {0}
    FilePaths <- One
    DirPaths = {}
    Spans <- FewSpans
INVARIANTS
    SpaceConserved
