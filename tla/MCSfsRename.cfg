SPECIFICATION Spec
CONSTANTS
    a = a
    b = b
    N = 8
    PerBlock = 2
    Lo = 2
    Hi = 5
    BlockSize = 2
    Word = 64
    FirstFile = 3
    FirstDir = 4
    EntrySize = 8
    MaxUnlinked = 1
    Fresh = 0
    Lengths = {}
    Tokens = {0}
    FilePaths <- Two
    DirPaths = {}
    Spans <- FewSpans
INVARIANTS
    SpaceConserved
SYMMETRY NameSymmetry
