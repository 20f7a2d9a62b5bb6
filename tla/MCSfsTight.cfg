SPECIFICATION SafeSpec
CONSTANTS
    a = a
    b = b
    N = 5
    PerBlock = 2
    Lo = 2
    Hi = 6
    BlockSize = 2
    Word = 64
    FirstFile = 3
    FirstDir = 4
    EntrySize = 8
    MaxUnlinked = 1
    Fresh = 0
    Lengths = {0, 3}
    Tokens = {1}
    FilePaths <- Two
    DirPaths = {}
    Spans <- FirstBytes
INVARIANTS
    TypeOK
    ListWellFormed
    HeadRecoverable
    ExtentFitsSize
PROPERTIES
    ImplementsSpace
    ImplementsStore
SYMMETRY NameSymmetry
