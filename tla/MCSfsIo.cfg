SPECIFICATION Spec
CONSTANTS
    BlockSize = 2
    EntrySize = 1
    DataBlocks = 3
    IndexBlocks = 2
    Tokens = {0, 1}
    Patterns <- Alternating
INVARIANTS
    TypeOK
    EntriesReadRight
    FileReadsRight
    WritesLand
