SPECIFICATION Spec
CONSTANTS
    start = start
    root = root
    first = first
    a = a
    b = b
    c = c
    Lo = 2
    Hi = 6
    Slots <- MCSlots
    Fixed <- MCFixed
    FreeSlot <- first
SYMMETRY MCSymmetry
INVARIANTS
    TypeOK
    Disjoint
    Covered
    Coalesced
PROPERTIES
    LeakOnlyWhenIndexFull
