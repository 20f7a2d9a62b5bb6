SPECIFICATION Spec
CONSTANTS
    Processes = {p1, p2, p3, p4}
INVARIANTS
    OneServer
    NoStaleLock
