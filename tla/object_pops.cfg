\* Index 26 is popped, made to be the last again by the length, and popped once more.
CONSTANTS
    NoSnap = NoSnap
    v1 = v1
    h1 = h1
    h2 = h2
    Handle = {h1}
    Val = {v1}
    PPTR_NULL = PPTR_NULL
    PPTR_UNDEFINED = PPTR_UNDEFINED
    MaxLength = 28
    MaxPerturb = 1
    MaxSize = 16
    Indexes = {2, 26}
    Lengths = {27}
    ARRAY_MAX_GAP = 16
    ARRAY_MAX_UNCHECK = 24
    Client <- Popping
    MaxOps = 1
SPECIFICATION Spec
INVARIANTS
    Accounting
