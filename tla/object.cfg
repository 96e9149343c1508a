\* Three indexes, two of which collide, and a length that takes away two.
CONSTANTS
    NoSnap = NoSnap
    v1 = v1
    h1 = h1
    h2 = h2
    Handle = {h1, h2}
    Val = {v1}
    PPTR_NULL = PPTR_NULL
    PPTR_UNDEFINED = PPTR_UNDEFINED
    MaxLength = 28
    MaxPerturb = 1
    MaxSize = 16
    Indexes = {2, 24, 26}
    Lengths = {23}
    ARRAY_MAX_GAP = 16
    ARRAY_MAX_UNCHECK = 24
    Client <- Reading
    MaxOps = 1
SYMMETRY Handles
SPECIFICATION Spec
INVARIANTS
    TypeOK
    Accounting
    IndexesAreFound
    ValuesBelowLength
    
PROPERTIES
    ImplementsIndexMap
