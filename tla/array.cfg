\* Three items, two calls in a transaction, holes that are read.
CONSTANTS
    NoSnap = NoSnap
    v1 = v1
    v2 = v2
    Val = {v1, v2}
    PPTR_NULL = PPTR_NULL
    PPTR_UNDEFINED = PPTR_UNDEFINED
    UNALLOCATED = UNALLOCATED
    Client <- Reading
    MaxLength = 3
    MaxOps = 2
SPECIFICATION Spec
INVARIANTS
    TypeOK
    LengthFits
PROPERTY ImplementsPArray
