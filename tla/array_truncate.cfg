\* The array is shortened in a transaction.
CONSTANTS
    NoSnap = NoSnap
    v1 = v1
    v2 = v2
    Val = {v1, v2}
    PPTR_NULL = PPTR_NULL
    PPTR_UNDEFINED = PPTR_UNDEFINED
    UNALLOCATED = UNALLOCATED
    Client <- Nothing
    MaxLength = 3
    MaxOps = 2
SPECIFICATION Spec
PROPERTY TruncationIsUndone
