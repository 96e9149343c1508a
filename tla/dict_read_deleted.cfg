\* A property is read after it was deleted.
CONSTANTS
    NoSnap = NoSnap
    k1 = k1
    k2 = k2
    k3 = k3
    k4 = k4
    k5 = k5
    v1 = v1
    v2 = v2
    Key = {k1, k2, k3, k4, k5}
    Val = {v1, v2}
    Hash <- Colliding
    Props <- ThreeKeys
    Stored <- Values
    PPTR_NULL = PPTR_NULL
    PPTR_DUMMY = PPTR_DUMMY
    PPTR_EMPTY = PPTR_EMPTY
    UNALLOCATED = UNALLOCATED
    Client <- Reading
    MaxSize = 16
    MaxPerturb = 2
    MaxOps = 1
SPECIFICATION Spec
PROPERTY ReadingIsHarmless
