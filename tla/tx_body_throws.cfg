\* The body of transaction(run) throws.
CONSTANTS
    NoSnap = NoSnap
    Obj = {o1, o2}
    Prop = {p1}
    Val = {v1}
    Root = Root
    PPTR_NULL = PPTR_NULL
    PPTR_UNDEFINED = PPTR_UNDEFINED
    PPTR_EMPTY = PPTR_EMPTY
    UNALLOCATED = UNALLOCATED
    Client <- Throwing
    MaxCalls = 2
    MaxDepth = 5
SPECIFICATION Spec
PROPERTY AbnormalEndRollsBack
