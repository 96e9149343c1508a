\* An object with a member of an unsupported type is persisted.
CONSTANTS
    NoSnap = NoSnap
    Obj = {o1, o2}
    Prop = {p1}
    Val = {v1}
    Root = Root
    PPTR_NULL = PPTR_NULL
    PPTR_UNDEFINED = PPTR_UNDEFINED
    PPTR_EMPTY = PPTR_EMPTY
    UNALLOCATED = UNALLOCATED
    Client <- Unsupporting
    MaxCalls = 2
    MaxDepth = 5
SPECIFICATION Spec
PROPERTY ReopenPreserves
