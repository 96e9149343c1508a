\* Every behaviour of the client and its environment.
CONSTANTS
    NoSnap = NoSnap
    Obj = {o1, o2}
    Prop = {p1}
    Val = {v1}
    Root = Root
    PPTR_NULL = PPTR_NULL
    PPTR_UNDEFINED = PPTR_UNDEFINED
    PPTR_EMPTY = PPTR_EMPTY
    UNALLOCATED = UNALLOCATED
    Client <- Anything
    MaxCalls = 2
    MaxDepth = 5
SPECIFICATION Spec
INVARIANTS
    TypeOK
    DurableOutsideTx
    RootNotDangling
PROPERTIES
    BracketsBalance
    KilledOnlyBy
    ImplementsTxStore
