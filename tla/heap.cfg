\* Two objects and a string.
CONSTANTS
    o1 = o1
    o2 = o2
    d1 = d1
    d2 = d2
    a1 = a1
    a2 = a2
    s1 = s1
    p1 = p1
    Object = {o1, o2}
    Dict = {d1, d2}
    Array = {a1, a2}
    String = {s1}
    Prop = {p1}
    Index = {0}
    Text = Text
    Scalar = Scalar
    Stored <- Values1
SPECIFICATION Spec
INVARIANTS
    TypeOK
    
    
PROPERTIES
    SparesReferenced
    CollectsAll
    GcEnds
