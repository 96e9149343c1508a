------------------------------- MODULE MCHeap -------------------------------
(* Heap with two objects, which refer to each other and themselves from named *)
(* properties and elements, and one string, a key or an element.              *)
EXTENDS Heap

CONSTANTS o1, o2, d1, d2, a1, a2, s1, p1

Values1 ==
    [where \in {"root", "item", "prop"} |->
        CASE where = "root" -> Object \cup {Scalar}
          [] where = "item" -> Value
          [] where = "prop" -> Object]
=============================================================================
