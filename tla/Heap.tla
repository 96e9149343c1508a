-------------------------------- MODULE Heap --------------------------------
(***************************************************************************)
(* The heap of a pool: the blocks of objects, dictionaries, arrays and     *)
(* strings, the pointers between them, and MemoryManager::gc(), which      *)
(* frees what the root does not lead to, one container per transaction.    *)
(*                                                                         *)
(*   root_object   PRoot::root_object                                      *)
(*   used          the blocks that are allocated                           *)
(*   object        the two pointers of a PObjectObject                     *)
(*   entries       the entries of a PDictObject's keys                     *)
(*   items         the values of an object's elements, dense or sparse     *)
(*   text          the text of a string, which free() leaves where it is   *)
(*   gc            what gc() knows: the container and other blocks that it *)
(*                 has not found so far, and those it has still to trace   *)
(*   held          the objects the client has handles of                   *)
(*                                                                         *)
(* A call of the client is one step: its stores, allocations and frees are *)
(* one transaction (see PmemTx).  (A string may have been allocated before *)
(* it: when a crash keeps it from being stored it is garbage like a string *)
(* that has been replaced.)  The client calls gc() outside transactions.   *)
(* Of the contents of a freed container nothing is kept, and a block that  *)
(* is free is used again for the same kind of thing only.  A pointer to a  *)
(* deleted object stays where it is; what a call on the deleted object     *)
(* would do is undefined, and left out.                                    *)
(***************************************************************************)
CONSTANTS
    Object, Dict, Array, String,    \* blocks, by what is allocated in them
    Prop,           \* property names
    Index,          \* indexes of the elements
    Text,           \* a text that is no property name
    Scalar,         \* a number, a singleton or PPTR_NULL: no pointer
    Stored          \* what the client stores as "root", as "item", as "prop"

VARIABLES root_object, used, object, entries, items, text, gc, held

vars == <<root_object, used, object, entries, items, text, gc, held>>

Container == Object \cup Dict \cup Array
Block == Container \cup String
Value == Object \cup String \cup {Scalar}
Texts == Prop \cup {Text}

ASSUME BlockAssumption ==
    /\ Object \cap Dict = {} /\ Object \cap Array = {} /\ Dict \cap Array = {}
    /\ Container \cap String = {}
    /\ Scalar \notin Block
    /\ Text \notin Prop
    /\ Dict # {} /\ Array # {}
ASSUME StoredAssumption == Stored \in [{"root", "item", "prop"} -> SUBSET Value]

\* A name stands for its hash, which is where lookup() starts, too.
Entry == [name : Prop, key : String, value : Value]

Unallocated(kind) == kind \ used

-----------------------------------------------------------------------------
(* The graph. *)

Values(c) ==
    IF c \in Dict THEN {e.value : e \in entries[c]} ELSE {items[c][i] : i \in Index}

Parts(o) == {object[o].elements, object[o].extra_props}

\* What the object o holds.
Members(o) == UNION {Values(c) : c \in Parts(o)}

\* A pointer to an object that has been deleted leads nowhere.
Objects(S) == S \cap Object \cap used

\* Which objects refer to which.
Refers == [o \in Object |-> Objects(Members(o))]

Closed(G, S) == \A o \in S : G[o] \subseteq S

\* The objects that those of S lead to in G: the least closed set around S.
Reach(G, S) ==
    {o \in Object : \A T \in SUBSET Object : S \subseteq T /\ Closed(G, T) => o \in T}

FromRoot == Reach(Refers, Objects({root_object}))

\* The objects the client can get at.
Live == Reach(Refers, Objects({root_object} \cup held))

-----------------------------------------------------------------------------
(* The client. *)

Idle == [phase |-> "idle", containers |-> {}, other |-> {}, live |-> {}]

\* The pointers of an object block that is free.
Nowhere == [elements |-> CHOOSE a \in Array : TRUE, extra_props |-> CHOOSE d \in Dict : TRUE]

Init ==
    /\ root_object = Scalar
    /\ used = {}
    /\ object = [o \in Object |-> Nowhere]
    /\ entries = [d \in Dict |-> {}]
    /\ items = [a \in Array |-> [i \in Index |-> Scalar]]
    /\ text = [s \in String |-> Text]
    /\ gc = Idle
    /\ held = {}

\* gc() is a call like any other: nothing else runs before it returns.
Calls == gc.phase = "idle" /\ gc' = Idle

\* A value to store: a scalar, an object the client has (it may have been deleted
\* by another way), a new string.
Storable(where) ==
    ({Scalar} \cup Live \cup held \cup Unallocated(String)) \cap Stored[where]

\* The texts v may have, if it is a string.
NewString(v) == [{v} \cap String -> Texts]

\* persistString() of the texts.
Allocates(texts) ==
    /\ used' = used \cup DOMAIN texts
    /\ text' = [s \in String |-> IF s \in DOMAIN texts THEN texts[s] ELSE text[s]]

\* The entry under which lookup() finds the name p: the key still reads p.
lookup(d, p) == {e \in entries[d] : e.name = p /\ text[e.key] = p}

\* pool.create_object(): an object, its dictionary and its array
CreateObject(o, a, d) ==
    /\ Calls
    /\ {o, a, d} \cap used = {}
    /\ used' = used \cup {o, a, d}
    /\ object' = [object EXCEPT ![o] = [elements |-> a, extra_props |-> d]]
    /\ held' = held \cup {o}
    /\ UNCHANGED <<root_object, entries, items, text>>

\* pool.root = v
SetRoot(v) ==
    /\ Calls
    /\ v \in Storable("root")
    /\ root_object' = v
    /\ \E texts \in NewString(v) : Allocates(texts)
    /\ UNCHANGED <<object, entries, items, held>>

\* pobj[i] = v, also when an index is deleted: a scalar is stored.
SetItem(o, i, v) ==
    /\ Calls
    /\ o \in Live /\ v \in Storable("item")
    /\ items' = [items EXCEPT ![object[o].elements][i] = v]
    /\ \E texts \in NewString(v) : Allocates(texts)
    /\ UNCHANGED <<root_object, object, entries, held>>

\* pobj.p = v, for a p that lookup() finds: the old value is left to gc().
ReplaceProperty(o, p, v) ==
    /\ Calls
    /\ o \in Live /\ v \in Storable("prop")
    /\ LET d == object[o].extra_props
       IN  \E e \in lookup(d, p) :
             entries' = [entries EXCEPT ![d] = (@ \ {e}) \cup {[e EXCEPT !.value = v]}]
    /\ \E texts \in NewString(v) : Allocates(texts)
    /\ UNCHANGED <<root_object, object, items, held>>

\* pobj.p = v, for a new p: a string k is allocated for the key.
InsertProperty(o, p, v, k) ==
    /\ Calls
    /\ o \in Live /\ v \in Storable("prop")
    /\ k \in Unallocated(String) \ {v}
    /\ LET d == object[o].extra_props
       IN  /\ lookup(d, p) = {}
           /\ entries' = [entries EXCEPT
                            ![d] = @ \cup {[name |-> p, key |-> k, value |-> v]}]
    /\ \E texts \in NewString(v) :
          Allocates([s \in {k} \cup DOMAIN texts |-> IF s = k THEN p ELSE texts[s]])
    /\ UNCHANGED <<root_object, object, items, held>>

\* delete pobj.p frees the key and the value, of an object its own block, also
\* when others refer to it.  Freeing what is free, or a block twice, ends the
\* process (see Crash).
DelProperty(o, p) ==
    /\ Calls
    /\ o \in Live
    /\ UNCHANGED <<root_object, items, text, held>>
    /\ LET d == object[o].extra_props
       IN  \E e \in lookup(d, p) :
             /\ {e.key, e.value} \cap Block \subseteq used /\ e.key # e.value
             /\ object' = [x \in Object |-> IF x = e.value THEN Nowhere ELSE object[x]]
             /\ entries' = [entries EXCEPT ![d] = @ \ {e}]
             /\ used' = used \ {e.key, e.value}

\* Reading pool.root or a property gives the client a handle.
GetProperty(o) ==
    /\ Calls
    /\ o \in Live
    /\ held' = held \cup {o}
    /\ UNCHANGED <<root_object, used, object, entries, items, text>>

-----------------------------------------------------------------------------
(* MemoryManager::gc(). *)

\* Mutant: the root stays on the list.
GcStart_keeps_root ==
    /\ gc.phase = "idle"
    /\ root_object \in Object => root_object \in used
    /\ gc' = [phase |-> "trace",
              containers |-> used \cap Container,
              other |-> (used \cap String) \ {root_object},
              live |-> {root_object} \cap Object]
    /\ held' = held \cap FromRoot
    /\ UNCHANGED <<root_object, used, object, entries, items, text>>

\* All blocks, but for what the root refers to (undefined, if that is an object
\* that has been deleted).  A client that follows the document keeps no handle of
\* what it has not referenced from the root.
GcStart ==
    /\ gc.phase = "idle"
    /\ root_object \in Object => root_object \in used
    /\ gc' = [phase |-> "trace",
              containers |-> (used \cap Container) \ {root_object},
              other |-> (used \cap String) \ {root_object},
              live |-> {root_object} \cap Object]
    /\ held' = held \cap FromRoot
    /\ UNCHANGED <<root_object, used, object, entries, items, text>>

\* What the code follows from c: not the keys of a dictionary.
Traced(c) == IF c \in Object THEN Parts(c) ELSE Values(c)

\* Mutant: strings that are found stay on the list.
GcTrace_keeps_other(c) ==
    /\ gc.phase = "trace"
    /\ c \in gc.live
    /\ gc' = [gc EXCEPT !.live = (@ \ {c}) \cup (Traced(c) \cap gc.containers),
                        !.containers = @ \ Traced(c)]
    /\ UNCHANGED <<root_object, used, object, entries, items, text, held>>

GcTrace(c) ==
    /\ gc.phase = "trace"
    /\ c \in gc.live
    /\ gc' = [gc EXCEPT !.live = (@ \ {c}) \cup (Traced(c) \cap gc.containers),
                        !.containers = @ \ Traced(c),
                        !.other = @ \ Traced(c)]
    /\ UNCHANGED <<root_object, used, object, entries, items, text, held>>

GcSweep ==
    /\ gc.phase = "trace"
    /\ gc.live = {}
    /\ gc' = [gc EXCEPT !.phase = "sweep"]
    /\ UNCHANGED <<root_object, used, object, entries, items, text, held>>

\* Mutant: PMObject::_deallocate() frees the dictionary and the array, too.
deallocate_parts(c) == IF c \in Object THEN {c} \cup Parts(c) ELSE {c}

\* Mutant: that of a dictionary frees its table only.
deallocate_table(c) == {c} \ Dict

\* _deallocate() of an object frees its own block; those of dictionaries and
\* arrays free their tables with them.
deallocate(c) == {c}

\* Mutant: a container that is freed stays on the list.
GcDeallocate_keeps(c) ==
    /\ gc.phase = "sweep"
    /\ c \in gc.containers
    /\ used' = used \ deallocate(c)
    /\ UNCHANGED <<root_object, object, entries, items, text, gc, held>>

\* One container, in a transaction of its own.
GcDeallocate(c) ==
    /\ gc.phase = "sweep"
    /\ c \in gc.containers
    /\ used' = used \ deallocate(c)
    /\ object' = [o \in Object |-> IF o = c THEN Nowhere ELSE object[o]]
    /\ entries' = [d \in Dict |-> IF d = c THEN {} ELSE entries[d]]
    /\ items' = [a \in Array |-> IF a = c THEN [i \in Index |-> Scalar] ELSE items[a]]
    /\ gc' = [gc EXCEPT !.containers = @ \ {c}]
    /\ UNCHANGED <<root_object, text, held>>

\* All the others, in one transaction.
GcFinish ==
    /\ gc.phase = "sweep"
    /\ gc.containers = {}
    /\ used' = used \ gc.other
    /\ gc' = Idle
    /\ UNCHANGED <<root_object, object, entries, items, text, held>>

\* The process ends, in a call or in gc(), and is started again.
Crash ==
    /\ gc' = Idle
    /\ held' = {}
    /\ UNCHANGED <<root_object, used, object, entries, items, text>>

GcStep == (\E c \in Container : GcTrace(c) \/ GcDeallocate(c)) \/ GcSweep \/ GcFinish

Next ==
    \/ \E o \in Object, a \in Array, d \in Dict : CreateObject(o, a, d)
    \/ \E v \in Value : SetRoot(v)
    \/ \E o \in Object, i \in Index, v \in Value : SetItem(o, i, v)
    \/ \E o \in Object, p \in Prop, v \in Value : ReplaceProperty(o, p, v)
    \/ \E o \in Object, p \in Prop, v \in Value, k \in String : InsertProperty(o, p, v, k)
    \/ \E o \in Object, p \in Prop : DelProperty(o, p)
    \/ \E o \in Object : GetProperty(o)
    \/ GcStart \/ GcStep
    \/ Crash

\* gc() is one call of a synchronous program: once started it goes on.
Spec == Init /\ [][Next]_vars /\ WF_vars(GcStep)

-----------------------------------------------------------------------------
(* Properties. *)

\* Types of the variables; gc() works on blocks that are allocated.
TypeOK ==
    /\ root_object \in Value
    /\ used \subseteq Block
    /\ object \in [Object -> [elements : Array, extra_props : Dict]]
    /\ entries \in [Dict -> SUBSET Entry]
    /\ items \in [Array -> [Index -> Value]]
    /\ text \in [String -> Texts]
    /\ gc.phase \in {"idle", "trace", "sweep"}
    /\ gc.containers \subseteq used \cap Container
    /\ gc.live \subseteq used \cap Container
    /\ gc.other \subseteq used \cap String
    /\ held \subseteq Object

\* An object that the client can get at has its dictionary and its array: also when
\* earlier collections were cut short by a crash, and the garbage they left points
\* at blocks that are used again.
PartsSurvive == \A o \in Live : Parts(o) \subseteq used

\* The assertions of gc(): when an object is traced its dictionary and its array
\* have not been found before.
AssertsHold ==
    gc.phase = "trace" => \A o \in gc.live \cap Object : Parts(o) \subseteq gc.containers

\* What the root leads to, with the strings.
Referenced ==
    {root_object} \cup FromRoot \cup UNION {Parts(o) \cup Members(o) : o \in FromRoot}

\* No step of gc() frees a block of what the root leads to, strings among them,
\* whatever blocks have been freed and used again before; but for the keys.
SparesReferenced == [][GcStep => Referenced \cap used \subseteq used']_vars

\* A collection that is not cut short leaves no garbage: neither cycles, nor what
\* deletions and earlier collections have left.
CollectsAll == [][GcFinish => used' \subseteq Referenced']_vars

\* gc() returns, whatever cycles there are between the objects, unless the
\* process ends before.
GcEnds == gc.phase # "idle" ~> gc.phase = "idle"

KeysOf(o) == {e.key : e \in entries[object[o].extra_props]}

\* API-document.md:174.  gc() frees "objects that are not accessible by tracing the
\* objects graph starting at the root object", and no others.
FreesOnlyUnreferenced ==
    [][GcStep => \A o \in FromRoot :
         ({o} \cup Parts(o) \cup Members(o) \cup KeysOf(o)) \cap used \subseteq used']_vars
=============================================================================
