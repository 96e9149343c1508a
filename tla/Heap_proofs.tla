----------------------------- MODULE Heap_proofs -----------------------------
(***************************************************************************)
(* For every heap: what the client can get at keeps its parts, gc() frees  *)
(* nothing that the root leads to but keys, its assertions hold, and a     *)
(* collection that is not cut short leaves no garbage.                     *)
(*                                                                         *)
(* The invariant of the collection is Marking: what has been traced refers *)
(* only to what has been found, and all that has been found is referenced. *)
(***************************************************************************)
EXTENDS Heap, TLAPS

\* The containers that gc() has found, or not seen among the garbage.
Marked == (used \cap Container) \ gc.containers

\* Two live objects share neither dictionary nor array.  (Garbage that a crash
\* has left may share them with a live object, once its own have been freed.)
Separate == \A x, y \in Live : x # y => Parts(x) \cap Parts(y) = {}

\* Dictionaries and arrays refer to no object before they are allocated.
FreshEmpty == \A c \in (Dict \cup Array) \ used : Values(c) \cap Object = {}

FoundIsReferenced ==
    /\ Marked \cap Object \subseteq FromRoot
    /\ \A c \in Marked \ Object :
          \E o \in (Marked \cap Object) \ gc.live : c \in Parts(o)
    /\ \A s \in (used \cap String) \ gc.other :
          s = root_object \/ \E o \in Marked \cap Object : s \in Members(o)

ReferencedIsFound ==
    /\ root_object \notin gc.containers \cup gc.other
    /\ \A c \in Marked \ gc.live : Traced(c) \cap (gc.containers \cup gc.other) = {}

Marking ==
    gc.phase # "idle" =>
        /\ held \subseteq FromRoot
        /\ gc.live \cap gc.containers = {}
        /\ gc.phase = "sweep" => gc.live = {}
        /\ FoundIsReferenced
        /\ ReferencedIsFound

IInv == TypeOK /\ PartsSurvive /\ Separate /\ FreshEmpty /\ Marking

-----------------------------------------------------------------------------
(* Reachability. *)

LEMMA ReachSelf ==
    ASSUME NEW G, NEW S \in SUBSET Object
    PROVE  S \subseteq Reach(G, S) /\ Reach(G, S) \subseteq Object
  BY DEF Reach

LEMMA ReachClosed ==
    ASSUME NEW G \in [Object -> SUBSET Object], NEW S \in SUBSET Object
    PROVE  Closed(G, Reach(G, S))
<1> SUFFICES ASSUME NEW o \in Reach(G, S), NEW x \in G[o]
             PROVE  x \in Reach(G, S)
  BY DEF Closed
<1>1. o \in Object /\ x \in Object
  BY DEF Reach
<1>2. ASSUME NEW T \in SUBSET Object, S \subseteq T, Closed(G, T)
      PROVE  x \in T
  <2>1. o \in T
    BY <1>2 DEF Reach
  <2> QED
    BY <2>1, <1>2 DEF Closed
<1> QED
  BY <1>1, <1>2 DEF Reach

LEMMA ReachLeast ==
    ASSUME NEW G, NEW S, NEW T \in SUBSET Object, S \subseteq T, Closed(G, T)
    PROVE  Reach(G, S) \subseteq T
  BY DEF Reach

\* What the graph is made of.
LEMMA GraphLemma ==
    ASSUME TypeOK
    PROVE  /\ Refers \in [Object -> SUBSET Object]
           /\ \A o \in Object : Parts(o) \subseteq Dict \cup Array
           /\ \A c \in Dict \cup Array : Values(c) \subseteq Value
           /\ \A o \in Object : Members(o) \subseteq Value
<1>1. \A o \in Object : Parts(o) \subseteq Dict \cup Array
  BY DEF TypeOK, Parts
<1>2. ASSUME NEW c \in Dict \cup Array
      PROVE  Values(c) \subseteq Value
  <2>1. CASE c \in Dict
    BY <2>1 DEF Values, TypeOK, Entry
  <2>2. CASE c \notin Dict
    BY <2>2 DEF Values, TypeOK
  <2> QED
    BY <2>1, <2>2
<1>3. \A o \in Object : Members(o) \subseteq Value
  BY <1>1, <1>2 DEF Members
<1> QED
  BY <1>1, <1>2, <1>3 DEF Refers, Objects

LEMMA LiveLemma ==
    ASSUME TypeOK
    PROVE  /\ Live \subseteq Object \cap used
           /\ Objects({root_object} \cup held) \subseteq Live
           /\ \A o \in Live : Objects(Members(o)) \subseteq Live
           /\ FromRoot \subseteq Object \cap used
           /\ Objects({root_object}) \subseteq FromRoot
           /\ \A o \in FromRoot : Objects(Members(o)) \subseteq FromRoot
           /\ FromRoot \subseteq Live
           /\ held \subseteq FromRoot => Live \subseteq FromRoot
<1> DEFINE R == Objects({root_object})
           L == Objects({root_object} \cup held)
<1>1. R \subseteq Object \cap used /\ L \subseteq Object \cap used /\ R \subseteq L
  BY DEF Objects
<1>2. /\ L \subseteq Live /\ Live \subseteq Object
      /\ R \subseteq FromRoot /\ FromRoot \subseteq Object
  BY <1>1, ReachSelf DEF Live, FromRoot
<1>3. Closed(Refers, Live) /\ Closed(Refers, FromRoot)
  BY <1>1, GraphLemma, ReachClosed DEF Live, FromRoot
<1>4. Closed(Refers, Object \cap used)
  BY DEF Closed, Refers, Objects
<1>5. Live \subseteq Object \cap used /\ FromRoot \subseteq Object \cap used
  BY <1>1, <1>4, ReachLeast DEF Live, FromRoot
<1>6. FromRoot \subseteq Live
  BY <1>1, <1>2, <1>3, ReachLeast DEF FromRoot
<1>7. ASSUME held \subseteq FromRoot
      PROVE  Live \subseteq FromRoot
  <2>1. L \subseteq FromRoot
    BY <1>2, <1>7 DEF Objects
  <2> QED
    BY <2>1, <1>2, <1>3, ReachLeast DEF Live
<1>8. \A o \in Live : Refers[o] \subseteq Live
  BY <1>3 DEF Closed
<1>9. \A o \in FromRoot : Refers[o] \subseteq FromRoot
  BY <1>3 DEF Closed
<1>10. \A o \in Object : Refers[o] = Objects(Members(o))
  BY DEF Refers
<1> QED
  BY <1>2, <1>5, <1>6, <1>7, <1>8, <1>9, <1>10

\* The live objects of the next state are among those of a closed set T.
LEMMA NextLiveLemma ==
    ASSUME NEW T \in SUBSET Object,
           Objects({root_object} \cup held)' \subseteq T,
           \A o \in T : Objects(Members(o))' \subseteq T
    PROVE  Live' \subseteq T
<1>1. Closed(Refers', T)
  BY DEF Closed, Refers
<1> QED
  BY <1>1, ReachLeast DEF Live

\* The client gets no other objects than the live ones.
LEMMA RootsLemma ==
    ASSUME TypeOK, UNCHANGED root_object, held' \subseteq held \cup Live,
           used' \cap Container \subseteq used
    PROVE  Objects({root_object} \cup held)' \subseteq Live
<1>1. Objects({root_object} \cup held) \subseteq Live
  BY LiveLemma
<1> QED
  BY <1>1 DEF Objects, Container

-----------------------------------------------------------------------------
(* The client. *)

LEMMA InitLemma ==
    ASSUME Init
    PROVE  IInv
<1>1. Nowhere \in [elements : Array, extra_props : Dict]
  BY BlockAssumption DEF Nowhere
<1>2. TypeOK
  BY <1>1 DEF Init, Idle, TypeOK, Value, Entry, Texts
<1>3. Live \subseteq {}
  <2>1. Objects({root_object} \cup held) = {}
    BY DEF Init, Objects
  <2>2. Closed(Refers, {})
    BY DEF Closed
  <2> QED
    BY <2>1, <2>2, ReachLeast DEF Live
<1>4. FreshEmpty
  BY BlockAssumption DEF Init, FreshEmpty, Values, Block, Container
<1> QED
  BY <1>2, <1>3, <1>4 DEF IInv, PartsSurvive, Separate, Marking, Init, Idle

\* A step that leaves objects where they are and gives the client no more of
\* them keeps what is said of the live ones.
LEMMA KeepLemma ==
    ASSUME PartsSurvive, Separate, Live' \subseteq Live,
           UNCHANGED object, used \subseteq used'
    PROVE  PartsSurvive' /\ Separate'
<1>1. \A o \in Live' : Parts(o)' = Parts(o)
  BY DEF Parts
<1> QED
  BY <1>1 DEF PartsSurvive, Separate

LEMMA IdleLemma ==
    ASSUME Calls
    PROVE  Marking'
  BY DEF Calls, Marking, Idle

LEMMA StorableLemma ==
    ASSUME TypeOK, NEW where, NEW v \in Storable(where)
    PROVE  v \in Value /\ Objects({v}) \subseteq Live
<1>1. v \in {Scalar} \cup Live \cup held \cup Unallocated(String)
  BY DEF Storable
<1>2. v \in Value
  BY <1>1, LiveLemma DEF Unallocated, Value, TypeOK
<1>3. v \in Object => v \in Live \cup held
  BY <1>1, BlockAssumption DEF Unallocated, Block, Container
<1> QED
  BY <1>2, <1>3, LiveLemma DEF Objects

LEMMA NewStringLemma ==
    ASSUME NEW v, NEW texts \in NewString(v)
    PROVE  DOMAIN texts \subseteq String /\ \A s \in DOMAIN texts : texts[s] \in Texts
  BY DEF NewString

LEMMA AllocatesLemma ==
    ASSUME TypeOK, NEW texts, Allocates(texts), DOMAIN texts \subseteq String,
           \A s \in DOMAIN texts : texts[s] \in Texts
    PROVE  /\ used \subseteq used' /\ used' \subseteq Block
           /\ used' \cap Container = used \cap Container
           /\ text' \in [String -> Texts]
<1>1. used' = used \cup DOMAIN texts
  BY DEF Allocates
<1>2. text' \in [String -> Texts]
  BY DEF Allocates, TypeOK
<1> QED
  BY <1>1, <1>2, BlockAssumption DEF TypeOK, Block, Container

\* A value is stored in a container: as Values(c) has at most v in addition, and
\* v is live if it is an object, no other objects become live.
LEMMA StoreLemma ==
    ASSUME IInv, Calls, TypeOK', UNCHANGED <<root_object, object, held>>,
           used \subseteq used', used' \cap Container = used \cap Container,
           NEW v, Objects({v}) \subseteq Live,
           NEW c0 \in used,
           \A c \in Dict \cup Array : Values(c)' \subseteq Values(c) \cup {v},
           \A c \in Dict \cup Array : c # c0 => Values(c)' = Values(c)
    PROVE  IInv' /\ Live' \subseteq Live
<1>1. \A o \in Live : Objects(Members(o))' \subseteq Live
  <2> SUFFICES ASSUME NEW o \in Live, NEW x \in Objects(Members(o))'
               PROVE  x \in Live
    OBVIOUS
  <2>1. o \in Object /\ Objects(Members(o)) \subseteq Live
    BY LiveLemma DEF IInv
  <2>2. Parts(o)' = Parts(o) /\ Parts(o) \subseteq Dict \cup Array
    BY <2>1, GraphLemma DEF IInv, Parts
  <2>3. PICK c \in Parts(o) : x \in Values(c)'
    BY <2>2 DEF Objects, Members
  <2>4. x \in Values(c) \/ x = v
    BY <2>2, <2>3
  <2>5. x \in Object \cap used
    BY DEF Objects, Container
  <2> QED
    BY <2>1, <2>3, <2>4, <2>5 DEF Objects, Members
<1>2. Live' \subseteq Live
  <2>1. Objects({root_object} \cup held)' \subseteq Live
    BY LiveLemma DEF IInv, Objects, Container
  <2> QED
    BY <1>1, <2>1, LiveLemma, NextLiveLemma DEF IInv
<1>3. FreshEmpty'
  <2> SUFFICES ASSUME NEW c \in (Dict \cup Array) \ used'
               PROVE  Values(c)' \cap Object = {}
    BY DEF FreshEmpty
  <2>1. c \in (Dict \cup Array) \ used /\ c # c0
    BY DEF Container
  <2> QED
    BY <2>1 DEF IInv, FreshEmpty
<1> QED
  BY <1>2, <1>3, KeepLemma, IdleLemma DEF IInv

LEMMA IdleTyped ==
    ASSUME Calls
    PROVE  /\ gc'.phase \in {"idle", "trace", "sweep"}
           /\ gc'.containers = {} /\ gc'.live = {} /\ gc'.other = {}
  BY DEF Calls, Idle

LEMMA SetItemLemma ==
    ASSUME IInv, NEW o \in Object, NEW i \in Index, NEW v \in Value, SetItem(o, i, v)
    PROVE  IInv' /\ Live' \subseteq Live
<1> USE DEF SetItem
<1> DEFINE a == object[o].elements
<1>1. a \in Array /\ a \in used /\ a \notin Dict
  BY BlockAssumption DEF IInv, TypeOK, PartsSurvive, Parts
<1>2. Objects({v}) \subseteq Live
  BY StorableLemma DEF IInv
<1>3. /\ used \subseteq used' /\ used' \subseteq Block
      /\ used' \cap Container = used \cap Container
      /\ text' \in [String -> Texts]
  <2>1. PICK texts \in NewString(v) : Allocates(texts)
    OBVIOUS
  <2> QED
    BY <2>1, NewStringLemma, AllocatesLemma DEF IInv
<1>4. items' \in [Array -> [Index -> Value]]
  BY DEF IInv, TypeOK
<1>5. TypeOK'
  BY <1>3, <1>4, IdleTyped DEF IInv, TypeOK
<1>6. \A c \in Dict \cup Array : c # a => Values(c)' = Values(c)
  BY <1>1 DEF Values, IInv, TypeOK
<1>7. Values(a)' \subseteq Values(a) \cup {v}
  BY <1>1 DEF Values, IInv, TypeOK
<1> QED
  BY <1>1, <1>2, <1>3, <1>5, <1>6, <1>7, StoreLemma

\* The entries of a dictionary change: all but an added one were there.
LEMMA SetPropertyLemma ==
    ASSUME IInv, Calls, NEW o \in Live, UNCHANGED <<root_object, object, items, held>>,
           NEW v \in Storable("prop"),
           NEW texts, Allocates(texts), DOMAIN texts \subseteq String,
           \A s \in DOMAIN texts : texts[s] \in Texts,
           NEW E \in SUBSET Entry,
           entries' = [entries EXCEPT ![object[o].extra_props] = E],
           \A e \in E : e \in entries[object[o].extra_props] \/ e.value = v
    PROVE  IInv' /\ Live' \subseteq Live
<1> DEFINE d == object[o].extra_props
<1>1. o \in Object
  BY LiveLemma DEF IInv
<1>2. d \in Dict /\ d \in used
  BY <1>1 DEF IInv, TypeOK, PartsSurvive, Parts
<1>3. Objects({v}) \subseteq Live
  BY StorableLemma DEF IInv
<1>4. /\ used \subseteq used' /\ used' \subseteq Block
      /\ used' \cap Container = used \cap Container
      /\ text' \in [String -> Texts]
  BY AllocatesLemma DEF IInv
<1>5. entries' \in [Dict -> SUBSET Entry] /\ entries'[d] = E
  BY <1>2 DEF IInv, TypeOK
<1>6. TypeOK'
  BY <1>4, <1>5, IdleTyped DEF IInv, TypeOK
<1>7. \A c \in Dict \cup Array : c # d => Values(c)' = Values(c)
  BY <1>2 DEF Values, IInv, TypeOK
<1>8. Values(d)' \subseteq Values(d) \cup {v}
  BY <1>2, <1>5 DEF Values
<1> QED
  BY <1>2, <1>3, <1>4, <1>6, <1>7, <1>8, StoreLemma

LEMMA ReplacePropertyLemma ==
    ASSUME IInv, NEW o \in Object, NEW p \in Prop, NEW v \in Value, ReplaceProperty(o, p, v)
    PROVE  IInv' /\ Live' \subseteq Live
<1> DEFINE d == object[o].extra_props
<1>1. PICK e \in lookup(d, p) :
         entries' = [entries EXCEPT ![d] = (@ \ {e}) \cup {[e EXCEPT !.value = v]}]
  BY DEF ReplaceProperty
<1> DEFINE E == (entries[d] \ {e}) \cup {[e EXCEPT !.value = v]}
<1>2. d \in Dict
  BY DEF IInv, TypeOK
<1>3. e \in entries[d] /\ entries[d] \subseteq Entry
  BY <1>2 DEF lookup, IInv, TypeOK
<1>4. E \in SUBSET Entry
  BY <1>3 DEF Entry
<1>5. \A x \in E : x \in entries[d] \/ x.value = v
  BY <1>3 DEF Entry
<1>6. entries' = [entries EXCEPT ![d] = E]
  BY <1>1
<1>7. /\ Calls /\ o \in Live /\ v \in Storable("prop")
      /\ UNCHANGED <<root_object, object, items, held>>
  BY DEF ReplaceProperty
<1>8. PICK texts \in NewString(v) : Allocates(texts)
  BY DEF ReplaceProperty
<1>9. DOMAIN texts \subseteq String /\ \A s \in DOMAIN texts : texts[s] \in Texts
  BY NewStringLemma
<1> HIDE DEF E
<1> QED
  BY <1>4, <1>5, <1>6, <1>7, <1>8, <1>9, SetPropertyLemma

LEMMA InsertPropertyLemma ==
    ASSUME IInv, NEW o \in Object, NEW p \in Prop, NEW v \in Value, NEW k \in String,
           InsertProperty(o, p, v, k)
    PROVE  IInv' /\ Live' \subseteq Live
<1> DEFINE d == object[o].extra_props
           E == entries[d] \cup {[name |-> p, key |-> k, value |-> v]}
<1>1. d \in Dict
  BY DEF IInv, TypeOK
<1>2. E \in SUBSET Entry
  BY <1>1 DEF Entry, IInv, TypeOK
<1>3. \A x \in E : x \in entries[d] \/ x.value = v
  OBVIOUS
<1>4. entries' = [entries EXCEPT ![d] = E]
  BY DEF InsertProperty
<1>5. /\ Calls /\ o \in Live /\ v \in Storable("prop")
      /\ UNCHANGED <<root_object, object, items, held>>
  BY DEF InsertProperty
<1>6. PICK t \in NewString(v) :
         Allocates([s \in {k} \cup DOMAIN t |-> IF s = k THEN p ELSE t[s]])
  BY DEF InsertProperty
<1> DEFINE texts == [s \in {k} \cup DOMAIN t |-> IF s = k THEN p ELSE t[s]]
<1>7. DOMAIN t \subseteq String /\ \A s \in DOMAIN t : t[s] \in Texts
  BY NewStringLemma
<1>8. /\ Allocates(texts) /\ DOMAIN texts \subseteq String
      /\ \A s \in DOMAIN texts : texts[s] \in Texts
  BY <1>6, <1>7 DEF Texts
<1> HIDE DEF E, texts
<1> QED
  BY <1>2, <1>3, <1>4, <1>5, <1>8, SetPropertyLemma

\* The objects refer to each other as before, and no other containers are
\* allocated than before.
LEMMA SameGraphLemma ==
    ASSUME IInv, UNCHANGED <<object, entries, items>>,
           used' \cap Container = used \cap Container,
           Objects({root_object} \cup held)' \subseteq Live
    PROVE  /\ PartsSurvive' /\ Separate' /\ FreshEmpty' /\ Live' \subseteq Live
           /\ \A c : Values(c)' = Values(c)
           /\ \A o : Parts(o)' = Parts(o) /\ Members(o)' = Members(o)
<1>1. \A c : Values(c)' = Values(c)
  BY DEF Values
<1>2. \A o : Parts(o)' = Parts(o)
  BY DEF Parts
<1>3. \A o : Members(o)' = Members(o)
  BY <1>1, <1>2 DEF Members
<1>4. Live' \subseteq Live
  <2>2. \A o \in Live : Objects(Members(o))' \subseteq Live
    BY <1>3, LiveLemma DEF IInv, Objects, Container
  <2> QED
    BY <2>2, LiveLemma, NextLiveLemma DEF IInv
<1>5. \A o \in Live : {o} \cup Parts(o) \subseteq used \cap Container
  BY LiveLemma, GraphLemma DEF IInv, PartsSurvive, Container
<1>6. PartsSurvive'
  BY <1>2, <1>4, <1>5 DEF PartsSurvive
<1>7. Separate'
  BY <1>2, <1>4 DEF IInv, Separate
<1>8. FreshEmpty'
  BY <1>1 DEF IInv, FreshEmpty, Container
<1> QED
  BY <1>1, <1>2, <1>3, <1>4, <1>6, <1>7, <1>8

LEMMA SetRootLemma ==
    ASSUME IInv, NEW v \in Value, SetRoot(v)
    PROVE  IInv'
<1> USE DEF SetRoot
<1>1. /\ used \subseteq used' /\ used' \subseteq Block
      /\ text' \in [String -> Texts]
      /\ used' \cap Container = used \cap Container
  <2>1. PICK texts \in NewString(v) : Allocates(texts)
    OBVIOUS
  <2> QED
    BY <2>1, NewStringLemma, AllocatesLemma DEF IInv
<1>3. Objects({v}) \subseteq Live
  BY StorableLemma DEF IInv
<1>4. Objects({root_object} \cup held)' \subseteq Live
  BY <1>1, <1>3, LiveLemma DEF IInv, Objects, Container
<1>5. TypeOK'
  BY <1>1, IdleTyped DEF IInv, TypeOK
<1> QED
  BY <1>1, <1>4, <1>5, SameGraphLemma, IdleLemma DEF IInv

LEMMA GetPropertyLemma ==
    ASSUME IInv, NEW o \in Object, GetProperty(o)
    PROVE  IInv'
<1> USE DEF GetProperty
<1>1. Objects({root_object} \cup held)' \subseteq Live
  BY RootsLemma DEF IInv
<1>2. TypeOK'
  BY IdleTyped DEF IInv, TypeOK
<1> QED
  BY <1>1, <1>2, SameGraphLemma, IdleLemma DEF IInv

LEMMA CrashLemma ==
    ASSUME IInv, Crash
    PROVE  IInv'
<1> USE DEF Crash
<1>1. Objects({root_object} \cup held)' \subseteq Live
  BY RootsLemma DEF IInv
<1>2. TypeOK' /\ Marking'
  BY DEF IInv, TypeOK, Idle, Marking
<1> QED
  BY <1>1, <1>2, SameGraphLemma DEF IInv

\* A new object refers to no other: its dictionary and its array are as they
\* were when they were free.
LEMMA CreateObjectLemma ==
    ASSUME IInv, NEW o \in Object, NEW a \in Array, NEW d \in Dict, CreateObject(o, a, d)
    PROVE  IInv' /\ Live' \subseteq Live \cup {o}
<1> USE DEF CreateObject
<1> DEFINE T == Live \cup {o}
<1>1. /\ object' \in [Object -> [elements : Array, extra_props : Dict]]
      /\ object'[o] = [elements |-> a, extra_props |-> d]
      /\ \A x \in Object : x # o => object'[x] = object[x]
  BY DEF IInv, TypeOK
<1>2. TypeOK'
  BY <1>1, IdleTyped DEF IInv, TypeOK, Block, Container
<1>3. \A c : Values(c)' = Values(c)
  BY DEF Values
<1>4. o \notin Live /\ Live \subseteq Object
  BY LiveLemma DEF IInv, PartsSurvive
<1>5. \A x \in Live : Parts(x)' = Parts(x)
  BY <1>1, <1>4 DEF Parts
<1>6. Parts(o)' = {a, d}
  BY <1>1 DEF Parts
<1>7. \A x \in Live : Members(x)' = Members(x)
  BY <1>3, <1>5 DEF Members
<1>8. Objects(Members(o))' = {}
  <2>1. Values(a) \cap Object = {} /\ Values(d) \cap Object = {}
    BY DEF IInv, FreshEmpty
  <2> QED
    BY <2>1, <1>3, <1>6 DEF Members, Objects
<1>9. used' \cap Object = (used \cap Object) \cup {o}
  BY BlockAssumption
<1>10. Live' \subseteq T
  <2>1. \A x \in T : Objects(Members(x))' \subseteq T
    BY <1>7, <1>8, <1>9, LiveLemma DEF IInv, Objects
  <2>2. Objects({root_object} \cup held)' \subseteq T
    BY <1>9, LiveLemma DEF IInv, Objects
  <2> QED
    BY <1>4, <2>1, <2>2, NextLiveLemma
<1>11. PartsSurvive'
  BY <1>5, <1>6, <1>10 DEF IInv, PartsSurvive
<1>12. \A x \in Live : Parts(x) \cap {a, d} = {}
  BY DEF IInv, PartsSurvive
<1>13. Separate'
  BY <1>5, <1>6, <1>10, <1>12 DEF IInv, Separate
<1>14. FreshEmpty'
  BY <1>3 DEF IInv, FreshEmpty
<1> QED
  BY <1>2, <1>10, <1>11, <1>13, <1>14, IdleLemma DEF IInv

\* The block of the object that is deleted is free: whoever refers to it still, it
\* is not live, and no block of the others is freed.
LEMMA DelPropertyLemma ==
    ASSUME IInv, NEW o \in Object, NEW p \in Prop, DelProperty(o, p)
    PROVE  IInv'
<1> USE DEF DelProperty
<1> DEFINE d == object[o].extra_props
<1>1. PICK e \in lookup(d, p) :
         /\ object' = [x \in Object |-> IF x = e.value THEN Nowhere ELSE object[x]]
         /\ entries' = [entries EXCEPT ![d] = @ \ {e}]
         /\ used' = used \ {e.key, e.value}
  OBVIOUS
<1>2. d \in Dict
  BY DEF IInv, TypeOK
<1>3. e \in Entry
  BY <1>2 DEF lookup, IInv, TypeOK
<1>4. e.key \in String /\ e.value \in Value
  BY <1>3 DEF Entry
<1>5. {e.key, e.value} \cap (Dict \cup Array) = {}
  BY <1>4, BlockAssumption DEF Value, Block, Container
<1>6. Nowhere \in [elements : Array, extra_props : Dict]
  BY BlockAssumption DEF Nowhere
<1>7. TypeOK'
  <2>1. object' \in [Object -> [elements : Array, extra_props : Dict]]
    BY <1>1, <1>6 DEF IInv, TypeOK
  <2>2. entries' \in [Dict -> SUBSET Entry]
    BY <1>1, <1>2 DEF IInv, TypeOK
  <2>3. used' \subseteq Block
    BY <1>1 DEF IInv, TypeOK
  <2> QED
    BY <2>1, <2>2, <2>3, IdleTyped DEF IInv, TypeOK
<1>8. \A c \in Dict \cup Array : Values(c)' \subseteq Values(c)
  <2> SUFFICES ASSUME NEW c \in Dict \cup Array
               PROVE  Values(c)' \subseteq Values(c)
    OBVIOUS
  <2>1. CASE c \in Dict
    <3>1. entries'[c] \subseteq entries[c]
      BY <1>1, <1>2, <2>1 DEF IInv, TypeOK
    <3> QED
      BY <3>1, <2>1 DEF Values
  <2>2. CASE c \notin Dict
    BY <2>2 DEF Values
  <2> QED
    BY <2>1, <2>2
<1>9. \A x \in Object : x # e.value => Parts(x)' = Parts(x)
  BY <1>1 DEF Parts
<1>10. \A x \in Object : x # e.value => Members(x)' \subseteq Members(x)
  <2> SUFFICES ASSUME NEW x \in Object, x # e.value, NEW y \in Members(x)'
               PROVE  y \in Members(x)
    OBVIOUS
  <2>1. PICK c \in Parts(x) : y \in Values(c)'
    BY <1>9 DEF Members
  <2>2. c \in Dict \cup Array
    BY <2>1, GraphLemma DEF IInv
  <2> QED
    BY <2>1, <2>2, <1>8 DEF Members
<1>11. Live' \subseteq Live \cap used'
  <2> DEFINE T == Live \cap used'
  <2>1. Objects({root_object} \cup held)' \subseteq T
    BY <1>1, LiveLemma DEF IInv, Objects
  <2>2. ASSUME NEW x \in T
        PROVE  Objects(Members(x))' \subseteq T
    <3>1. x \in Object /\ x # e.value /\ Objects(Members(x)) \subseteq Live
      BY <1>1, LiveLemma DEF IInv
    <3>2. Members(x)' \subseteq Members(x)
      BY <1>10, <3>1
    <3> QED
      BY <1>1, <3>1, <3>2 DEF Objects
  <2>3. T \in SUBSET Object
    BY LiveLemma DEF IInv
  <2> QED
    BY <2>1, <2>2, <2>3, NextLiveLemma
<1>12. \A x \in Live' : x \in Live /\ Parts(x)' = Parts(x)
  BY <1>1, <1>9, <1>11, LiveLemma DEF IInv
<1>13. PartsSurvive'
  <2> SUFFICES ASSUME NEW x \in Live'
               PROVE  Parts(x)' \subseteq used'
    BY DEF PartsSurvive
  <2>1. Parts(x) \subseteq used /\ Parts(x) \subseteq Dict \cup Array
    BY <1>12, LiveLemma, GraphLemma DEF IInv, PartsSurvive
  <2> QED
    BY <2>1, <1>1, <1>5, <1>12
<1>14. Separate'
  BY <1>12 DEF IInv, Separate
<1>15. FreshEmpty'
  BY <1>1, <1>5, <1>8 DEF IInv, FreshEmpty
<1> QED
  BY <1>7, <1>13, <1>14, <1>15, IdleLemma DEF IInv

-----------------------------------------------------------------------------
(* gc(). *)

LEMMA SameRootLemma ==
    ASSUME UNCHANGED <<root_object, object, entries, items>>,
           used' \cap Container = used \cap Container
    PROVE  /\ FromRoot' = FromRoot
           /\ \A c : Values(c)' = Values(c) /\ Parts(c)' = Parts(c)
           /\ \A c : Members(c)' = Members(c) /\ Traced(c)' = Traced(c)
<1>1. \A c : Values(c)' = Values(c)
  BY DEF Values
<1>2. \A c : Parts(c)' = Parts(c)
  BY DEF Parts
<1>3. \A c : Members(c)' = Members(c)
  BY <1>1, <1>2 DEF Members
<1>4. \A c : Traced(c)' = Traced(c)
  BY <1>1, <1>2 DEF Traced
<1>5. FromRoot' = FromRoot
  <2>1. used' \cap Object = used \cap Object
    BY DEF Container
  <2>2. Refers' = Refers /\ Objects({root_object})' = Objects({root_object})
    BY <1>3, <2>1 DEF Refers, Objects
  <2> QED
    BY <2>2 DEF FromRoot
<1> QED
  BY <1>1, <1>2, <1>3, <1>4, <1>5

LEMMA StutterLemma ==
    ASSUME IInv, UNCHANGED vars
    PROVE  IInv'
<1> USE DEF vars
<1>1. Objects({root_object} \cup held)' \subseteq Live
  BY RootsLemma DEF IInv
<1>2. TypeOK'
  BY DEF IInv, TypeOK
<1>3. Marking'
  BY SameRootLemma DEF IInv, Marking, FoundIsReferenced, ReferencedIsFound, Marked
<1> QED
  BY <1>1, <1>2, <1>3, SameGraphLemma DEF IInv

LEMMA GcStartLemma ==
    ASSUME IInv, GcStart
    PROVE  IInv'
<1> USE DEF GcStart
<1>1. Objects({root_object} \cup held)' \subseteq Live
  BY RootsLemma DEF IInv
<1>2. /\ gc'.phase = "trace"
      /\ gc'.containers = (used \cap Container) \ {root_object}
      /\ gc'.other = (used \cap String) \ {root_object}
      /\ gc'.live = {root_object} \cap Object
  OBVIOUS
<1>3. {root_object} \cap Object \subseteq used \cap Container
  BY DEF Container
<1>4. TypeOK'
  BY <1>2, <1>3 DEF IInv, TypeOK
<1>5. Marked' = {root_object} \cap Object
  <2>1. root_object \in Container => root_object \in Object
    BY BlockAssumption DEF IInv, TypeOK, Value, Block, Container
  <2> QED
    BY <1>2, <1>3, <2>1 DEF Marked
<1>6. FoundIsReferenced'
  <2>1. Marked' \cap Object \subseteq FromRoot'
    BY <1>3, <1>5, SameRootLemma, LiveLemma DEF IInv, Objects
  <2>2. \A s \in (used' \cap String) \ gc'.other : s = root_object'
    BY <1>2
  <2> QED
    BY <1>5, <2>1, <2>2 DEF FoundIsReferenced
<1>7. ReferencedIsFound'
  BY <1>2, <1>5 DEF ReferencedIsFound
<1>8. Marking'
  BY <1>2, <1>6, <1>7, SameRootLemma DEF Marking
<1> QED
  BY <1>1, <1>4, <1>8, SameGraphLemma DEF IInv

LEMMA GcSweepLemma ==
    ASSUME IInv, GcSweep
    PROVE  IInv'
<1> USE DEF GcSweep
<1>1. Objects({root_object} \cup held)' \subseteq Live
  BY RootsLemma DEF IInv
<1>2. /\ gc'.phase = "sweep" /\ gc'.containers = gc.containers
      /\ gc'.other = gc.other /\ gc'.live = {} /\ gc.live = {}
  BY DEF IInv, TypeOK
<1>3. TypeOK'
  BY <1>2 DEF IInv, TypeOK
<1>4. Marking'
  <2>1. Marked' = Marked
    BY <1>2 DEF Marked
  <2> QED
    BY <1>2, <2>1, SameRootLemma DEF IInv, Marking, FoundIsReferenced, ReferencedIsFound
<1> QED
  BY <1>1, <1>3, <1>4, SameGraphLemma DEF IInv

\* What is traced from c is referenced, and what has been traced stays so.
LEMMA GcTraceLemma ==
    ASSUME IInv, NEW c \in Container, GcTrace(c)
    PROVE  IInv'
<1> USE DEF GcTrace
<1> DEFINE found == Traced(c) \cap gc.containers
<1>1. Objects({root_object} \cup held)' \subseteq Live
  BY RootsLemma DEF IInv
<1>2. /\ gc.phase = "trace" /\ gc'.phase = "trace" /\ c \in gc.live
      /\ gc'.containers = gc.containers \ Traced(c)
      /\ gc'.other = gc.other \ Traced(c)
      /\ gc'.live = (gc.live \ {c}) \cup found
  BY DEF IInv, TypeOK
<1>3. TypeOK'
  BY <1>2 DEF IInv, TypeOK
<1>4. /\ gc.live \cap gc.containers = {} /\ held \subseteq FromRoot
      /\ FoundIsReferenced /\ ReferencedIsFound
  BY <1>2 DEF IInv, Marking
<1>5. c \in Marked /\ Marked' = Marked \cup found
  BY <1>2, <1>4 DEF Marked, IInv, TypeOK
<1>6. ASSUME c \in Object
      PROVE  FoundIsReferenced'
  <2>1. Traced(c) = Parts(c) /\ Parts(c) \subseteq (Dict \cup Array) \ Object
    BY <1>6, GraphLemma, BlockAssumption DEF Traced, IInv
  <2>2. FoundIsReferenced'
    <3>1. Marked' \cap Object \subseteq FromRoot'
      BY <1>4, <1>5, <2>1, SameRootLemma DEF FoundIsReferenced
    <3>2. \A y \in Marked' \ Object :
             \E o \in (Marked' \cap Object) \ gc'.live : y \in Parts(o)'
      <4> SUFFICES ASSUME NEW y \in Marked' \ Object
                   PROVE  \E o \in (Marked' \cap Object) \ gc'.live : y \in Parts(o)
        BY SameRootLemma
      <4>1. CASE y \in Marked
        BY <1>2, <1>4, <1>5, <4>1 DEF FoundIsReferenced, Marked
      <4>2. CASE y \in found
        BY <1>2, <1>4, <1>5, <1>6, <2>1, <4>2 DEF Marked
      <4> QED
        BY <1>5, <4>1, <4>2
    <3>3. Traced(c) \cap String = {}
      BY <2>1, BlockAssumption DEF Container
    <3>4. \A s \in (used' \cap String) \ gc'.other :
             s = root_object' \/ \E o \in Marked' \cap Object : s \in Members(o)'
      BY <1>2, <1>4, <1>5, <3>3, SameRootLemma DEF FoundIsReferenced
    <3> QED
      BY <3>1, <3>2, <3>4 DEF FoundIsReferenced
  <2> QED
    BY <2>2
<1>7. ASSUME c \notin Object
      PROVE  FoundIsReferenced'
  <2>1. PICK o \in (Marked \cap Object) \ gc.live : c \in Parts(o)
    BY <1>4, <1>5, <1>7 DEF FoundIsReferenced
  <2>2. Traced(c) = Values(c) /\ Traced(c) \subseteq Members(o) /\ Traced(c) \subseteq Value
    BY <1>7, <2>1, GraphLemma DEF Traced, Members, IInv
  <2>3. Objects(Traced(c)) \subseteq FromRoot
    BY <1>4, <2>1, <2>2, LiveLemma DEF FoundIsReferenced, IInv, Objects
  <2>4. found \subseteq Object
    <3>1. gc.containers \subseteq Container
      BY DEF IInv, TypeOK
    <3> QED
      BY <3>1, <2>2, BlockAssumption DEF Value, Block, Container
  <2>5. FoundIsReferenced'
    <3>1. Marked' \cap Object \subseteq FromRoot'
      <4>1. found \subseteq FromRoot
        BY <2>3, <2>4 DEF Objects, IInv, TypeOK
      <4> QED
        BY <1>4, <1>5, <4>1, SameRootLemma DEF FoundIsReferenced
    <3>2. \A y \in Marked' \ Object :
             \E x \in (Marked' \cap Object) \ gc'.live : y \in Parts(x)'
      <4> SUFFICES ASSUME NEW y \in Marked' \ Object
                   PROVE  \E x \in (Marked' \cap Object) \ gc'.live : y \in Parts(x)
        BY SameRootLemma
      <4>1. y \in Marked
        BY <1>5, <2>4
      <4> QED
        BY <1>2, <1>4, <1>5, <4>1 DEF FoundIsReferenced, Marked
    <3>3. \A s \in (used' \cap String) \ gc'.other :
             s = root_object' \/ \E x \in Marked' \cap Object : s \in Members(x)'
      <4> SUFFICES ASSUME NEW s \in (used' \cap String) \ gc'.other
                   PROVE  s = root_object \/ \E x \in Marked' \cap Object : s \in Members(x)
        BY SameRootLemma
      <4>1. CASE s \in gc.other
        BY <1>2, <1>5, <2>1, <2>2, <4>1
      <4>2. CASE s \notin gc.other
        BY <1>4, <1>5, <4>2 DEF FoundIsReferenced
      <4> QED
        BY <4>1, <4>2
    <3> QED
      BY <3>1, <3>2, <3>3 DEF FoundIsReferenced
  <2> QED
    BY <2>5
<1>8. ReferencedIsFound'
  <2>1. root_object' \notin gc'.containers \cup gc'.other
    BY <1>2, <1>4 DEF ReferencedIsFound
  <2>2. \A x \in Marked' \ gc'.live : x = c \/ x \in Marked \ gc.live
    BY <1>2, <1>5
  <2>3. \A x \in Marked' \ gc'.live : Traced(x) \cap (gc'.containers \cup gc'.other) = {}
    BY <1>2, <1>4, <2>2 DEF ReferencedIsFound
  <2> QED
    BY <2>1, <2>3, SameRootLemma DEF ReferencedIsFound
<1>9. Marking'
  BY <1>2, <1>4, <1>6, <1>7, <1>8, SameRootLemma DEF Marking
<1> QED
  BY <1>1, <1>3, <1>9, SameGraphLemma DEF IInv

\* Once nothing is left to trace, what has been found is what the root leads to
\* and what the client can get at.
LEMMA MarkedLemma ==
    ASSUME IInv, gc.phase = "sweep"
    PROVE  /\ Marked \cap Object = FromRoot /\ Live = FromRoot
           /\ \A o \in FromRoot : Parts(o) \subseteq Marked
<1> DEFINE T == Marked \cap Object
<1>1. /\ gc.live = {} /\ held \subseteq FromRoot
      /\ FoundIsReferenced /\ ReferencedIsFound
  BY DEF IInv, Marking
<1>2. Live = FromRoot
  BY <1>1, LiveLemma DEF IInv
<1>3. T \subseteq FromRoot
  BY <1>1 DEF FoundIsReferenced
<1>4. \A o \in FromRoot : o \in used \cap Container /\ Parts(o) \subseteq used \cap Container
  BY <1>2, LiveLemma, GraphLemma DEF IInv, PartsSurvive, Container
<1>5. \A o \in T : Parts(o) \subseteq Marked
  <2> SUFFICES ASSUME NEW o \in T
               PROVE  Parts(o) \subseteq Marked
    OBVIOUS
  <2>1. Traced(o) = Parts(o) /\ Traced(o) \cap gc.containers = {}
    BY <1>1 DEF Traced, ReferencedIsFound
  <2> QED
    BY <2>1, <1>3, <1>4 DEF Marked
<1>6. \A o \in T : Objects(Members(o)) \subseteq T
  <2> SUFFICES ASSUME NEW o \in T, NEW x \in Objects(Members(o))
               PROVE  x \in T
    OBVIOUS
  <2>1. PICK c \in Parts(o) : x \in Values(c)
    BY DEF Objects, Members
  <2>2. c \in Marked /\ c \notin Object
    BY <2>1, <1>5, GraphLemma, BlockAssumption DEF IInv
  <2>3. Values(c) \cap gc.containers = {}
    BY <2>2, <1>1 DEF Traced, ReferencedIsFound
  <2> QED
    BY <2>1, <2>3 DEF Marked, Objects, Container
<1>7. Objects({root_object}) \subseteq T
  BY <1>1 DEF ReferencedIsFound, Marked, Objects, Container
<1>8. FromRoot \subseteq T
  <2>1. Closed(Refers, T)
    BY <1>6 DEF Closed, Refers
  <2> QED
    BY <2>1, <1>7, ReachLeast DEF FromRoot
<1> QED
  BY <1>2, <1>3, <1>5, <1>8

LEMMA GcDeallocateLemma ==
    ASSUME IInv, NEW c \in Container, GcDeallocate(c)
    PROVE  /\ IInv' /\ Live' \subseteq Live
           /\ \A x \in Live : Parts(x)' = Parts(x)
<1> USE DEF GcDeallocate
<1>1. /\ gc.phase = "sweep" /\ gc'.phase = "sweep" /\ c \in gc.containers
      /\ gc'.containers = gc.containers \ {c}
      /\ gc'.other = gc.other /\ gc'.live = gc.live /\ gc.live = {}
      /\ used' = used \ {c}
  BY DEF IInv, TypeOK, Marking, deallocate
<1>2. /\ held \subseteq FromRoot /\ FoundIsReferenced /\ ReferencedIsFound
  BY <1>1 DEF IInv, Marking
<1>3. Marked' = Marked /\ c \notin Marked
  BY <1>1 DEF Marked, IInv, TypeOK
<1>4. TypeOK'
  <2>1. Nowhere \in [elements : Array, extra_props : Dict]
    BY BlockAssumption DEF Nowhere
  <2>2. object' \in [Object -> [elements : Array, extra_props : Dict]]
    BY <2>1 DEF IInv, TypeOK
  <2>3. entries' \in [Dict -> SUBSET Entry]
    BY DEF IInv, TypeOK
  <2>4. items' \in [Array -> [Index -> Value]]
    BY DEF IInv, TypeOK, Value
  <2>5. used' \subseteq Block
    BY <1>1 DEF IInv, TypeOK
  <2>6. /\ gc'.containers \subseteq used' \cap Container
        /\ gc'.other \subseteq used' \cap String
        /\ gc'.live \subseteq used' \cap Container
    BY <1>1, BlockAssumption DEF IInv, TypeOK
  <2> QED
    BY <1>1, <2>2, <2>3, <2>4, <2>5, <2>6 DEF IInv, TypeOK
<1>5. \A x \in Object : x # c => Parts(x)' = Parts(x)
  BY DEF Parts
<1>6. \A x \in Dict \cup Array : x # c => Values(x)' = Values(x)
  BY DEF Values
<1>7. \A x \in FromRoot : Parts(x)' = Parts(x) /\ Members(x)' = Members(x)
  <2> SUFFICES ASSUME NEW x \in FromRoot
               PROVE  Parts(x)' = Parts(x) /\ Members(x)' = Members(x)
    OBVIOUS
  <2>1. x \in Object /\ x # c /\ Parts(x) \subseteq Marked /\ Parts(x) \subseteq Dict \cup Array
    BY <1>1, <1>3, MarkedLemma, LiveLemma, GraphLemma DEF IInv
  <2>2. Parts(x)' = Parts(x)
    BY <2>1, <1>5
  <2>3. \A y \in Parts(x) : Values(y)' = Values(y)
    BY <2>1, <1>3, <1>6
  <2> QED
    BY <2>2, <2>3 DEF Members
<1>8. Live' \subseteq FromRoot
  <2>1. Objects({root_object} \cup held)' \subseteq FromRoot
    BY <1>1, <1>2, LiveLemma DEF IInv, Objects
  <2>2. \A x \in FromRoot : Objects(Members(x))' \subseteq FromRoot
    BY <1>1, <1>7, LiveLemma DEF IInv, Objects
  <2> QED
    BY <2>1, <2>2, LiveLemma, NextLiveLemma DEF IInv
<1>9. FromRoot \subseteq FromRoot'
  <2> DEFINE T == FromRoot' \cap FromRoot
  <2>1. /\ FromRoot' \subseteq Object
        /\ Objects({root_object})' \subseteq FromRoot'
        /\ \A x \in FromRoot' : Objects(Members(x))' \subseteq FromRoot'
    <3>1. Refers' \in [Object -> SUBSET Object] /\ Objects({root_object})' \in SUBSET Object
      BY DEF Refers, Objects
    <3>2. Closed(Refers', FromRoot')
      BY <3>1, ReachClosed DEF FromRoot
    <3>3. FromRoot' \subseteq Object /\ Objects({root_object})' \subseteq FromRoot'
      BY <3>1, ReachSelf DEF FromRoot
    <3>4. \A x \in Object : Refers'[x] = Objects(Members(x))'
      BY DEF Refers
    <3> QED
      BY <3>2, <3>3, <3>4 DEF Closed
  <2>2. FromRoot \subseteq used' \cap Object
    BY <1>1, <1>3, MarkedLemma, LiveLemma DEF IInv, Marked
  <2>3. \A x \in T : Objects(Members(x)) \subseteq T
    BY <2>1, <2>2, <1>7, LiveLemma DEF IInv, Objects
  <2>4. Closed(Refers, T)
    BY <2>1, <2>3 DEF Closed, Refers
  <2>5. Objects({root_object}) \subseteq T
    BY <2>1, <2>2, LiveLemma DEF IInv, Objects
  <2>6. FromRoot \subseteq T
    BY <2>1, <2>4, <2>5, ReachLeast DEF FromRoot
  <2> QED
    BY <2>6
<1>10. PartsSurvive'
  <2> SUFFICES ASSUME NEW x \in Live'
               PROVE  Parts(x)' \subseteq used'
    BY DEF PartsSurvive
  <2>1. Parts(x) \subseteq Marked
    BY <1>1, <1>8, MarkedLemma
  <2> QED
    BY <2>1, <1>1, <1>3, <1>7, <1>8 DEF Marked
<1>11. Separate'
  BY <1>1, <1>7, <1>8, MarkedLemma DEF IInv, Separate
<1>12. FreshEmpty'
  <2> SUFFICES ASSUME NEW x \in (Dict \cup Array) \ used'
               PROVE  Values(x)' \cap Object = {}
    BY DEF FreshEmpty
  <2>1. CASE x = c
    BY <2>1, BlockAssumption DEF Values, Block, Container
  <2>2. CASE x # c
    BY <2>2, <1>1, <1>6 DEF IInv, FreshEmpty
  <2> QED
    BY <2>1, <2>2
<1>13. FoundIsReferenced'
  <2>1. Marked' \cap Object \subseteq FromRoot'
    BY <1>1, <1>3, <1>9, MarkedLemma
  <2>2. \A y \in Marked' \ Object :
           \E o \in (Marked' \cap Object) \ gc'.live : y \in Parts(o)'
    BY <1>1, <1>2, <1>3, <1>7 DEF FoundIsReferenced
  <2>3. used' \cap String = used \cap String
    BY <1>1, BlockAssumption
  <2>4. \A s \in (used' \cap String) \ gc'.other :
           s = root_object' \/ \E o \in Marked' \cap Object : s \in Members(o)'
    BY <1>1, <1>2, <1>3, <1>7, <2>3 DEF FoundIsReferenced
  <2> QED
    BY <2>1, <2>2, <2>4 DEF FoundIsReferenced
<1>14. ReferencedIsFound'
  <2>1. \A x \in Marked : Traced(x)' = Traced(x)
    BY <1>3, <1>5, <1>6 DEF Traced, Marked, Container
  <2> QED
    BY <2>1, <1>1, <1>2, <1>3 DEF ReferencedIsFound
<1>15. Marking'
  BY <1>1, <1>2, <1>9, <1>13, <1>14 DEF Marking
<1> QED
  BY <1>1, <1>4, <1>7, <1>8, <1>10, <1>11, <1>12, <1>15, MarkedLemma DEF IInv

LEMMA GcFinishLemma ==
    ASSUME IInv, GcFinish
    PROVE  IInv' /\ used' \subseteq Referenced'
<1> USE DEF GcFinish
<1>1. Objects({root_object} \cup held)' \subseteq Live
  BY RootsLemma DEF IInv
<1>2. TypeOK' /\ Marking'
  BY DEF IInv, TypeOK, Idle, Marking
<1>3. used' \cap Container = used \cap Container
  BY BlockAssumption DEF IInv, TypeOK
<1>4. IInv'
  BY <1>1, <1>2, <1>3, SameGraphLemma DEF IInv
<1>5. used' \subseteq Referenced
  <2> SUFFICES ASSUME NEW b \in used'
               PROVE  b \in Referenced
    OBVIOUS
  <2>1. FoundIsReferenced
    BY DEF IInv, Marking
  <2>2. CASE b \in Container
    <3>1. b \in Marked
      BY <1>3, <2>2 DEF Marked
    <3> QED
      BY <2>1, <3>1 DEF FoundIsReferenced, Referenced
  <2>3. CASE b \in String
    <3>1. b = root_object \/ \E o \in Marked \cap Object : b \in Members(o)
      BY <2>1, <2>3 DEF FoundIsReferenced
    <3> QED
      BY <2>1, <3>1 DEF FoundIsReferenced, Referenced
  <2> QED
    BY <2>2, <2>3 DEF IInv, TypeOK, Block
<1>6. Referenced' = Referenced
  BY <1>3, SameRootLemma DEF Referenced
<1> QED
  BY <1>4, <1>5, <1>6

\* What the root leads to has been found when the freeing begins.
LEMMA SparedLemma ==
    ASSUME IInv, GcStep
    PROVE  Referenced \cap used \subseteq used'
<1>1. ASSUME gc.phase = "sweep", NEW b \in Referenced \cap used
      PROVE  b \notin gc.containers /\ b \notin gc.other
  <2>1. /\ gc.live = {} /\ ReferencedIsFound
        /\ gc.containers \subseteq Container /\ gc.other \subseteq String
    BY <1>1 DEF IInv, Marking, TypeOK
  <2>2. /\ FromRoot \subseteq Marked /\ FromRoot \subseteq Object
        /\ \A o \in FromRoot : Parts(o) \subseteq Marked /\ Parts(o) \subseteq Dict \cup Array
    BY <1>1, MarkedLemma, LiveLemma, GraphLemma DEF IInv
  <2>3. CASE b \in Marked
    BY <2>1, <2>3, BlockAssumption DEF Marked
  <2>4. CASE b = root_object
    BY <2>1, <2>4 DEF ReferencedIsFound
  <2>5. CASE \E o \in FromRoot : b \in Members(o)
    <3>1. PICK o \in FromRoot : \E c \in Parts(o) : b \in Values(c)
      BY <2>5 DEF Members
    <3>2. PICK c \in Parts(o) : b \in Values(c)
      BY <3>1
    <3>3. c \in Marked \ gc.live /\ Traced(c) = Values(c)
      BY <2>1, <2>2, <3>2, BlockAssumption DEF Traced
    <3> QED
      BY <2>1, <3>2, <3>3 DEF ReferencedIsFound
  <2> QED
    BY <2>2, <2>3, <2>4, <2>5 DEF Referenced
<1>2. ASSUME NEW c \in Container, GcTrace(c) \/ GcDeallocate(c)
      PROVE  Referenced \cap used \subseteq used'
  BY <1>1, <1>2 DEF GcTrace, GcDeallocate, deallocate
<1>3. GcSweep => Referenced \cap used \subseteq used'
  BY DEF GcSweep
<1>4. GcFinish => Referenced \cap used \subseteq used'
  BY <1>1 DEF GcFinish
<1> QED
  BY <1>2, <1>3, <1>4 DEF GcStep

-----------------------------------------------------------------------------
(* The theorems. *)

LEMMA NextLemma ==
    ASSUME IInv, [Next]_vars
    PROVE  IInv'
<1>1. ASSUME NEW o \in Object, NEW a \in Array, NEW d \in Dict, CreateObject(o, a, d)
      PROVE  IInv'
  BY <1>1, CreateObjectLemma
<1>2. ASSUME NEW v \in Value, SetRoot(v)
      PROVE  IInv'
  BY <1>2, SetRootLemma
<1>3. ASSUME NEW o \in Object, NEW i \in Index, NEW v \in Value, SetItem(o, i, v)
      PROVE  IInv'
  BY <1>3, SetItemLemma
<1>4. ASSUME NEW o \in Object, NEW p \in Prop, NEW v \in Value, ReplaceProperty(o, p, v)
      PROVE  IInv'
  BY <1>4, ReplacePropertyLemma
<1>5. ASSUME NEW o \in Object, NEW p \in Prop, NEW v \in Value, NEW k \in String,
             InsertProperty(o, p, v, k)
      PROVE  IInv'
  BY <1>5, InsertPropertyLemma
<1>6. ASSUME NEW o \in Object, NEW p \in Prop, DelProperty(o, p)
      PROVE  IInv'
  BY <1>6, DelPropertyLemma
<1>7. ASSUME NEW o \in Object, GetProperty(o)
      PROVE  IInv'
  BY <1>7, GetPropertyLemma
<1>8. ASSUME NEW c \in Container, GcTrace(c)
      PROVE  IInv'
  BY <1>8, GcTraceLemma
<1>9. ASSUME NEW c \in Container, GcDeallocate(c)
      PROVE  IInv'
  BY <1>9, GcDeallocateLemma
<1>10. GcSweep => IInv'
  BY GcSweepLemma
<1>11. GcFinish => IInv'
  BY GcFinishLemma
<1>12. GcStart => IInv'
  BY GcStartLemma
<1>13. Crash => IInv'
  BY CrashLemma
<1>14. UNCHANGED vars => IInv'
  BY StutterLemma
<1> QED
  BY <1>1, <1>2, <1>3, <1>4, <1>5, <1>6, <1>7, <1>8, <1>9, <1>10, <1>11, <1>12,
     <1>13, <1>14 DEF Next, GcStep

\* The inductive invariant, of every heap and every order of calls, collections
\* and crashes.
THEOREM Invariance == Spec => []IInv
<1>1. Init => IInv
  BY InitLemma
<1>2. IInv /\ [Next]_vars => IInv'
  BY NextLemma
<1> QED
  BY <1>1, <1>2, PTL DEF Spec

\* gc() only ever frees blocks that are allocated.
THEOREM HeapTypeCorrect == Spec => []TypeOK
<1>1. IInv => TypeOK
  BY DEF IInv
<1> QED
  BY <1>1, Invariance, PTL

\* An object that the client can get at keeps its dictionary and its array, in
\* every heap: whatever deletions have freed under others that refer to it, whatever
\* garbage crashes have left, and whatever blocks are used again.
THEOREM PartsAreKept == Spec => []PartsSurvive
<1>1. IInv => PartsSurvive
  BY DEF IInv
<1> QED
  BY <1>1, Invariance, PTL

\* A collection frees no block of what the root leads to, strings among them, but
\* keys: nothing is freed before all that is referenced has been found.
THEOREM ReferencedIsSpared == Spec => SparesReferenced
<1>1. IInv /\ [Next]_vars => [GcStep => Referenced \cap used \subseteq used']_vars
  BY SparedLemma
<1> QED
  BY <1>1, Invariance, PTL DEF SparesReferenced, Spec

\* The assertions of gc() hold: no two objects it traces share a dictionary or an
\* array.
THEOREM AssertionsHold == Spec => []AssertsHold
<1>1. ASSUME IInv
      PROVE  AssertsHold
  <2> SUFFICES ASSUME gc.phase = "trace", NEW o \in gc.live \cap Object, NEW c \in Parts(o)
               PROVE  c \in gc.containers
    BY DEF AssertsHold
  <2>1. gc.live \cap gc.containers = {} /\ FoundIsReferenced
    BY <1>1 DEF IInv, Marking
  <2>2. o \in Marked /\ o \in Live
    BY <1>1, <2>1, LiveLemma DEF IInv, TypeOK, Marked, FoundIsReferenced
  <2>3. c \in used /\ c \in Container \ Object
    BY <1>1, <2>2, GraphLemma, BlockAssumption DEF IInv, PartsSurvive, Container
  <2>4. CASE c \notin gc.containers
    <3>1. PICK x \in (Marked \cap Object) \ gc.live : c \in Parts(x)
      BY <2>1, <2>3, <2>4 DEF FoundIsReferenced, Marked
    <3>2. x \in Live /\ x # o
      BY <1>1, <2>1, <3>1, LiveLemma DEF IInv, FoundIsReferenced
    <3> QED
      BY <1>1, <2>2, <3>1, <3>2 DEF IInv, Separate
  <2> QED
    BY <2>4
<1> QED
  BY <1>1, Invariance, PTL

\* A collection that ends leaves nothing allocated but what the root leads to.
THEOREM NoGarbageLeft == Spec => CollectsAll
<1>1. IInv /\ [Next]_vars => [GcFinish => used' \subseteq Referenced']_vars
  BY GcFinishLemma
<1> QED
  BY <1>1, Invariance, PTL DEF CollectsAll, Spec

=============================================================================
