---------------------------- MODULE OpoHeapProofs ----------------------------
(***************************************************************************)
(* Proofs about OpoHeap for any goroutines, objects and sizes, for programs *)
(* with none of the Features: the counters are exact, and no reference that *)
(* anybody can use is to a freed object.                                    *)
(***************************************************************************)
EXTENDS OpoHeap, FiniteSetTheorems, TLAPS

Refs == Obj \cup {NULL}

-----------------------------------------------------------------------------
(* Places *)

\* The places of different goroutines and of objects are different.
LEMMA PlaceFacts ==
    /\ \A t \in Thread : \A r \in Root(t) :
          /\ r \in Place /\ r \notin Items
          /\ \A u \in Thread : /\ r # ObjVar(u) /\ r # ValVar(u)
                               /\ r # Callable(u) /\ r # Arg(u)
    /\ \A t \in Thread :
          /\ ObjVar(t) \in Place /\ ValVar(t) \in Place
          /\ Callable(t) \in Place /\ Arg(t) \in Place
          /\ ObjVar(t) \notin Items /\ ValVar(t) \notin Items
          /\ Callable(t) \notin Items /\ Arg(t) \notin Items
    /\ \A t, u \in Thread :
          /\ ObjVar(t) # ValVar(u) /\ ObjVar(t) # Callable(u) /\ ObjVar(t) # Arg(u)
          /\ ValVar(t) # Callable(u) /\ ValVar(t) # Arg(u)
          /\ Callable(t) # Arg(u)
          /\ t # u => /\ ObjVar(t) # ObjVar(u) /\ ValVar(t) # ValVar(u)
                      /\ Callable(t) # Callable(u) /\ Arg(t) # Arg(u)
                      /\ Root(t) \cap Root(u) = {}
    /\ \A o \in Obj : \A p \in Item(o) : p \in Items /\ p \in Place /\ p[1] = o
    /\ \A p \in Items : p \in Place /\ p[1] \in Obj /\ p \in Item(p[1])
  BY DEF Root, Item, Items, ObjVar, ValVar, Callable, Arg, Hand, Args, Place

LEMMA PlaceFinite == IsFiniteSet(Place)
  <1>1. ASSUME NEW t \in Thread PROVE IsFiniteSet(Root(t))
    <2> DEFINE f == [s \in Slot |-> <<t, "root", s>>]
    <2>1. f \in Surjection(Slot, Root(t))
      BY DEF Surjection, Root
    <2> QED BY <2>1, FS_Surjection, HeapAssumption
  <1>2. ASSUME NEW o \in Obj PROVE IsFiniteSet(Item(o))
    <2> DEFINE f == [i \in Index |-> <<o, "item", i>>]
    <2>1. f \in Surjection(Index, Item(o))
      BY DEF Surjection, Item
    <2> QED BY <2>1, FS_Surjection, HeapAssumption
  <1> DEFINE Own(t) == Root(t) \cup Hand(t) \cup Args(t)
  <1>3. ASSUME NEW t \in Thread PROVE IsFiniteSet(Own(t))
    <2>1. \A x : IsFiniteSet({x})
      BY FS_Singleton
    <2>2. IsFiniteSet(Hand(t))
      <3>1. Hand(t) = {ObjVar(t)} \cup {ValVar(t)}
        BY DEF Hand
      <3> QED BY ONLY <2>1, <3>1, FS_Union
    <2>3. IsFiniteSet(Args(t))
      <3>1. Args(t) = {Callable(t)} \cup {Arg(t)}
        BY DEF Args
      <3> QED BY ONLY <2>1, <3>1, FS_Union
    <2>4. IsFiniteSet(Root(t) \cup Hand(t))
      BY <1>1, <2>2, FS_Union
    <2> QED BY <2>3, <2>4, FS_Union
  <1>4. IsFiniteSet({Item(o) : o \in Obj})
    <2> DEFINE f == [o \in Obj |-> Item(o)]
    <2>1. f \in Surjection(Obj, {Item(o) : o \in Obj})
      BY DEF Surjection
    <2> QED BY <2>1, FS_Surjection, HeapAssumption
  <1>5. IsFiniteSet({Own(t) : t \in Thread})
    <2> DEFINE f == [t \in Thread |-> Own(t)]
    <2> HIDE DEF Own
    <2>1. f \in Surjection(Thread, {Own(t) : t \in Thread})
      BY DEF Surjection
    <2> QED BY <2>1, FS_Surjection, HeapAssumption
  <1>6. IsFiniteSet(Items)
    BY <1>2, <1>4, FS_UNION DEF Items
  <1>7. IsFiniteSet(UNION {Own(t) : t \in Thread})
    <2> HIDE DEF Own
    <2> QED BY <1>3, <1>5, FS_UNION
  <1> QED BY <1>6, <1>7, FS_Union DEF Place

-----------------------------------------------------------------------------
(* How many places refer to an object *)

Num(f, o) == Cardinality(HoldersIn(f, o))

LEMMA HoldersFinite ==
    ASSUME NEW f, NEW o
    PROVE  IsFiniteSet(HoldersIn(f, o)) /\ Num(f, o) \in Nat
  BY PlaceFinite, FS_Subset, FS_CardinalityType DEF HoldersIn, Num

\* A place that was empty gets a reference to y.
LEMMA AddCount ==
    ASSUME NEW f, NEW g, NEW p \in Place, NEW y \in Obj,
           f[p] = NULL, g[p] = y, \A x \in Place : x # p => g[x] = f[x]
    PROVE  \A o \in Obj : Num(g, o) = IF o = y THEN Num(f, o) + 1 ELSE Num(f, o)
  <1> SUFFICES ASSUME NEW o \in Obj
               PROVE  Num(g, o) = IF o = y THEN Num(f, o) + 1 ELSE Num(f, o)
    OBVIOUS
  <1>1. CASE o = y
    <2>1. HoldersIn(g, o) = HoldersIn(f, o) \cup {p} /\ p \notin HoldersIn(f, o)
      BY <1>1, HeapAssumption DEF HoldersIn
    <2>2. Cardinality(HoldersIn(f, o) \cup {p}) = Cardinality(HoldersIn(f, o)) + 1
      BY <2>1, HoldersFinite, FS_AddElement
    <2> QED BY <2>1, <2>2, <1>1 DEF Num
  <1>2. CASE o # y
    <2>1. HoldersIn(g, o) = HoldersIn(f, o)
      BY <1>2, HeapAssumption DEF HoldersIn
    <2> QED BY <2>1, <1>2 DEF Num
  <1> QED BY <1>1, <1>2

\* A place gives its reference up.
LEMMA TakeCount ==
    ASSUME NEW f, NEW g, NEW p \in Place,
           g[p] = NULL, \A x \in Place : x # p => g[x] = f[x]
    PROVE  \A o \in Obj : Num(g, o) = IF o = f[p] THEN Num(f, o) - 1 ELSE Num(f, o)
  <1> SUFFICES ASSUME NEW o \in Obj
               PROVE  Num(g, o) = IF o = f[p] THEN Num(f, o) - 1 ELSE Num(f, o)
    OBVIOUS
  <1>1. CASE o = f[p]
    <2>1. HoldersIn(g, o) = HoldersIn(f, o) \ {p} /\ p \in HoldersIn(f, o)
      BY <1>1, HeapAssumption DEF HoldersIn
    <2> QED BY <2>1, <1>1, HoldersFinite, FS_RemoveElement DEF Num
  <1>2. CASE o # f[p]
    <2>1. HoldersIn(g, o) = HoldersIn(f, o)
      BY <1>2, HeapAssumption DEF HoldersIn
    <2> QED BY <2>1, <1>2 DEF Num
  <1> QED BY <1>1, <1>2

\* A reference, if there is one, moves to an empty place.
LEMMA MoveCount ==
    ASSUME NEW f, NEW g, NEW p \in Place, NEW q \in Place, p # q,
           f[q] = NULL, g[q] = f[p], g[p] = NULL,
           \A x \in Place : x # p /\ x # q => g[x] = f[x]
    PROVE  \A o \in Obj : Num(g, o) = Num(f, o)
  <1> SUFFICES ASSUME NEW o \in Obj PROVE Num(g, o) = Num(f, o)
    OBVIOUS
  <1>1. CASE o = f[p]
    <2>1. /\ HoldersIn(g, o) = (HoldersIn(f, o) \ {p}) \cup {q}
          /\ p \in HoldersIn(f, o) /\ q \notin HoldersIn(f, o)
      BY <1>1, HeapAssumption DEF HoldersIn
    <2>2. /\ IsFiniteSet(HoldersIn(f, o) \ {p})
          /\ Cardinality(HoldersIn(f, o) \ {p}) = Num(f, o) - 1
      BY <2>1, HoldersFinite, FS_RemoveElement DEF Num
    <2>3. Cardinality((HoldersIn(f, o) \ {p}) \cup {q}) = Num(f, o) - 1 + 1
      BY <2>1, <2>2, FS_AddElement
    <2> QED BY <2>1, <2>3, HoldersFinite DEF Num
  <1>2. CASE o # f[p]
    <2>1. HoldersIn(g, o) = HoldersIn(f, o)
      BY <1>2, HeapAssumption DEF HoldersIn
    <2> QED BY <2>1, <1>2 DEF Num
  <1> QED BY <1>1, <1>2

\* The last reference to an object is held by nobody else.
LEMMA LastHolder ==
    ASSUME NEW f, NEW o, NEW p \in Place, f[p] = o, Num(f, o) = 1
    PROVE  \A x \in Place : f[x] = o => x = p
  <1>1. PICK y : HoldersIn(f, o) = {y}
    BY HoldersFinite, FS_Singleton DEF Num
  <1> QED BY <1>1 DEF HoldersIn

-----------------------------------------------------------------------------
(* The inductive invariant *)

CountedOK == \A o \in Obj : ref_count[o] = Num(at, o) + kept[o]

\* What is held is there, and was not released without having been counted.
HeldIsLive ==
    \A p \in Place : at[p] # NULL => heap[at[p]] = "live" /\ kept[at[p]] \in Nat

\* An object that is not there has no references.
UnusedOK == \A o \in Obj : heap[o] # "live" => ref_count[o] = 0

\* An item shows a released reference only while it is being written.
StaleOK ==
    \A p \in Items : stale[p] # NULL =>
        \E t \in Thread : pc[t] = "store" /\ target[t] = p

\* Two goroutines do not build the same object.
BuildsOK ==
    \A t, u \in Thread :
        pc[t] = "build" /\ pc[u] = "build" /\ ptr[t] = ptr[u] => t = u

\* What a goroutine in the middle of an instruction relies on: nobody else
\* writes the object that it reads or writes, and the object stays.
ThreadOK(t) ==
    /\ pc[t] = "report" =>
          ptr[t] \in Obj /\ \E r \in Root(t) : at[r] = ptr[t]
    /\ pc[t] = "get" =>
          /\ ptr[t] \in Obj /\ target[t] \in Items
          /\ at[target[t]] = ptr[t]
          /\ user[target[t][1]] \in {t, "any"}
          /\ target[t][1] = at[ObjVar(t)] \/ target[t][1] = at[Callable(t)]
    /\ pc[t] = "build" =>
          /\ ptr[t] \in Obj /\ heap[ptr[t]] = "live"
          /\ kept[ptr[t]] \in Nat /\ ref_count[ptr[t]] = kept[ptr[t]]
    /\ pc[t] = "set" =>
          /\ ptr[t] \in Obj /\ target[t] \in Items
          /\ at[target[t]] = ptr[t]
          /\ user[target[t][1]] = t
          /\ target[t][1] = at[ObjVar(t)]
    /\ pc[t] = "store" =>
          /\ target[t] \in Items
          /\ at[target[t]] = NULL
          /\ user[target[t][1]] = t
          /\ target[t][1] = at[ObjVar(t)]
    /\ pc[t] \notin {"get", "build", "set", "report"} => ptr[t] = NULL
    /\ pc[t] = "idle" => at[Callable(t)] = NULL /\ at[Arg(t)] = NULL
    /\ pc[t] = "start" => at[Callable(t)] # NULL /\ user[at[Callable(t)]] \in {t, "any"}

IInv ==
    /\ TypeOK
    /\ CountedOK /\ HeldIsLive /\ UnusedOK
    /\ StaleOK /\ BuildsOK
    /\ \A t \in Thread : ThreadOK(t)

-----------------------------------------------------------------------------
(* Steps *)

\* the places that ThreadOK speaks of
Own(t) == Root(t) \cup {ObjVar(t), Callable(t), Arg(t)}

\* a step does not concern u
Apart(u) ==
    /\ pc'[u] = pc[u] /\ ptr'[u] = ptr[u] /\ target'[u] = target[u]
    /\ \A p \in Own(u) : at'[p] = at[p]
    /\ \A p \in Own(u) :
          at[p] \in Obj /\ user[at[p]] \in {u, "any"} =>
             /\ user'[at[p]] = user[at[p]]
             /\ \A q \in Item(at[p]) : at'[q] = at[q]
    /\ pc[u] = "build" => /\ heap'[ptr[u]] = heap[ptr[u]]
                          /\ ref_count'[ptr[u]] = ref_count[ptr[u]]
                          /\ kept'[ptr[u]] = kept[ptr[u]]

\* A step that does not concern a goroutine leaves what it relies on.
LEMMA ApartOK ==
    ASSUME TypeOK, NEW u \in Thread, ThreadOK(u), Apart(u)
    PROVE  ThreadOK(u)'
  <1>1. /\ ObjVar(u) \in Own(u) /\ Callable(u) \in Own(u) /\ Arg(u) \in Own(u)
    BY DEF Own
  <1>2. /\ at[ObjVar(u)] \in Obj \cup {NULL} /\ at[Callable(u)] \in Obj \cup {NULL}
    BY PlaceFacts DEF TypeOK
  <1>3. pc'[u] = "get" => /\ ptr'[u] \in Obj /\ target'[u] \in Items
                          /\ at'[target'[u]] = ptr'[u]
                          /\ user'[target'[u][1]] \in {u, "any"}
                          /\ \/ target'[u][1] = at'[ObjVar(u)]
                             \/ target'[u][1] = at'[Callable(u)]
    BY <1>1, <1>2, PlaceFacts DEF ThreadOK, Apart
  <1>4. pc'[u] = "set" => /\ ptr'[u] \in Obj /\ target'[u] \in Items
                          /\ at'[target'[u]] = ptr'[u]
                          /\ user'[target'[u][1]] = u
                          /\ target'[u][1] = at'[ObjVar(u)]
    BY <1>1, <1>2, PlaceFacts DEF ThreadOK, Apart
  <1>5. pc'[u] = "store" => /\ target'[u] \in Items
                            /\ at'[target'[u]] = NULL
                            /\ user'[target'[u][1]] = u
                            /\ target'[u][1] = at'[ObjVar(u)]
    BY <1>1, <1>2, PlaceFacts DEF ThreadOK, Apart
  <1>6. pc'[u] = "start" => /\ at'[Callable(u)] # NULL
                            /\ user'[at'[Callable(u)]] \in {u, "any"}
    BY <1>1, <1>2 DEF ThreadOK, Apart
  <1>7. pc'[u] = "build" =>
          /\ ptr'[u] \in Obj /\ heap'[ptr'[u]] = "live"
          /\ kept'[ptr'[u]] \in Nat /\ ref_count'[ptr'[u]] = kept'[ptr'[u]]
    BY DEF ThreadOK, Apart
  <1>8. pc'[u] = "idle" => at'[Callable(u)] = NULL /\ at'[Arg(u)] = NULL
    BY <1>1 DEF ThreadOK, Apart
  <1>9. pc'[u] = "report" =>
          ptr'[u] \in Obj /\ \E r \in Root(u) : at'[r] = ptr'[u]
    BY DEF ThreadOK, Apart, Own
  <1> QED BY <1>3, <1>4, <1>5, <1>6, <1>7, <1>8, <1>9 DEF ThreadOK, Apart,
             ObjVar, Callable, Arg, Root

\* Giving up the reference in p frees the object if nobody else has one, and
\* changes nothing for anybody who has.
LEMMA DecrementOK ==
    ASSUME IInv, NEW t \in Thread, NEW p \in Place, at[p] # NULL,
           at' = [at EXCEPT ![p] = NULL], Decrement(t, at[p]), kept' = kept
    PROVE  /\ ref_count' \in [Obj -> Nat \cup {-1}]
           /\ heap' \in [Obj -> {"unused", "live", "freed"}]
           /\ user' \in [Obj -> Thread \cup {"any", "chan"}]
           /\ CountedOK' /\ HeldIsLive' /\ UnusedOK'
           /\ \A o \in Obj : heap'[o] = "live" => heap[o] = "live"
           /\ \A o \in Obj : o # at[p] =>
                 ref_count'[o] = ref_count[o] /\ heap'[o] = heap[o] /\ user'[o] = user[o]
           /\ \A q \in Place : q # p /\ at[q] # NULL =>
                 heap'[at[q]] = "live" /\ user'[at[q]] = user[at[q]]
  <1> DEFINE x == at[p]
  <1>1. x \in Obj /\ heap[x] = "live" /\ kept[x] \in Nat
    BY DEF IInv, TypeOK, HeldIsLive
  <1>2. \A o \in Obj : Num(at', o) = IF o = x THEN Num(at, o) - 1 ELSE Num(at, o)
    <2>1. at'[p] = NULL /\ \A q \in Place : q # p => at'[q] = at[q]
      BY DEF IInv, TypeOK
    <2>2. \A o \in Obj : Num(at', o) = IF o = at[p] THEN Num(at, o) - 1 ELSE Num(at, o)
      <3>1. p \in Place
        OBVIOUS
      <3> QED BY ONLY <2>1, <3>1, TakeCount
    <2> QED BY <2>2
  <1>3. ref_count[x] = Num(at, x) + kept[x] /\ Num(at, x) \in Nat /\ kept[x] \in Nat
    BY <1>1, HoldersFinite DEF IInv, CountedOK, TypeOK
  <1>4. Num(at, x) # 0
    <2>1. p \in HoldersIn(at, x)
      BY DEF HoldersIn
    <2> QED BY <2>1, HoldersFinite, FS_EmptySet DEF Num
  <1>5. ref_count' = [ref_count EXCEPT ![x] = ref_count[x] - 1]
    BY <1>1 DEF Decrement, IInv, TypeOK
  <1>6. ref_count' \in [Obj -> Nat \cup {-1}]
    BY <1>1, <1>3, <1>4, <1>5 DEF IInv, TypeOK
  <1>7. CountedOK'
    <2> SUFFICES ASSUME NEW o \in Obj PROVE ref_count'[o] = Num(at', o) + kept'[o]
      BY DEF CountedOK, Num, HoldersIn
    <2>1. ref_count[o] = Num(at, o) + kept[o] /\ Num(at, o) \in Nat /\ kept[o] \in Int
      BY HoldersFinite DEF IInv, CountedOK, TypeOK
    <2>2. ref_count'[o] = IF o = x THEN ref_count[o] - 1 ELSE ref_count[o]
      BY <1>1, <1>5 DEF IInv, TypeOK
    <2>3. Num(at', o) = IF o = x THEN Num(at, o) - 1 ELSE Num(at, o)
      BY <1>2
    <2>4. kept'[o] = kept[o]
      OBVIOUS
    <2> QED BY ONLY <2>1, <2>2, <2>3, <2>4
  <1>8. CASE ref_count[x] = 1
    <2>1. /\ heap' = [heap EXCEPT ![x] = "freed"]
          /\ user' = [user EXCEPT ![x] = t]
      BY <1>8 DEF Decrement
    <2>2. \A q \in Place : at[q] = x => q = p
      <3>1. Num(at, x) = 1
        BY <1>3, <1>4, <1>8
      <3> QED BY <3>1, LastHolder
    <2>3. HeldIsLive'
      BY <2>1, <2>2 DEF HeldIsLive, IInv, TypeOK
    <2>4. UnusedOK'
      BY <1>1, <1>5, <1>8, <2>1 DEF UnusedOK, IInv, TypeOK
    <2> QED BY <1>1, <1>5, <1>6, <1>7, <1>8, <2>1, <2>2, <2>3, <2>4
            DEF IInv, TypeOK, HeldIsLive
  <1>9. CASE ref_count[x] # 1
    <2>1. heap' = heap /\ user' = user
      BY <1>9 DEF Decrement
    <2>2. HeldIsLive'
      BY <2>1 DEF HeldIsLive, IInv, TypeOK
    <2>3. UnusedOK'
      BY <1>1, <1>5, <2>1 DEF UnusedOK, IInv, TypeOK
    <2>4. ref_count'[x] # 0 /\ ref_count[x] # 0
      BY <1>1, <1>3, <1>4, <1>5, <1>9 DEF IInv, TypeOK
    <2> QED BY <1>1, <1>5, <1>6, <1>7, <2>1, <2>2, <2>3, <2>4
            DEF IInv, TypeOK, HeldIsLive
  <1> QED BY <1>8, <1>9

\* References move, and none is made or given up.
LEMMA MovedOK ==
    ASSUME IInv, ref_count' = ref_count, heap' = heap, kept' = kept,
           \A o \in Obj : Num(at', o) = Num(at, o),
           \A p \in Place : at'[p] # NULL => \E q \in Place : at[q] = at'[p]
    PROVE  /\ CountedOK' /\ HeldIsLive' /\ UnusedOK'
  <1>1. CountedOK'
    <2> SUFFICES ASSUME NEW o \in Obj PROVE ref_count'[o] = Num(at', o) + kept'[o]
      BY DEF CountedOK, Num, HoldersIn
    <2>1. ref_count[o] = Num(at, o) + kept[o]
      BY DEF IInv, CountedOK
    <2> QED BY <2>1
  <1>2. HeldIsLive'
    BY DEF HeldIsLive, IInv
  <1> QED BY <1>1, <1>2 DEF IInv, UnusedOK

\* A live object is referred to once more.
LEMMA RetainOK ==
    ASSUME IInv, NEW x \in Obj, heap[x] = "live", kept[x] \in Nat, Retain(x),
           heap' = heap, kept' = kept,
           \A o \in Obj : Num(at', o) = IF o = x THEN Num(at, o) + 1 ELSE Num(at, o),
           \A p \in Place : at'[p] # NULL =>
              at'[p] = x \/ \E q \in Place : at[q] = at'[p]
    PROVE  /\ ref_count' \in [Obj -> Nat \cup {-1}]
           /\ CountedOK' /\ HeldIsLive' /\ UnusedOK'
           /\ \A o \in Obj : o # x => ref_count'[o] = ref_count[o]
  <1>1. /\ ref_count' \in [Obj -> Nat \cup {-1}]
        /\ \A o \in Obj : ref_count'[o] = IF o = x THEN ref_count[o] + 1 ELSE ref_count[o]
    BY DEF IInv, TypeOK, Retain
  <1>2. CountedOK'
    <2> SUFFICES ASSUME NEW o \in Obj PROVE ref_count'[o] = Num(at', o) + kept'[o]
      BY DEF CountedOK, Num, HoldersIn
    <2>1. ref_count[o] = Num(at, o) + kept[o] /\ Num(at, o) \in Nat /\ kept[o] \in Int
      BY HoldersFinite DEF IInv, CountedOK, TypeOK
    <2>2. Num(at', o) = IF o = x THEN Num(at, o) + 1 ELSE Num(at, o)
      OBVIOUS
    <2>3. kept'[o] = kept[o]
      OBVIOUS
    <2>4. ref_count'[o] = IF o = x THEN ref_count[o] + 1 ELSE ref_count[o]
      BY <1>1
    <2> QED BY ONLY <2>1, <2>2, <2>3, <2>4
  <1>3. HeldIsLive'
    BY DEF HeldIsLive, IInv
  <1>4. UnusedOK'
    BY <1>1 DEF IInv, UnusedOK
  <1> QED BY <1>1, <1>2, <1>3, <1>4

Mine(t) == Root(t) \cup {ObjVar(t), ValVar(t), Callable(t), Arg(t)}

\* A step on the roots and variables of t does not concern others.
LEMMA ApartMine ==
    ASSUME NEW t \in Thread, NEW u \in Thread, u # t, IInv,
           pc'[u] = pc[u], ptr'[u] = ptr[u], target'[u] = target[u],
           \A p \in Place : p \notin Mine(t) => at'[p] = at[p],
           user' = user, heap' = heap,
           pc[u] = "build" => /\ ref_count'[ptr[u]] = ref_count[ptr[u]]
                              /\ kept'[ptr[u]] = kept[ptr[u]]
    PROVE  Apart(u)
  <1>1. \A p \in Own(u) : p \in Place /\ p \notin Mine(t)
    BY PlaceFacts DEF Own, Mine
  <1>2. \A o \in Obj : \A q \in Item(o) : q \in Place /\ q \notin Mine(t)
    BY PlaceFacts DEF Mine
  <1> QED BY <1>1, <1>2 DEF Apart

\* Steps that do not start or end the building or the writing of an object.
LEMMA QuietOK ==
    ASSUME IInv, NEW t \in Thread, \A u \in Thread : u # t => Apart(u),
           stale' = stale, pc[t] \notin {"store", "build"}, pc'[t] # "build"
    PROVE  StaleOK' /\ BuildsOK'
  <1>1. StaleOK'
    BY DEF StaleOK, Apart, IInv
  <1>2. BuildsOK'
    BY DEF BuildsOK, Apart, IInv
  <1> QED BY <1>1, <1>2

\* The parts of the invariant after a step of t.
LEMMA Assemble ==
    ASSUME IInv, NEW t \in Thread, \A u \in Thread : u # t => Apart(u),
           TypeOK', CountedOK', HeldIsLive', UnusedOK',
           StaleOK', BuildsOK', ThreadOK(t)'
    PROVE  IInv'
  <1>1. \A u \in Thread : ThreadOK(u)'
    <2> SUFFICES ASSUME NEW u \in Thread PROVE ThreadOK(u)'
      OBVIOUS
    <2>1. CASE u = t
      BY <2>1
    <2>2. CASE u # t
      BY <2>2, ApartOK DEF IInv
    <2> QED BY <2>1, <2>2
  <1> QED BY <1>1 DEF IInv

\* Between instructions the variables of the last one are empty.
LEMMA ReadyFacts ==
    ASSUME NEW t \in Thread, Ready(t)
    PROVE  pc[t] = "next" /\ at[ObjVar(t)] = NULL /\ at[ValVar(t)] = NULL
  BY DEF Ready, Dropped, Hand

\* What a goroutine may open shows what it owns.
LEMMA SeenFacts ==
    ASSUME IInv, NEW t \in Thread, pc[t] # "store",
           NEW p \in Items, user[p[1]] \in {t, "any"}
    PROVE  Seen(p) = at[p]
  <1>1. stale[p] = NULL
    <2> SUFFICES ASSUME stale[p] # NULL PROVE FALSE
      OBVIOUS
    <2>1. PICK u \in Thread : pc[u] = "store" /\ target[u] = p
      BY DEF IInv, StaleOK
    <2>2. user[p[1]] = u
      BY <2>1 DEF IInv, ThreadOK
    <2> QED BY <2>1, <2>2, DisjointNames
  <1> QED BY <1>1 DEF Seen

\* What somebody refers to is live, counted, and not being built.
LEMMA HeldFacts ==
    ASSUME IInv, NEW p \in Place, at[p] # NULL
    PROVE  /\ at[p] \in Obj /\ heap[at[p]] = "live"
           /\ kept[at[p]] \in Nat /\ ref_count[at[p]] > kept[at[p]]
           /\ \A u \in Thread : pc[u] = "build" => ptr[u] # at[p]
  <1>1. at[p] \in Obj /\ heap[at[p]] = "live" /\ kept[at[p]] \in Nat
    BY DEF IInv, TypeOK, HeldIsLive
  <1>2. Num(at, at[p]) # 0
    <2>1. p \in HoldersIn(at, at[p])
      BY DEF HoldersIn
    <2> QED BY <2>1, HoldersFinite, FS_EmptySet DEF Num
  <1>3. ref_count[at[p]] > kept[at[p]]
    <2>1. /\ ref_count[at[p]] = Num(at, at[p]) + kept[at[p]]
          /\ Num(at, at[p]) \in Nat /\ kept[at[p]] \in Nat
      BY <1>1, HoldersFinite DEF IInv, TypeOK, CountedOK
    <2> QED BY ONLY <1>2, <2>1
  <1> QED BY <1>1, <1>3 DEF IInv, ThreadOK

-----------------------------------------------------------------------------
(* Each instruction preserves the invariant *)

LEMMA LoadStep == ASSUME IInv, NEW t \in Thread, Load(t) PROVE IInv'
  <1>1. PICK r \in Root(t), q \in Root(t) :
          /\ at[r] # NULL /\ at[q] = NULL
          /\ at' = [at EXCEPT ![q] = at[r]]
          /\ Retain(at[r])
    BY DEF Load
  <1>2. UNCHANGED <<stale, heap, user, kept, pc, ptr, target>> /\ pc[t] = "next"
    BY DEF Load, Ready
  <1>3. r \in Place /\ q \in Place /\ q \in Mine(t) /\ q \notin Items
    BY PlaceFacts DEF Mine
  <1> DEFINE x == at[r]
  <1>4. x \in Obj /\ heap[x] = "live" /\ kept[x] \in Nat /\ \A u \in Thread : pc[u] = "build" => ptr[u] # x
    BY <1>1, <1>3, HeldFacts
  <1>5. at' \in [Place -> Refs] /\ at'[q] = x /\ \A p \in Place : p # q => at'[p] = at[p]
    BY <1>1, <1>3 DEF IInv, TypeOK, Refs
  <1>5a. at[q] = NULL
    BY <1>1
  <1>6. \A o \in Obj : Num(at', o) = IF o = x THEN Num(at, o) + 1 ELSE Num(at, o)
    <2> HIDE DEF x
    <2> QED BY ONLY <1>3, <1>4, <1>5, <1>5a, AddCount
  <1>7. /\ ref_count' \in [Obj -> Nat \cup {-1}]
        /\ CountedOK' /\ HeldIsLive' /\ UnusedOK'
        /\ \A o \in Obj : o # x => ref_count'[o] = ref_count[o]
    BY <1>1, <1>2, <1>3, <1>4, <1>5, <1>6, RetainOK
  <1>8. ASSUME NEW u \in Thread, u # t PROVE Apart(u)
    BY <1>2, <1>3, <1>4, <1>5, <1>7, <1>8, ApartMine DEF IInv, ThreadOK
  <1>9. StaleOK' /\ BuildsOK'
    BY <1>2, <1>7, <1>8, QuietOK
  <1>10. ThreadOK(t)'
    BY <1>2 DEF IInv, ThreadOK
  <1>11. TypeOK'
    BY <1>2, <1>5, <1>7 DEF IInv, TypeOK, Refs
  <1> QED BY <1>7, <1>8, <1>9, <1>10, <1>11, Assemble

LEMMA DropStep == ASSUME IInv, NEW t \in Thread, Drop(t) PROVE IInv'
  <1>1. PICK r \in Root(t) :
          at[r] # NULL /\ at' = [at EXCEPT ![ObjVar(t)] = at[r], ![r] = NULL]
    BY DEF Drop
  <1>2. /\ UNCHANGED <<stale, ref_count, heap, user, kept, pc, ptr, target>>
        /\ pc[t] = "next" /\ at[ObjVar(t)] = NULL
    BY ReadyFacts DEF Drop
  <1>3. /\ r \in Place /\ ObjVar(t) \in Place /\ r # ObjVar(t)
        /\ r \in Mine(t) /\ ObjVar(t) \in Mine(t)
    BY PlaceFacts DEF Mine
  <1>4. /\ at' \in [Place -> Refs]
        /\ at'[ObjVar(t)] = at[r] /\ at'[r] = NULL
        /\ \A p \in Place : p # r /\ p # ObjVar(t) => at'[p] = at[p]
    BY <1>1, <1>3 DEF IInv, TypeOK, Refs
  <1>5. \A o \in Obj : Num(at', o) = Num(at, o)
    BY ONLY <1>2, <1>3, <1>4, MoveCount
  <1>6. /\ CountedOK' /\ HeldIsLive' /\ UnusedOK'
    BY <1>2, <1>3, <1>4, <1>5, MovedOK
  <1>7. ASSUME NEW u \in Thread, u # t PROVE Apart(u)
    BY <1>2, <1>3, <1>4, <1>7, ApartMine
  <1>8. StaleOK' /\ BuildsOK'
    BY <1>2, <1>6, <1>7, QuietOK
  <1>9. ThreadOK(t)'
    BY <1>2 DEF IInv, ThreadOK
  <1>10. TypeOK'
    BY <1>2, <1>4 DEF IInv, TypeOK, Refs
  <1> QED BY <1>6, <1>7, <1>8, <1>9, <1>10, Assemble

LEMMA KeepStep == ASSUME IInv, NEW t \in Thread, Keep(t) PROVE IInv'
  <1>1. PICK r \in Root(t) :
          at[r] # NULL /\ kept' = [kept EXCEPT ![at[r]] = @ + 1] /\ Retain(at[r])
    BY DEF Keep
  <1>2. UNCHANGED <<at, stale, heap, user, pc, ptr, target>> /\ pc[t] = "next"
    BY DEF Keep, Ready
  <1> DEFINE x == at[r]
  <1>3. x \in Obj /\ heap[x] = "live" /\ kept[x] \in Nat /\ \A u \in Thread : pc[u] = "build" => ptr[u] # x
    BY <1>1, PlaceFacts, HeldFacts
  <1>4. /\ ref_count' \in [Obj -> Nat \cup {-1}] /\ kept' \in [Obj -> Nat \cup {-1}]
        /\ \A o \in Obj : /\ ref_count'[o] = IF o = x THEN ref_count[o] + 1 ELSE ref_count[o]
                          /\ kept'[o] = IF o = x THEN kept[o] + 1 ELSE kept[o]
                          /\ ref_count[o] \in Int
    BY <1>1, <1>3 DEF IInv, TypeOK, Retain
  <1>5. CountedOK'
    <2> SUFFICES ASSUME NEW o \in Obj PROVE ref_count'[o] = Num(at', o) + kept'[o]
      BY DEF CountedOK, Num, HoldersIn
    <2>1. /\ ref_count[o] = Num(at, o) + kept[o] /\ Num(at, o) \in Nat /\ kept[o] \in Int
          /\ at' = at
      BY <1>2, HoldersFinite DEF IInv, CountedOK, TypeOK
    <2>2. /\ ref_count'[o] = IF o = x THEN ref_count[o] + 1 ELSE ref_count[o]
          /\ kept'[o] = IF o = x THEN kept[o] + 1 ELSE kept[o]
      BY <1>4
    <2> QED BY ONLY <2>1, <2>2
  <1>6. HeldIsLive' /\ UnusedOK'
    <2>1. \A p \in Place : at[p] \in Refs
      BY DEF IInv, TypeOK, Refs
    <2>2. ASSUME NEW p \in Place, at[p] # NULL
          PROVE  heap[at[p]] = "live" /\ kept'[at[p]] \in Nat
      <3>1. at[p] \in Obj /\ heap[at[p]] = "live" /\ kept[at[p]] \in Nat
        BY <2>1, <2>2 DEF IInv, HeldIsLive, Refs
      <3> QED BY <1>3, <1>4, <3>1
    <2>3. HeldIsLive'
      BY <1>2, <2>2 DEF HeldIsLive
    <2>4. ASSUME NEW o \in Obj, heap[o] # "live" PROVE ref_count'[o] = 0
      <3>1. ref_count[o] = 0 /\ o # x
        BY <1>3, <2>4 DEF IInv, UnusedOK
      <3> QED BY <1>4, <3>1
    <2>5. UnusedOK'
      BY <1>2, <2>4 DEF UnusedOK
    <2> QED BY <2>3, <2>5
  <1>7. ASSUME NEW u \in Thread, u # t PROVE Apart(u)
    BY <1>2, <1>3, <1>4, <1>7, ApartMine DEF IInv, ThreadOK
  <1>9. StaleOK' /\ BuildsOK'
    BY <1>2, <1>7, QuietOK
  <1>10. ThreadOK(t)'
    BY <1>2 DEF IInv, ThreadOK
  <1>11. TypeOK'
    BY <1>2, <1>4 DEF IInv, TypeOK
  <1> QED BY <1>5, <1>6, <1>7, <1>9, <1>10, <1>11, Assemble

LEMMA PushStep == ASSUME IInv, NEW t \in Thread, Push(t) PROVE IInv'
  <1>1. PICK q \in Root(t) : at[q] = NULL /\ at' = [at EXCEPT ![q] = ptr[t]]
    BY DEF Push
  <1>2. /\ UNCHANGED <<stale, heap, user, kept>>
        /\ pc[t] \in {"get", "build"} /\ Retain(ptr[t])
        /\ pc' = [pc EXCEPT ![t] = "next"]
        /\ ptr' = [ptr EXCEPT ![t] = NULL]
        /\ target' = [target EXCEPT ![t] = NULL]
    BY DEF Push
  <1>3. q \in Place /\ q \in Mine(t)
    BY PlaceFacts DEF Mine
  <1> DEFINE x == ptr[t]
  <1>4. /\ x \in Obj /\ heap[x] = "live" /\ kept[x] \in Nat
        /\ \A u \in Thread : u # t /\ pc[u] = "build" => ptr[u] # x
    <2>1. CASE pc[t] = "get"
      <3>1. x \in Obj /\ target[t] \in Place /\ at[target[t]] = x
        BY <2>1, PlaceFacts DEF IInv, ThreadOK
      <3> QED BY <3>1, HeldFacts, HeapAssumption
    <2>2. CASE pc[t] = "build"
      BY <2>2 DEF IInv, ThreadOK, BuildsOK
    <2> QED BY <1>2, <2>1, <2>2
  <1>5. at' \in [Place -> Refs] /\ at'[q] = x /\ \A p \in Place : p # q => at'[p] = at[p]
    BY <1>1, <1>3, <1>4 DEF IInv, TypeOK, Refs
  <1>5a. at[q] = NULL
    BY <1>1
  <1>6. \A o \in Obj : Num(at', o) = IF o = x THEN Num(at, o) + 1 ELSE Num(at, o)
    <2> HIDE DEF x
    <2> QED BY ONLY <1>3, <1>4, <1>5, <1>5a, AddCount
  <1>7. /\ ref_count' \in [Obj -> Nat \cup {-1}]
        /\ CountedOK' /\ HeldIsLive' /\ UnusedOK'
        /\ \A o \in Obj : o # x => ref_count'[o] = ref_count[o]
    BY <1>2, <1>3, <1>4, <1>5, <1>6, RetainOK
  <1>8. /\ \A u \in Thread : u # t => pc'[u] = pc[u] /\ ptr'[u] = ptr[u]
                                      /\ target'[u] = target[u]
        /\ pc'[t] = "next" /\ ptr'[t] = NULL
    BY <1>2 DEF IInv, TypeOK
  <1>9. ASSUME NEW u \in Thread, u # t PROVE Apart(u)
    BY <1>2, <1>3, <1>4, <1>5, <1>7, <1>8, <1>9, ApartMine DEF IInv, ThreadOK
  <1>10. StaleOK' /\ BuildsOK'
    BY <1>2, <1>8 DEF IInv, StaleOK, BuildsOK
  <1>12. ThreadOK(t)'
    BY <1>8 DEF ThreadOK
  <1>13. TypeOK'
    BY <1>2, <1>5, <1>7 DEF IInv, TypeOK, Refs, Steps
  <1> QED BY <1>7, <1>9, <1>10, <1>12, <1>13, Assemble

LEMMA NewStep == ASSUME IInv, NEW t \in Thread, New(t) PROVE IInv'
  <1>1. PICK o \in Obj, w \in {t, "any", "chan"}, k \in 0..1 :
          /\ heap[o] = "unused"
          /\ heap' = [heap EXCEPT ![o] = "live"]
          /\ user' = [user EXCEPT ![o] = w]
          /\ ref_count' = [ref_count EXCEPT ![o] = k]
          /\ kept' = [kept EXCEPT ![o] = k]
          /\ ptr' = [ptr EXCEPT ![t] = o]
    BY DEF New
  <1>2. /\ UNCHANGED <<at, stale, target>>
        /\ pc[t] = "next" /\ pc' = [pc EXCEPT ![t] = "build"]
    BY DEF New, Ready
  <1>3. \A u \in Thread : pc[u] = "build" => ptr[u] # o
    BY <1>1 DEF IInv, ThreadOK
  <1>4. /\ pc'[t] = "build" /\ ptr'[t] = o
        /\ \A u \in Thread : u # t => pc'[u] = pc[u] /\ ptr'[u] = ptr[u]
                                      /\ target'[u] = target[u]
        /\ \A y \in Obj : y # o => /\ heap'[y] = heap[y] /\ user'[y] = user[y]
                                   /\ ref_count'[y] = ref_count[y] /\ kept'[y] = kept[y]
        /\ heap'[o] = "live" /\ ref_count'[o] = k /\ kept'[o] = k
    BY <1>1, <1>2 DEF IInv, TypeOK
  <1>5. \A p \in Place : at[p] # NULL => at[p] \in Obj /\ at[p] # o
    BY <1>1, HeldFacts
  <1>6. CountedOK' /\ HeldIsLive' /\ UnusedOK'
    <2>1. CountedOK'
      <3> SUFFICES ASSUME NEW y \in Obj PROVE ref_count'[y] = Num(at', y) + kept'[y]
        BY DEF CountedOK, Num, HoldersIn
      <3>1. at' = at
        BY <1>2
      <3>2. CASE y = o
        <4>1. HoldersIn(at, o) = {}
          BY <1>5, HeapAssumption DEF HoldersIn
        <4>2. Num(at, o) = 0
          BY <4>1, FS_EmptySet DEF Num
        <4> QED BY <1>4, <3>1, <3>2, <4>2
      <3>3. CASE y # o
        BY <1>4, <3>1, <3>3 DEF IInv, CountedOK
      <3> QED BY <3>2, <3>3
    <2>2. HeldIsLive'
      BY <1>2, <1>4, <1>5 DEF IInv, HeldIsLive
    <2>3. UnusedOK'
      BY <1>4 DEF IInv, UnusedOK
    <2> QED BY <2>1, <2>2, <2>3
  <1>7. ASSUME NEW u \in Thread, u # t PROVE Apart(u)
    <2>1. \A p \in Own(u) : p \in Place
      BY PlaceFacts DEF Own
    <2>2. pc[u] = "build" => ptr[u] \in Obj
      BY DEF IInv, ThreadOK
    <2> QED BY <1>2, <1>3, <1>4, <1>5, <1>7, <2>1, <2>2, HeapAssumption DEF Apart
  <1>8. StaleOK' /\ BuildsOK'
    BY <1>2, <1>3, <1>4 DEF IInv, StaleOK, BuildsOK
  <1>10. ThreadOK(t)'
    BY <1>1, <1>2, <1>3, <1>4 DEF IInv, ThreadOK
  <1>11. TypeOK'
    BY <1>1, <1>2 DEF IInv, TypeOK, Steps
  <1> QED BY <1>6, <1>7, <1>8, <1>10, <1>11, Assemble

\* A string that is released without having been counted is not freed, and
\* nobody else knows of it.
LEMMA LoseStep == ASSUME IInv, NEW t \in Thread, Lose(t) PROVE IInv'
  <1> DEFINE x == ptr[t]
  <1>1. /\ UNCHANGED <<at, stale, target>>
        /\ pc[t] = "build" /\ pc' = [pc EXCEPT ![t] = "next"]
        /\ ptr' = [ptr EXCEPT ![t] = NULL]
    BY DEF Lose
  <1>2. x \in Obj /\ heap[x] = "live" /\ kept[x] \in Nat /\ ref_count[x] = kept[x]
    BY <1>1 DEF IInv, ThreadOK
  <1>3. \A p \in Place : at[p] # x
    BY <1>1, <1>2, HeldFacts, HeapAssumption
  <1>4. \A u \in Thread : u # t /\ pc[u] = "build" => ptr[u] # x
    BY <1>1 DEF IInv, BuildsOK
  <1>5. /\ heap' = heap /\ user' = user
        /\ \A o \in Obj : o # x => ref_count'[o] = ref_count[o] /\ kept'[o] = kept[o]
        /\ \/ ref_count'[x] = ref_count[x] /\ kept'[x] = kept[x]
           \/ ref_count'[x] = -1 /\ kept'[x] = -1
        /\ ref_count' \in [Obj -> Nat \cup {-1}] /\ kept' \in [Obj -> Nat \cup {-1}]
    <2>1. CASE UNCHANGED <<ref_count, heap, user, kept>>
      BY <2>1 DEF IInv, TypeOK
    <2>2. CASE /\ ref_count[x] = 0
               /\ Decrement(t, x)
               /\ kept' = [kept EXCEPT ![x] = @ - 1]
      <3>1. ref_count[x] = 0 /\ kept[x] = 0
        BY <1>2, <2>2
      <3>2. /\ ref_count \in [Obj -> Nat \cup {-1}]
            /\ kept \in [Obj -> Nat \cup {-1}]
        BY DEF IInv, TypeOK
      <3>3. /\ ref_count' = [ref_count EXCEPT ![x] = @ - 1]
            /\ heap' = heap /\ user' = user
        BY <2>2, <3>1 DEF Decrement
      <3>4. /\ ref_count' = [ref_count EXCEPT ![x] = -1]
            /\ kept' = [kept EXCEPT ![x] = -1]
        BY <1>2, <2>2, <3>1, <3>3
      <3> QED BY <1>2, <3>2, <3>3, <3>4
    <2> QED BY <2>1, <2>2 DEF Lose
  <1>6. /\ \A u \in Thread : u # t => pc'[u] = pc[u] /\ ptr'[u] = ptr[u]
                                      /\ target'[u] = target[u]
        /\ pc'[t] = "next" /\ ptr'[t] = NULL
    BY <1>1 DEF IInv, TypeOK
  <1>7. CountedOK' /\ HeldIsLive' /\ UnusedOK'
    <2>1. CountedOK'
      <3> SUFFICES ASSUME NEW o \in Obj PROVE ref_count'[o] = Num(at', o) + kept'[o]
        BY DEF CountedOK, Num, HoldersIn
      <3>1. at' = at /\ ref_count[o] = Num(at, o) + kept[o] /\ Num(at, o) \in Nat
        BY <1>1, HoldersFinite DEF IInv, CountedOK
      <3>2. CASE o = x
        <4>1. HoldersIn(at, o) = {}
          BY <1>3, <3>2 DEF HoldersIn
        <4>2. Num(at, o) = 0
          BY <4>1, FS_EmptySet DEF Num
        <4> QED BY <1>2, <1>5, <3>1, <3>2, <4>2
      <3>3. CASE o # x
        BY <1>5, <3>1, <3>3
      <3> QED BY <3>2, <3>3
    <2>2. HeldIsLive'
      BY <1>1, <1>3, <1>5 DEF IInv, TypeOK, HeldIsLive
    <2>3. UnusedOK'
      BY <1>2, <1>5 DEF IInv, UnusedOK
    <2> QED BY <2>1, <2>2, <2>3
  <1>8. ASSUME NEW u \in Thread, u # t PROVE Apart(u)
    BY <1>1, <1>4, <1>5, <1>6, <1>8, ApartMine DEF IInv, ThreadOK
  <1>9. StaleOK' /\ BuildsOK'
    BY <1>1, <1>6 DEF IInv, StaleOK, BuildsOK
  <1>10. ThreadOK(t)'
    BY <1>6 DEF ThreadOK
  <1>11. TypeOK'
    BY <1>1, <1>5 DEF IInv, TypeOK, Steps
  <1> QED BY <1>7, <1>8, <1>9, <1>10, <1>11, Assemble

LEMMA FillStep == ASSUME IInv, NEW t \in Thread, Fill(t) PROVE IInv'
  <1>1. PICK r \in Root(t), p \in Item(ptr[t]) :
          /\ at[r] # NULL /\ at[p] = NULL
          /\ at' = [at EXCEPT ![p] = at[r], ![r] = NULL]
    BY DEF Fill
  <1>2. /\ UNCHANGED <<stale, ref_count, heap, user, kept, pc, ptr, target>>
        /\ pc[t] = "build" /\ ptr[t] \in Obj
    BY DEF Fill, IInv, ThreadOK
  <1>3. /\ r \in Place /\ p \in Place /\ r # p /\ r \in Mine(t)
        /\ p \in Items /\ p[1] = ptr[t]
    BY <1>2, PlaceFacts DEF Mine
  <1>4. /\ at' \in [Place -> Refs]
        /\ at'[p] = at[r] /\ at'[r] = NULL
        /\ \A x \in Place : x # r /\ x # p => at'[x] = at[x]
    BY <1>1, <1>3 DEF IInv, TypeOK, Refs
  <1>5. \A o \in Obj : Num(at', o) = Num(at, o)
    <2>1. at[p] = NULL
      BY <1>1
    <2> QED BY ONLY <1>3, <1>4, <2>1, MoveCount
  <1>6. /\ CountedOK' /\ HeldIsLive' /\ UnusedOK'
    BY <1>2, <1>3, <1>4, <1>5, MovedOK
  <1>7. ASSUME NEW u \in Thread, u # t PROVE Apart(u)
    <2>1. \A x \in Own(u) : x \in Place /\ x # r /\ x # p
      BY <1>3, <1>7, PlaceFacts DEF Own, Mine
    <2>2. \A x \in Own(u) : at[x] \in Obj =>
            at[x] # ptr[t] /\ \A y \in Item(at[x]) : y \in Place /\ y # r /\ y # p
      <3> SUFFICES ASSUME NEW x \in Own(u), at[x] \in Obj
                   PROVE  /\ at[x] # ptr[t]
                          /\ \A y \in Item(at[x]) : y \in Place /\ y # r /\ y # p
        OBVIOUS
      <3>1. at[x] # ptr[t]
        BY <1>2, <2>1, HeldFacts, HeapAssumption
      <3> QED BY <1>3, <3>1, PlaceFacts
    <2> QED BY <1>2, <1>4, <2>1, <2>2 DEF Apart
  <1>8. StaleOK' /\ BuildsOK'
    BY <1>2 DEF IInv, StaleOK, BuildsOK
  <1>9. ThreadOK(t)'
    BY <1>2 DEF IInv, ThreadOK
  <1>10. TypeOK'
    BY <1>2, <1>4 DEF IInv, TypeOK, Refs
  <1> QED BY <1>6, <1>7, <1>8, <1>9, <1>10, Assemble

\* An operand moves into the variable of an instruction that opens it.
LEMMA TakeOperand ==
    ASSUME IInv, NEW t \in Thread, NEW r \in Root(t), Ready(t), at[r] # NULL,
           at' = [at EXCEPT ![ObjVar(t)] = at[r], ![r] = NULL],
           UNCHANGED <<stale, ref_count, heap, user, kept>>,
           \A u \in Thread : u # t => pc'[u] = pc[u] /\ ptr'[u] = ptr[u]
                                      /\ target'[u] = target[u],
           pc'[t] # "build"
    PROVE  /\ at' \in [Place -> Refs] /\ at'[ObjVar(t)] = at[r]
           /\ \A p \in Items : at'[p] = at[p]
           /\ \A p \in Root(t) : p # r => at'[p] = at[p]
           /\ CountedOK' /\ HeldIsLive' /\ UnusedOK'
           /\ \A u \in Thread : u # t => Apart(u)
           /\ StaleOK' /\ BuildsOK'
  <1>2. pc[t] = "next" /\ at[ObjVar(t)] = NULL
    BY ReadyFacts
  <1>3. /\ r \in Place /\ ObjVar(t) \in Place /\ r # ObjVar(t)
        /\ r \in Mine(t) /\ ObjVar(t) \in Mine(t)
        /\ r \notin Items /\ ObjVar(t) \notin Items
    BY PlaceFacts DEF Mine
  <1>4. /\ at' \in [Place -> Refs]
        /\ at'[ObjVar(t)] = at[r] /\ at'[r] = NULL
        /\ \A p \in Place : p # r /\ p # ObjVar(t) => at'[p] = at[p]
    BY <1>3 DEF IInv, TypeOK, Refs
  <1>5. \A o \in Obj : Num(at', o) = Num(at, o)
    BY ONLY <1>2, <1>3, <1>4, MoveCount
  <1>6. /\ CountedOK' /\ HeldIsLive' /\ UnusedOK'
    BY <1>3, <1>4, <1>5, MovedOK
  <1>7. ASSUME NEW u \in Thread, u # t PROVE Apart(u)
    BY <1>3, <1>4, <1>7, ApartMine
  <1>8. StaleOK' /\ BuildsOK'
    BY <1>2, <1>6, <1>7, QuietOK
  <1>9. /\ \A p \in Items : at'[p] = at[p]
        /\ \A p \in Root(t) : p # r => at'[p] = at[p]
    BY <1>3, <1>4, PlaceFacts
  <1> QED BY <1>4, <1>6, <1>7, <1>8, <1>9

LEMMA GetStep ==
    ASSUME IInv, Features = {}, NEW t \in Thread, Get(t) PROVE IInv'
  <1>1. PICK r \in Root(t) :
          /\ at[r] # NULL /\ MayRead(t, at[r])
          /\ \E p \in Item(at[r]) :
               /\ Seen(p) # NULL
               /\ ptr' = [ptr EXCEPT ![t] = Seen(p)]
               /\ target' = [target EXCEPT ![t] = p]
          /\ at' = [at EXCEPT ![ObjVar(t)] = at[r], ![r] = NULL]
    BY DEF Get
  <1>2. PICK p \in Item(at[r]) :
          /\ Seen(p) # NULL
          /\ ptr' = [ptr EXCEPT ![t] = Seen(p)]
          /\ target' = [target EXCEPT ![t] = p]
    BY <1>1
  <1>3. /\ Ready(t) /\ UNCHANGED <<stale, ref_count, heap, user, kept>>
        /\ pc[t] = "next" /\ pc' = [pc EXCEPT ![t] = "get"]
    BY DEF Get, Ready
  <1>4. at[r] \in Obj /\ p \in Items /\ p \in Place /\ p[1] = at[r]
    BY <1>1, PlaceFacts, HeldFacts
  <1>5. user[p[1]] \in {t, "any"} /\ Seen(p) = at[p] /\ at[p] \in Obj
    <2>1. user[p[1]] \in {t, "any"}
      BY <1>1, <1>4 DEF MayRead
    <2>2. Seen(p) = at[p]
      BY <1>3, <1>4, <2>1, SeenFacts
    <2> QED BY <1>2, <1>4, <2>1, <2>2 DEF IInv, TypeOK
  <1>6. /\ \A u \in Thread : u # t => pc'[u] = pc[u] /\ ptr'[u] = ptr[u]
                                      /\ target'[u] = target[u]
        /\ pc'[t] = "get" /\ ptr'[t] = at[p] /\ target'[t] = p
    BY <1>2, <1>3, <1>5 DEF IInv, TypeOK
  <1>7. /\ at' \in [Place -> Refs] /\ at'[ObjVar(t)] = at[r]
        /\ \A x \in Items : at'[x] = at[x]
        /\ CountedOK' /\ HeldIsLive' /\ UnusedOK'
        /\ \A u \in Thread : u # t => Apart(u)
        /\ StaleOK' /\ BuildsOK'
    BY <1>1, <1>3, <1>6, TakeOperand
  <1>8. ThreadOK(t)'
    BY <1>3, <1>4, <1>5, <1>6, <1>7 DEF ThreadOK, ObjVar
  <1>9. TypeOK'
    BY <1>2, <1>3, <1>4, <1>5, <1>7 DEF IInv, TypeOK, Refs, Steps
  <1> QED BY <1>7, <1>8, <1>9, Assemble

LEMMA DeleteStep ==
    ASSUME IInv, Features = {}, NEW t \in Thread, Delete(t) PROVE IInv'
  <1>1. PICK r \in Root(t) :
          /\ at[r] # NULL /\ MayWrite(t, at[r])
          /\ \E p \in Item(at[r]) :
               /\ Seen(p) # NULL
               /\ ptr' = [ptr EXCEPT ![t] = Seen(p)]
               /\ target' = [target EXCEPT ![t] = p]
          /\ at' = [at EXCEPT ![ObjVar(t)] = at[r], ![r] = NULL]
    BY DEF Delete
  <1>2. PICK p \in Item(at[r]) :
          /\ Seen(p) # NULL
          /\ ptr' = [ptr EXCEPT ![t] = Seen(p)]
          /\ target' = [target EXCEPT ![t] = p]
    BY <1>1
  <1>3. /\ Ready(t) /\ UNCHANGED <<stale, ref_count, heap, user, kept>>
        /\ pc[t] = "next" /\ pc' = [pc EXCEPT ![t] = "set"]
    BY DEF Delete, Ready
  <1>4. at[r] \in Obj /\ p \in Items /\ p \in Place /\ p[1] = at[r]
    BY <1>1, PlaceFacts, HeldFacts
  <1>5. user[p[1]] = t /\ Seen(p) = at[p] /\ at[p] \in Obj
    <2>1. user[p[1]] = t
      BY <1>1, <1>4 DEF MayWrite
    <2>2. Seen(p) = at[p]
      BY <1>3, <1>4, <2>1, SeenFacts
    <2> QED BY <1>2, <1>4, <2>1, <2>2 DEF IInv, TypeOK
  <1>6. /\ \A u \in Thread : u # t => pc'[u] = pc[u] /\ ptr'[u] = ptr[u]
                                      /\ target'[u] = target[u]
        /\ pc'[t] = "set" /\ ptr'[t] = at[p] /\ target'[t] = p
    BY <1>2, <1>3, <1>5 DEF IInv, TypeOK
  <1>7. /\ at' \in [Place -> Refs] /\ at'[ObjVar(t)] = at[r]
        /\ \A x \in Items : at'[x] = at[x]
        /\ CountedOK' /\ HeldIsLive' /\ UnusedOK'
        /\ \A u \in Thread : u # t => Apart(u)
        /\ StaleOK' /\ BuildsOK'
    BY <1>1, <1>3, <1>6, TakeOperand
  <1>8. ThreadOK(t)'
    BY <1>3, <1>4, <1>5, <1>6, <1>7 DEF ThreadOK, ObjVar
  <1>9. TypeOK'
    BY <1>2, <1>3, <1>4, <1>5, <1>7 DEF IInv, TypeOK, Refs, Steps
  <1> QED BY <1>7, <1>8, <1>9, Assemble

LEMMA IndexErrorStep ==
    ASSUME IInv, Features = {}, NEW t \in Thread, IndexError(t) PROVE IInv'
  <1>1. PICK r \in Root(t) :
          /\ at[r] # NULL
          /\ \E s \in Root(t) \ {r} : at[s] = at[r]
          /\ ptr' = [ptr EXCEPT ![t] = at[r]]
          /\ at' = [at EXCEPT ![ObjVar(t)] = at[r], ![r] = NULL]
    BY DEF IndexError
  <1>2. /\ Ready(t) /\ UNCHANGED <<stale, ref_count, heap, user, kept, target>>
        /\ pc[t] = "next" /\ pc' = [pc EXCEPT ![t] = "report"]
    BY DEF IndexError, Ready
  <1>3. at[r] \in Obj
    BY <1>1, PlaceFacts, HeldFacts
  <1>4. /\ \A u \in Thread : u # t => pc'[u] = pc[u] /\ ptr'[u] = ptr[u]
                                      /\ target'[u] = target[u]
        /\ pc'[t] = "report" /\ ptr'[t] = at[r]
    BY <1>1, <1>2 DEF IInv, TypeOK
  <1>5. /\ at' \in [Place -> Refs]
        /\ \A p \in Root(t) : p # r => at'[p] = at[p]
        /\ CountedOK' /\ HeldIsLive' /\ UnusedOK'
        /\ \A u \in Thread : u # t => Apart(u)
        /\ StaleOK' /\ BuildsOK'
    BY <1>1, <1>2, <1>4, TakeOperand
  <1>6. ThreadOK(t)'
    <2>1. \E s \in Root(t) : at'[s] = at[r]
      BY <1>1, <1>5
    <2> QED BY <1>3, <1>4, <2>1 DEF ThreadOK, Root
  <1>7. TypeOK'
    BY <1>1, <1>2, <1>3, <1>5 DEF IInv, TypeOK, Refs, Steps
  <1> QED BY <1>5, <1>6, <1>7, Assemble

LEMMA ReportStep == ASSUME IInv, NEW t \in Thread, Report(t) PROVE IInv'
  <1>1. /\ UNCHANGED <<at, stale, ref_count, heap, user, kept, target>>
        /\ pc[t] = "report" /\ pc' = [pc EXCEPT ![t] = "next"]
        /\ ptr' = [ptr EXCEPT ![t] = NULL]
    BY DEF Report
  <1>2. /\ \A u \in Thread : u # t => pc'[u] = pc[u] /\ ptr'[u] = ptr[u]
        /\ pc'[t] = "next" /\ ptr'[t] = NULL
    BY <1>1 DEF IInv, TypeOK
  <1>3. ASSUME NEW u \in Thread, u # t PROVE Apart(u)
    BY <1>1, <1>2, <1>3 DEF Apart
  <1>4. CountedOK' /\ HeldIsLive' /\ UnusedOK'
    BY <1>1 DEF IInv, CountedOK, Num, HoldersIn, HeldIsLive, UnusedOK
  <1>5. StaleOK' /\ BuildsOK'
    BY <1>1, <1>2, <1>3, QuietOK
  <1>6. ThreadOK(t)'
    BY <1>2 DEF ThreadOK
  <1>7. TypeOK'
    BY <1>1 DEF IInv, TypeOK, Steps
  <1> QED BY <1>3, <1>4, <1>5, <1>6, <1>7, Assemble

LEMMA SetStep ==
    ASSUME IInv, Features = {}, NEW t \in Thread, Set(t) PROVE IInv'
  <1>1. PICK r \in Root(t), v \in Root(t) :
          /\ r # v /\ at[r] # NULL /\ at[v] # NULL
          /\ MayWrite(t, at[r])
          /\ \E p \in Item(at[r]) :
               /\ ptr' = [ptr EXCEPT ![t] = Seen(p)]
               /\ target' = [target EXCEPT ![t] = p]
               /\ pc' = [pc EXCEPT ![t] = IF Seen(p) = NULL THEN "store" ELSE "set"]
          /\ at' = [at EXCEPT ![ObjVar(t)] = at[r], ![ValVar(t)] = at[v],
                              ![r] = NULL, ![v] = NULL]
    BY DEF Set
  <1>2. PICK p \in Item(at[r]) :
          /\ ptr' = [ptr EXCEPT ![t] = Seen(p)]
          /\ target' = [target EXCEPT ![t] = p]
          /\ pc' = [pc EXCEPT ![t] = IF Seen(p) = NULL THEN "store" ELSE "set"]
    BY <1>1
  <1>3. /\ UNCHANGED <<stale, ref_count, heap, user, kept>>
        /\ pc[t] = "next" /\ at[ObjVar(t)] = NULL /\ at[ValVar(t)] = NULL
    BY ReadyFacts DEF Set
  <1>4. at[r] \in Obj /\ p \in Items /\ p \in Place /\ p[1] = at[r]
    BY <1>1, PlaceFacts, HeldFacts
  <1>5. user[p[1]] = t /\ Seen(p) = at[p] /\ at[p] \in Refs
    <2>1. user[p[1]] = t
      BY <1>1, <1>4 DEF MayWrite
    <2>2. Seen(p) = at[p]
      BY <1>3, <1>4, <2>1, SeenFacts
    <2> QED BY <1>4, <2>1, <2>2 DEF IInv, TypeOK, Refs
  <1>6. /\ \A u \in Thread : u # t => pc'[u] = pc[u] /\ ptr'[u] = ptr[u]
                                      /\ target'[u] = target[u]
        /\ pc'[t] = IF at[p] = NULL THEN "store" ELSE "set"
        /\ ptr'[t] = at[p] /\ target'[t] = p
    BY <1>2, <1>5 DEF IInv, TypeOK
  <1>7. /\ r \in Place /\ v \in Place /\ ObjVar(t) \in Place /\ ValVar(t) \in Place
        /\ r # ObjVar(t) /\ v # ValVar(t) /\ r # ValVar(t) /\ v # ObjVar(t)
        /\ ObjVar(t) # ValVar(t) /\ r # v
        /\ {r, v, ObjVar(t), ValVar(t)} \subseteq Mine(t)
        /\ r \notin Items /\ v \notin Items /\ ObjVar(t) \notin Items /\ ValVar(t) \notin Items
    BY <1>1, PlaceFacts DEF Mine
  <1>8. /\ at' \in [Place -> Refs]
        /\ at'[ObjVar(t)] = at[r] /\ at'[ValVar(t)] = at[v] /\ at'[r] = NULL /\ at'[v] = NULL
        /\ \A x \in Place : x \notin {r, v, ObjVar(t), ValVar(t)} => at'[x] = at[x]
    BY <1>1, <1>7 DEF IInv, TypeOK, Refs
  <1>9. \A o \in Obj : Num(at', o) = Num(at, o)
    <2> DEFINE g == [at EXCEPT ![ObjVar(t)] = at[r], ![r] = NULL]
    <2>1. /\ g[ObjVar(t)] = at[r] /\ g[r] = NULL
          /\ \A x \in Place : x # r /\ x # ObjVar(t) => g[x] = at[x]
      BY <1>7 DEF IInv, TypeOK
    <2> HIDE DEF g
    <2>2. \A o \in Obj : Num(g, o) = Num(at, o)
      BY ONLY <1>3, <1>7, <2>1, MoveCount
    <2>3. /\ at'[ValVar(t)] = g[v] /\ at'[v] = NULL /\ g[ValVar(t)] = NULL
          /\ \A x \in Place : x # v /\ x # ValVar(t) => at'[x] = g[x]
      BY <1>3, <1>7, <1>8, <2>1
    <2>4. \A o \in Obj : Num(at', o) = Num(g, o)
      BY ONLY <1>7, <2>3, MoveCount
    <2> QED BY <2>2, <2>4
  <1>10. /\ CountedOK' /\ HeldIsLive' /\ UnusedOK'
    BY <1>3, <1>7, <1>8, <1>9, MovedOK
  <1>11. ASSUME NEW u \in Thread, u # t PROVE Apart(u)
    BY <1>3, <1>6, <1>7, <1>8, <1>11, ApartMine
  <1>12. StaleOK' /\ BuildsOK'
    BY <1>3, <1>6, <1>10, <1>11, QuietOK
  <1>13. ThreadOK(t)'
    <2>1. at'[p] = at[p]
      BY <1>4, <1>7, <1>8
    <2> QED BY <1>3, <1>4, <1>5, <1>6, <1>8, <2>1 DEF ThreadOK, ObjVar, Refs
  <1>14. TypeOK'
    BY <1>2, <1>3, <1>4, <1>5, <1>8 DEF IInv, TypeOK, Refs, Steps
  <1> QED BY <1>10, <1>11, <1>12, <1>13, <1>14, Assemble

LEMMA UnlinkStep == ASSUME IInv, NEW t \in Thread, Unlink(t) PROVE IInv'
  <1> DEFINE p == target[t]
  <1>1. /\ at' = [at EXCEPT ![p] = NULL]
        /\ stale' = [stale EXCEPT ![p] = ptr[t]]
        /\ Decrement(t, ptr[t])
        /\ pc[t] = "set" /\ pc' = [pc EXCEPT ![t] = "store"]
        /\ ptr' = [ptr EXCEPT ![t] = NULL]
        /\ UNCHANGED <<kept, target>>
    BY DEF Unlink
  <1>2. /\ ptr[t] \in Obj /\ p \in Items /\ p \in Place /\ at[p] = ptr[t]
        /\ user[p[1]] = t /\ p[1] = at[ObjVar(t)] /\ p[1] \in Obj
        /\ ObjVar(t) \in Place /\ ObjVar(t) # p
    BY <1>1, PlaceFacts DEF IInv, ThreadOK
  <1>3. /\ ref_count' \in [Obj -> Nat \cup {-1}]
        /\ heap' \in [Obj -> {"unused", "live", "freed"}]
        /\ user' \in [Obj -> Thread \cup {"any", "chan"}]
        /\ CountedOK' /\ HeldIsLive' /\ UnusedOK'
        /\ \A o \in Obj : heap'[o] = "live" => heap[o] = "live"
        /\ \A o \in Obj : o # at[p] =>
              ref_count'[o] = ref_count[o] /\ heap'[o] = heap[o] /\ user'[o] = user[o]
        /\ \A q \in Place : q # p /\ at[q] # NULL =>
              heap'[at[q]] = "live" /\ user'[at[q]] = user[at[q]]
    <2>1. at[p] # NULL /\ Decrement(t, at[p]) /\ kept' = kept
      BY <1>1, <1>2, HeapAssumption
    <2> QED BY <1>1, <1>2, <2>1, DecrementOK, ZenonT(30)
  <1>4. /\ at'[p] = NULL /\ \A x \in Place : x # p => at'[x] = at[x]
        /\ stale'[p] = ptr[t] /\ \A x \in Items : x # p => stale'[x] = stale[x]
        /\ pc'[t] = "store" /\ ptr'[t] = NULL /\ target'[t] = p
        /\ \A u \in Thread : u # t => pc'[u] = pc[u] /\ ptr'[u] = ptr[u]
                                      /\ target'[u] = target[u]
    BY <1>1, <1>2 DEF IInv, TypeOK
  <1>5. ASSUME NEW u \in Thread, u # t PROVE Apart(u)
    <2>1. \A x \in Own(u) : x \in Place /\ x # p
      BY <1>2, PlaceFacts DEF Own
    <2>2. ASSUME NEW x \in Own(u), at[x] \in Obj, user[at[x]] \in {u, "any"}
          PROVE  /\ user'[at[x]] = user[at[x]]
                 /\ \A y \in Item(at[x]) : at'[y] = at[y]
      <3>1. at[x] # p[1]
        BY <1>2, <1>5, <2>2, DisjointNames
      <3> QED BY <1>3, <1>4, <2>1, <2>2, <3>1, PlaceFacts, HeapAssumption
    <2>3. pc[u] = "build" => /\ heap'[ptr[u]] = heap[ptr[u]]
                             /\ ref_count'[ptr[u]] = ref_count[ptr[u]]
                             /\ kept'[ptr[u]] = kept[ptr[u]]
      BY <1>1, <1>2, <1>3, HeldFacts, HeapAssumption DEF IInv, ThreadOK
    <2> QED BY <1>4, <1>5, <2>1, <2>2, <2>3 DEF Apart
  <1>6. StaleOK' /\ BuildsOK'
    <2>1. StaleOK'
      <3> SUFFICES ASSUME NEW x \in Items, stale'[x] # NULL
                   PROVE  \E u \in Thread : pc'[u] = "store" /\ target'[u] = x
        BY DEF StaleOK
      <3>1. CASE x = p
        BY <1>4, <3>1
      <3>2. CASE x # p
        BY <1>1, <1>4, <3>2 DEF IInv, StaleOK
      <3> QED BY <3>1, <3>2
    <2>2. BuildsOK'
      BY <1>4 DEF IInv, BuildsOK
    <2> QED BY <2>1, <2>2
  <1>7. ThreadOK(t)'
    <2>1. user'[p[1]] = t /\ at'[ObjVar(t)] = p[1]
      BY <1>2, <1>3, <1>4, HeapAssumption
    <2> QED BY <1>2, <1>4, <2>1 DEF ThreadOK, ObjVar
  <1>8. TypeOK'
    BY <1>1, <1>2, <1>3 DEF IInv, TypeOK, Steps
  <1> QED BY <1>3, <1>5, <1>6, <1>7, <1>8, Assemble

LEMMA StoreStep == ASSUME IInv, NEW t \in Thread, Store(t) PROVE IInv'
  <1> DEFINE p == target[t]
             x == at[ValVar(t)]
  <1>1. /\ at' = [at EXCEPT ![p] = x]
        /\ stale' = [stale EXCEPT ![p] = NULL]
        /\ IF x # NULL THEN Retain(x) ELSE UNCHANGED ref_count
        /\ pc[t] = "store" /\ pc' = [pc EXCEPT ![t] = "next"]
        /\ ptr' = [ptr EXCEPT ![t] = NULL]
        /\ target' = [target EXCEPT ![t] = NULL]
        /\ UNCHANGED <<heap, user, kept>>
    BY DEF Store
  <1>2. /\ p \in Items /\ p \in Place /\ p[1] \in Obj /\ at[p] = NULL /\ user[p[1]] = t
        /\ ValVar(t) \in Place /\ x \in Refs
    BY <1>1, PlaceFacts DEF IInv, ThreadOK, TypeOK, Refs
  <1>3. /\ at' \in [Place -> Refs] /\ at'[p] = x
        /\ \A y \in Place : y # p => at'[y] = at[y]
        /\ \A y \in Items : stale'[y] = IF y = p THEN NULL ELSE stale[y]
        /\ pc'[t] = "next" /\ ptr'[t] = NULL
        /\ \A u \in Thread : u # t => pc'[u] = pc[u] /\ ptr'[u] = ptr[u]
                                      /\ target'[u] = target[u]
    BY <1>1, <1>2 DEF IInv, TypeOK, Refs
  <1>4. /\ ref_count' \in [Obj -> Nat \cup {-1}]
        /\ CountedOK' /\ HeldIsLive' /\ UnusedOK'
        /\ \A u \in Thread : pc[u] = "build" => ref_count'[ptr[u]] = ref_count[ptr[u]]
    <2>1. CASE x = NULL
      <3>1. at' = at
        BY <1>1, <1>2, <2>1 DEF IInv, TypeOK
      <3> QED BY <1>1, <2>1, <3>1 DEF IInv, TypeOK, CountedOK, Num, HoldersIn,
                 HeldIsLive, UnusedOK
    <2>2. CASE x # NULL
      <3>1. x \in Obj /\ heap[x] = "live" /\ kept[x] \in Nat /\ \A u \in Thread : pc[u] = "build" => ptr[u] # x
        BY <1>2, <2>2, HeldFacts
      <3>2. \A o \in Obj : Num(at', o) = IF o = x THEN Num(at, o) + 1 ELSE Num(at, o)
        <4> HIDE DEF p, x
        <4> QED BY ONLY <1>2, <1>3, <3>1, AddCount
      <3>3. Retain(x) /\ heap' = heap /\ kept' = kept
        BY <1>1, <2>2
      <3>4. \A y \in Place : at'[y] # NULL => at'[y] = x \/ \E q \in Place : at[q] = at'[y]
        BY <1>3
      <3>5. /\ ref_count' \in [Obj -> Nat \cup {-1}]
            /\ CountedOK' /\ HeldIsLive' /\ UnusedOK'
            /\ \A o \in Obj : o # x => ref_count'[o] = ref_count[o]
        BY <3>1, <3>2, <3>3, <3>4, RetainOK
      <3> QED BY <3>1, <3>5 DEF IInv, ThreadOK
    <2> QED BY <2>1, <2>2
  <1>5. ASSUME NEW u \in Thread, u # t PROVE Apart(u)
    <2>1. \A y \in Own(u) : y \in Place /\ y # p
      BY <1>2, PlaceFacts DEF Own
    <2>2. ASSUME NEW y \in Own(u), at[y] \in Obj, user[at[y]] \in {u, "any"}
          PROVE  \A q \in Item(at[y]) : at'[q] = at[q]
      <3>1. at[y] # p[1]
        BY <1>2, <1>5, <2>2, DisjointNames
      <3> QED BY <1>3, <2>2, <3>1, PlaceFacts
    <2> QED BY <1>1, <1>3, <1>4, <1>5, <2>1, <2>2 DEF Apart
  <1>6. StaleOK' /\ BuildsOK'
    <2>1. StaleOK'
      BY <1>3 DEF IInv, StaleOK
    <2>2. BuildsOK'
      BY <1>3 DEF IInv, BuildsOK
    <2> QED BY <2>1, <2>2
  <1>7. ThreadOK(t)'
    BY <1>3 DEF ThreadOK
  <1>8. TypeOK'
    BY <1>1, <1>2, <1>3, <1>4 DEF IInv, TypeOK, Refs, Steps
  <1> QED BY <1>4, <1>5, <1>6, <1>7, <1>8, Assemble

LEMMA AppendStep ==
    ASSUME IInv, Features = {}, NEW t \in Thread, AppendItem(t) PROVE IInv'
  <1>1. PICK r \in Root(t), v \in Root(t) :
          /\ r # v /\ at[r] # NULL /\ at[v] # NULL
          /\ MayWrite(t, at[r])
          /\ \E p \in Item(at[r]) :
               /\ Seen(p) = NULL
               /\ at' = [at EXCEPT ![p] = at[v], ![ValVar(t)] = at[v], ![v] = NULL]
          /\ Retain(at[v])
    BY DEF AppendItem
  <1>2. PICK p \in Item(at[r]) :
          /\ Seen(p) = NULL
          /\ at' = [at EXCEPT ![p] = at[v], ![ValVar(t)] = at[v], ![v] = NULL]
    BY <1>1
  <1>3. /\ UNCHANGED <<stale, heap, user, kept, pc, ptr, target>>
        /\ pc[t] = "next" /\ at[ValVar(t)] = NULL
    BY ReadyFacts DEF AppendItem
  <1>4. /\ at[r] \in Obj /\ p \in Items /\ p \in Place /\ p[1] = at[r] /\ user[p[1]] = t
        /\ v \in Place /\ ValVar(t) \in Place
        /\ v # ValVar(t) /\ p # v /\ p # ValVar(t)
        /\ v \in Mine(t) /\ ValVar(t) \in Mine(t)
        /\ v \notin Items /\ ValVar(t) \notin Items
    BY <1>1, PlaceFacts, HeldFacts DEF MayWrite, Mine
  <1>5. at[p] = NULL
    BY <1>2, <1>3, <1>4, SeenFacts
  <1> DEFINE x == at[v]
  <1>6. x \in Obj /\ heap[x] = "live" /\ kept[x] \in Nat /\ \A u \in Thread : pc[u] = "build" => ptr[u] # x
    BY <1>1, <1>4, HeldFacts
  <1>7. /\ at' \in [Place -> Refs]
        /\ at'[p] = x /\ at'[ValVar(t)] = x /\ at'[v] = NULL
        /\ \A y \in Place : y \notin {p, v, ValVar(t)} => at'[y] = at[y]
    BY <1>2, <1>4 DEF IInv, TypeOK, Refs
  <1>8. \A o \in Obj : Num(at', o) = IF o = x THEN Num(at, o) + 1 ELSE Num(at, o)
    <2> DEFINE g == [at EXCEPT ![p] = x]
    <2>1. g[p] = x /\ \A y \in Place : y # p => g[y] = at[y]
      BY <1>4 DEF IInv, TypeOK
    <2> HIDE DEF g, x
    <2>2. \A o \in Obj : Num(g, o) = IF o = x THEN Num(at, o) + 1 ELSE Num(at, o)
      BY ONLY <1>4, <1>5, <1>6, <2>1, AddCount
    <2>3. /\ at'[ValVar(t)] = g[v] /\ at'[v] = NULL /\ g[ValVar(t)] = NULL
          /\ \A y \in Place : y # v /\ y # ValVar(t) => at'[y] = g[y]
      BY <1>3, <1>4, <1>7, <2>1 DEF x
    <2>4. \A o \in Obj : Num(at', o) = Num(g, o)
      BY ONLY <1>4, <2>3, MoveCount
    <2> QED BY <2>2, <2>4
  <1>9. /\ ref_count' \in [Obj -> Nat \cup {-1}]
        /\ CountedOK' /\ HeldIsLive' /\ UnusedOK'
        /\ \A o \in Obj : o # x => ref_count'[o] = ref_count[o]
    <2>1. \A y \in Place : at'[y] # NULL => at'[y] = x \/ \E q \in Place : at[q] = at'[y]
      BY <1>7
    <2> QED BY <1>1, <1>3, <1>6, <1>8, <2>1, RetainOK
  <1>10. ASSUME NEW u \in Thread, u # t PROVE Apart(u)
    <2>1. \A y \in Own(u) : y \in Place /\ y \notin {p, v, ValVar(t)}
      BY <1>4, <1>10, PlaceFacts DEF Own, Mine
    <2>2. ASSUME NEW y \in Own(u), at[y] \in Obj, user[at[y]] \in {u, "any"}
          PROVE  \A q \in Item(at[y]) : at'[q] = at[q]
      <3>1. at[y] # p[1]
        BY <1>4, <1>10, <2>2, DisjointNames
      <3> QED BY <1>4, <1>7, <2>2, <3>1, PlaceFacts
    <2>3. pc[u] = "build" => ref_count'[ptr[u]] = ref_count[ptr[u]]
      BY <1>6, <1>9 DEF IInv, ThreadOK
    <2> QED BY <1>3, <1>7, <2>1, <2>2, <2>3 DEF Apart
  <1>11. StaleOK' /\ BuildsOK'
    BY <1>3, <1>9, <1>10, QuietOK
  <1>12. ThreadOK(t)'
    BY <1>3 DEF IInv, ThreadOK
  <1>13. TypeOK'
    BY <1>3, <1>7, <1>9 DEF IInv, TypeOK, Refs
  <1> QED BY <1>9, <1>10, <1>11, <1>12, <1>13, Assemble

LEMMA SendStep ==
    ASSUME IInv, NEW t \in Thread, Send(t) PROVE IInv'
  <1>1. PICK r \in Root(t), v \in Root(t), w \in Thread :
          /\ r # v /\ at[r] # NULL /\ at[v] # NULL
          /\ user[at[r]] = "chan"
          /\ \E p \in Item(at[r]) :
               /\ at[p] = NULL
               /\ at' = [at EXCEPT ![p] = at[v], ![ObjVar(t)] = at[r], ![ValVar(t)] = at[v],
                                   ![r] = NULL, ![v] = NULL]
          /\ Retain(at[v])
          /\ user' = IF user[at[v]] = t THEN [user EXCEPT ![at[v]] = w] ELSE user
    BY DEF Send
  <1>2. PICK p \in Item(at[r]) :
          /\ at[p] = NULL
          /\ at' = [at EXCEPT ![p] = at[v], ![ObjVar(t)] = at[r], ![ValVar(t)] = at[v],
                              ![r] = NULL, ![v] = NULL]
    BY <1>1
  <1>3. /\ UNCHANGED <<stale, heap, kept, pc, ptr, target>>
        /\ pc[t] = "next" /\ at[ObjVar(t)] = NULL /\ at[ValVar(t)] = NULL
    BY ReadyFacts DEF Send
  <1>4. /\ at[r] \in Obj /\ p \in Items /\ p \in Place /\ p[1] = at[r]
        /\ r \in Place /\ v \in Place /\ ObjVar(t) \in Place /\ ValVar(t) \in Place
        /\ r # ObjVar(t) /\ v # ValVar(t) /\ r # ValVar(t) /\ v # ObjVar(t)
        /\ ObjVar(t) # ValVar(t) /\ r # v
        /\ p # r /\ p # v /\ p # ObjVar(t) /\ p # ValVar(t)
        /\ {r, v, ObjVar(t), ValVar(t)} \subseteq Mine(t)
        /\ r \notin Items /\ v \notin Items /\ ObjVar(t) \notin Items /\ ValVar(t) \notin Items
    BY <1>1, PlaceFacts, HeldFacts DEF Mine
  <1> DEFINE x == at[v]
  <1>6. x \in Obj /\ heap[x] = "live" /\ kept[x] \in Nat /\ \A u \in Thread : pc[u] = "build" => ptr[u] # x
    BY <1>1, <1>4, HeldFacts
  <1>7. /\ at' \in [Place -> Refs]
        /\ at'[p] = x /\ at'[ValVar(t)] = x /\ at'[v] = NULL
        /\ at'[ObjVar(t)] = at[r] /\ at'[r] = NULL
        /\ \A y \in Place : y \notin {p, r, v, ObjVar(t), ValVar(t)} => at'[y] = at[y]
    BY <1>2, <1>4 DEF IInv, TypeOK, Refs
  <1>8. \A o \in Obj : Num(at', o) = IF o = x THEN Num(at, o) + 1 ELSE Num(at, o)
    <2> DEFINE g == [at EXCEPT ![p] = x]
    <2>1. g[p] = x /\ g \in [Place -> Refs] /\ \A y \in Place : y # p => g[y] = at[y]
      BY <1>4, <1>6 DEF IInv, TypeOK, Refs
    <2> HIDE DEF g, x
    <2>2. \A o \in Obj : Num(g, o) = IF o = x THEN Num(at, o) + 1 ELSE Num(at, o)
      BY ONLY <1>2, <1>4, <1>6, <2>1, AddCount
    <2> DEFINE h == [g EXCEPT ![ValVar(t)] = x, ![v] = NULL]
    <2>3. /\ h[ValVar(t)] = g[v] /\ h[v] = NULL /\ g[ValVar(t)] = NULL
          /\ \A y \in Place : y # v /\ y # ValVar(t) => h[y] = g[y]
      BY <1>3, <1>4, <2>1 DEF x
    <2> HIDE DEF h
    <2>4. \A o \in Obj : Num(h, o) = Num(g, o)
      BY ONLY <1>4, <2>3, MoveCount
    <2>5. /\ at'[ObjVar(t)] = h[r] /\ at'[r] = NULL /\ h[ObjVar(t)] = NULL
          /\ \A y \in Place : y # r /\ y # ObjVar(t) => at'[y] = h[y]
      BY <1>3, <1>4, <1>7, <2>1, <2>3 DEF x
    <2>6. \A o \in Obj : Num(at', o) = Num(h, o)
      BY ONLY <1>4, <2>5, MoveCount
    <2> QED BY <2>2, <2>4, <2>6
  <1>9. /\ ref_count' \in [Obj -> Nat \cup {-1}]
        /\ CountedOK' /\ HeldIsLive' /\ UnusedOK'
        /\ \A o \in Obj : o # x => ref_count'[o] = ref_count[o]
    <2>1. ASSUME NEW y \in Place, at'[y] # NULL
          PROVE  at'[y] = x \/ \E q \in Place : at[q] = at'[y]
      <3>1. CASE y \in {p, r, v, ObjVar(t), ValVar(t)}
        BY <1>4, <1>7, <2>1, <3>1
      <3>2. CASE y \notin {p, r, v, ObjVar(t), ValVar(t)}
        BY <1>7, <3>2
      <3> QED BY <3>1, <3>2
    <2> QED BY <1>1, <1>3, <1>6, <1>8, <2>1, RetainOK
  <1>10. /\ user' \in [Obj -> Thread \cup {"any", "chan"}]
         /\ \A o \in Obj : user[o] # t => user'[o] = user[o]
    BY <1>1, <1>6 DEF IInv, TypeOK
  <1>11. ASSUME NEW u \in Thread, u # t PROVE Apart(u)
    <2>1. \A y \in Own(u) : y \in Place /\ y \notin {p, r, v, ObjVar(t), ValVar(t)}
      BY <1>4, <1>11, PlaceFacts DEF Own, Mine
    <2>2. ASSUME NEW y \in Own(u), at[y] \in Obj, user[at[y]] \in {u, "any"}
          PROVE  /\ user'[at[y]] = user[at[y]]
                 /\ \A q \in Item(at[y]) : at'[q] = at[q]
      <3>1. at[y] # p[1]
        BY <1>1, <1>4, <2>2, DisjointNames
      <3>2. user[at[y]] # t
        BY <1>11, <2>2, DisjointNames
      <3> QED BY <1>4, <1>7, <1>10, <2>2, <3>1, <3>2, PlaceFacts
    <2>3. pc[u] = "build" => ref_count'[ptr[u]] = ref_count[ptr[u]]
      BY <1>6, <1>9 DEF IInv, ThreadOK
    <2> QED BY <1>3, <1>7, <2>1, <2>2, <2>3 DEF Apart
  <1>12. StaleOK' /\ BuildsOK'
    BY <1>3, <1>9, <1>11, QuietOK
  <1>13. ThreadOK(t)'
    BY <1>3 DEF IInv, ThreadOK
  <1>14. TypeOK'
    BY <1>3, <1>7, <1>9, <1>10 DEF IInv, TypeOK, Refs
  <1> QED BY <1>9, <1>11, <1>12, <1>13, <1>14, Assemble

LEMMA ReceiveStep ==
    ASSUME IInv, NEW t \in Thread, Receive(t) PROVE IInv'
  <1>1. PICK r \in Root(t), q \in Root(t) :
          /\ at[r] # NULL /\ (at[q] = NULL \/ q = r)
          /\ user[at[r]] = "chan"
          /\ \E p \in Item(at[r]) :
               /\ at[p] # NULL
               /\ at' = [[at EXCEPT ![ObjVar(t)] = at[r], ![ValVar(t)] = at[p],
                                    ![p] = NULL, ![r] = NULL] EXCEPT ![q] = at[p]]
               /\ Retain(at[p])
    BY DEF Receive
  <1>2. PICK p \in Item(at[r]) :
          /\ at[p] # NULL
          /\ at' = [[at EXCEPT ![ObjVar(t)] = at[r], ![ValVar(t)] = at[p],
                               ![p] = NULL, ![r] = NULL] EXCEPT ![q] = at[p]]
          /\ Retain(at[p])
    BY <1>1
  <1>3. /\ UNCHANGED <<stale, heap, user, kept, pc, ptr, target>>
        /\ pc[t] = "next" /\ at[ObjVar(t)] = NULL /\ at[ValVar(t)] = NULL
    BY ReadyFacts DEF Receive
  <1>4. /\ at[r] \in Obj /\ p \in Items /\ p \in Place /\ p[1] = at[r]
        /\ r \in Place /\ q \in Place /\ ObjVar(t) \in Place /\ ValVar(t) \in Place
        /\ r # ObjVar(t) /\ q # ValVar(t) /\ r # ValVar(t) /\ q # ObjVar(t)
        /\ ObjVar(t) # ValVar(t)
        /\ p # r /\ p # q /\ p # ObjVar(t) /\ p # ValVar(t)
        /\ {r, q, ObjVar(t), ValVar(t)} \subseteq Mine(t)
        /\ r \notin Items /\ q \notin Items /\ ObjVar(t) \notin Items /\ ValVar(t) \notin Items
    BY <1>1, PlaceFacts, HeldFacts DEF Mine
  <1> DEFINE x == at[p]
  <1>6. x \in Obj /\ heap[x] = "live" /\ kept[x] \in Nat /\ \A u \in Thread : pc[u] = "build" => ptr[u] # x
    BY <1>2, <1>4, HeldFacts
  <1>7. /\ at' \in [Place -> Refs]
        /\ at'[q] = x /\ at'[ValVar(t)] = x /\ at'[p] = NULL
        /\ at'[ObjVar(t)] = at[r] /\ (r # q => at'[r] = NULL)
        /\ \A y \in Place : y \notin {p, r, q, ObjVar(t), ValVar(t)} => at'[y] = at[y]
    BY <1>2, <1>4 DEF IInv, TypeOK, Refs
  <1>8. \A o \in Obj : Num(at', o) = IF o = x THEN Num(at, o) + 1 ELSE Num(at, o)
    <2> DEFINE g == [at EXCEPT ![ObjVar(t)] = at[r], ![r] = NULL]
    <2>1. /\ g[ObjVar(t)] = at[r] /\ g[r] = NULL /\ g \in [Place -> Refs]
          /\ \A y \in Place : y # r /\ y # ObjVar(t) => g[y] = at[y]
      BY <1>4 DEF IInv, TypeOK, Refs
    <2> HIDE DEF g, x
    <2>2. \A o \in Obj : Num(g, o) = Num(at, o)
      BY ONLY <1>3, <1>4, <2>1, MoveCount
    <2> DEFINE h == [g EXCEPT ![ValVar(t)] = x, ![p] = NULL]
    <2>3. /\ h[ValVar(t)] = g[p] /\ h[p] = NULL /\ g[ValVar(t)] = NULL
          /\ \A y \in Place : y # p /\ y # ValVar(t) => h[y] = g[y]
      BY <1>3, <1>4, <2>1 DEF x
    <2> HIDE DEF h
    <2>4. \A o \in Obj : Num(h, o) = Num(g, o)
      BY ONLY <1>4, <2>3, MoveCount
    <2>5. /\ at'[q] = x /\ h[q] = NULL
          /\ \A y \in Place : y # q => at'[y] = h[y]
      BY <1>1, <1>3, <1>4, <1>7, <2>1, <2>3 DEF x
    <2>6. \A o \in Obj : Num(at', o) = IF o = x THEN Num(h, o) + 1 ELSE Num(h, o)
      <3>1. x \in Obj
        BY <1>6
      <3> QED BY ONLY <1>4, <2>5, <3>1, AddCount
    <2> QED BY <2>2, <2>4, <2>6
  <1>9. /\ ref_count' \in [Obj -> Nat \cup {-1}]
        /\ CountedOK' /\ HeldIsLive' /\ UnusedOK'
        /\ \A o \in Obj : o # x => ref_count'[o] = ref_count[o]
    <2>1. ASSUME NEW y \in Place, at'[y] # NULL
          PROVE  at'[y] = x \/ \E z \in Place : at[z] = at'[y]
      <3>1. CASE y \in {p, r, q, ObjVar(t), ValVar(t)}
        BY <1>4, <1>7, <2>1, <3>1
      <3>2. CASE y \notin {p, r, q, ObjVar(t), ValVar(t)}
        BY <1>7, <3>2
      <3> QED BY <3>1, <3>2
    <2> QED BY <1>2, <1>3, <1>6, <1>8, <2>1, RetainOK
  <1>10. ASSUME NEW u \in Thread, u # t PROVE Apart(u)
    <2>1. \A y \in Own(u) : y \in Place /\ y \notin {p, r, q, ObjVar(t), ValVar(t)}
      BY <1>4, <1>10, PlaceFacts DEF Own, Mine
    <2>2. ASSUME NEW y \in Own(u), at[y] \in Obj, user[at[y]] \in {u, "any"}
          PROVE  \A z \in Item(at[y]) : at'[z] = at[z]
      <3>1. at[y] # p[1]
        BY <1>1, <1>4, <2>2, DisjointNames
      <3> QED BY <1>4, <1>7, <2>2, <3>1, PlaceFacts
    <2>3. pc[u] = "build" => ref_count'[ptr[u]] = ref_count[ptr[u]]
      BY <1>6, <1>9 DEF IInv, ThreadOK
    <2> QED BY <1>3, <1>7, <2>1, <2>2, <2>3 DEF Apart
  <1>11. StaleOK' /\ BuildsOK'
    BY <1>3, <1>9, <1>10, QuietOK
  <1>12. ThreadOK(t)'
    BY <1>3 DEF IInv, ThreadOK
  <1>13. TypeOK'
    BY <1>3, <1>7, <1>9 DEF IInv, TypeOK, Refs
  <1> QED BY <1>9, <1>10, <1>11, <1>12, <1>13, Assemble

LEMMA GoStep ==
    ASSUME IInv, Features = {}, NEW t \in Thread, Go(t) PROVE IInv'
  <1>1. PICK u \in Thread, f \in Root(t), a \in Root(t) :
          /\ pc[u] = "idle"
          /\ at[f] # NULL
          /\ MayRead(u, at[f])
          /\ at' = [at EXCEPT ![Callable(u)] = at[f],
                              ![Arg(u)] = IF a = f THEN NULL ELSE at[a],
                              ![f] = NULL, ![a] = NULL]
          /\ pc' = [pc EXCEPT ![u] = "start"]
    BY DEF Go
  <1>2. UNCHANGED <<stale, ref_count, heap, user, kept, ptr, target>> /\ pc[t] = "next"
    BY DEF Go, Ready
  <1>3. /\ t # u /\ at[Callable(u)] = NULL /\ at[Arg(u)] = NULL /\ ptr[u] = NULL
    BY <1>1, <1>2 DEF IInv, ThreadOK
  <1>4. /\ f \in Place /\ a \in Place /\ Callable(u) \in Place /\ Arg(u) \in Place
        /\ f # Callable(u) /\ f # Arg(u) /\ a # Callable(u) /\ a # Arg(u)
        /\ Callable(u) # Arg(u)
        /\ f \in Mine(t) /\ a \in Mine(t)
        /\ {f, a, Callable(u), Arg(u)} \cap Items = {}
    BY PlaceFacts DEF Mine
  <1>5. /\ at' \in [Place -> Refs]
        /\ at'[Callable(u)] = at[f]
        /\ at'[Arg(u)] = IF a = f THEN NULL ELSE at[a]
        /\ at'[f] = NULL /\ at'[a] = NULL
        /\ \A y \in Place : y \notin {f, a, Callable(u), Arg(u)} => at'[y] = at[y]
    BY <1>1, <1>4 DEF IInv, TypeOK, Refs
  <1>6. \A o \in Obj : Num(at', o) = Num(at, o)
    <2> DEFINE g == [at EXCEPT ![Callable(u)] = at[f], ![f] = NULL]
    <2>1. /\ g[Callable(u)] = at[f] /\ g[f] = NULL /\ g \in [Place -> Refs]
          /\ \A y \in Place : y # f /\ y # Callable(u) => g[y] = at[y]
      BY <1>4 DEF IInv, TypeOK, Refs
    <2> HIDE DEF g
    <2>2. \A o \in Obj : Num(g, o) = Num(at, o)
      BY ONLY <1>3, <1>4, <2>1, MoveCount
    <2>3. /\ at'[Arg(u)] = g[a] /\ at'[a] = NULL /\ g[Arg(u)] = NULL
          /\ \A y \in Place : y # a /\ y # Arg(u) => at'[y] = g[y]
      BY <1>3, <1>4, <1>5, <2>1
    <2>4. \A o \in Obj : Num(at', o) = Num(g, o)
      BY ONLY <1>4, <2>3, MoveCount
    <2> QED BY <2>2, <2>4
  <1>7. /\ CountedOK' /\ HeldIsLive' /\ UnusedOK'
    <2>1. ASSUME NEW y \in Place, at'[y] # NULL PROVE \E q \in Place : at[q] = at'[y]
      <3>1. CASE y \in {f, a, Callable(u), Arg(u)}
        BY <1>4, <1>5, <2>1, <3>1
      <3>2. CASE y \notin {f, a, Callable(u), Arg(u)}
        BY <1>5, <3>2
      <3> QED BY <3>1, <3>2
    <2> QED BY <1>2, <1>6, <2>1, MovedOK
  <1>8. /\ pc'[u] = "start" /\ \A w \in Thread : w # u => pc'[w] = pc[w]
        /\ ptr' = ptr /\ target' = target
    BY <1>1, <1>2 DEF IInv, TypeOK
  <1>9. \A w \in Thread : ThreadOK(w)'
    <2> SUFFICES ASSUME NEW w \in Thread PROVE ThreadOK(w)'
      OBVIOUS
    <2>1. CASE w = u
      <3>1. at'[Callable(u)] # NULL /\ user'[at'[Callable(u)]] \in {u, "any"}
        <4>1. user[at[f]] \in {u, "any"}
          BY <1>1 DEF MayRead
        <4> QED BY <1>1, <1>2, <1>5, <4>1
      <3>2. ptr'[u] = NULL
        BY <1>3, <1>8
      <3> QED BY <1>8, <2>1, <3>1, <3>2 DEF ThreadOK, Callable
    <2>2. CASE w = t
      BY <1>2, <1>3, <1>8, <2>2 DEF IInv, ThreadOK
    <2>3. CASE w # u /\ w # t
      <3>1. \A y \in Own(w) : y \in Place /\ y \notin {f, a, Callable(u), Arg(u)}
        BY <1>4, <2>3, PlaceFacts DEF Own, Mine
      <3>2. \A o \in Obj : \A q \in Item(o) : at'[q] = at[q]
        BY <1>4, <1>5, PlaceFacts
      <3>3. Apart(w)
        BY <1>2, <1>5, <1>8, <2>3, <3>1, <3>2 DEF Apart
      <3> QED BY <3>3, ApartOK DEF IInv
    <2> QED BY <2>1, <2>2, <2>3
  <1>10. StaleOK' /\ BuildsOK'
    <2>1. \A w \in Thread : pc'[w] \in {"store", "build"} <=> pc[w] \in {"store", "build"}
      BY <1>1, <1>8
    <2>2. \A w \in Thread : pc[w] \in {"store", "build"} => pc'[w] = pc[w]
      BY <1>1, <1>8
    <2>3. StaleOK'
      BY <1>2, <2>2 DEF IInv, StaleOK
    <2>4. BuildsOK'
      BY <1>8, <2>1, <2>2 DEF IInv, BuildsOK
    <2> QED BY <2>3, <2>4
  <1>11. TypeOK'
    BY <1>1, <1>2, <1>5 DEF IInv, TypeOK, Refs, Steps
  <1> QED BY <1>7, <1>9, <1>10, <1>11 DEF IInv

LEMMA BeginStep ==
    ASSUME IInv, NEW t \in Thread, Begin(t) PROVE IInv'
  <1> DEFINE x == at[Arg(t)]
  <1>1. /\ UNCHANGED <<stale, heap, user, kept>>
        /\ pc[t] = "start"
    BY DEF Begin
  <1>2. /\ Callable(t) \in Place /\ Arg(t) \in Place
        /\ at[Callable(t)] \in Obj /\ user[at[Callable(t)]] \in {t, "any"}
        /\ ptr[t] = NULL
    BY <1>1, PlaceFacts DEF IInv, ThreadOK, TypeOK
  <1>3. /\ at' \in [Place -> Refs] /\ ref_count' \in [Obj -> Nat \cup {-1}]
        /\ \A y \in Place : y \notin Root(t) => at'[y] = at[y]
        /\ CountedOK' /\ HeldIsLive' /\ UnusedOK'
        /\ \A u \in Thread : pc[u] = "build" => ref_count'[ptr[u]] = ref_count[ptr[u]]
    <2>1. CASE x = NULL
      <3>1. at' = at /\ ref_count' = ref_count
        BY <2>1 DEF Begin
      <3> QED BY <1>1, <3>1 DEF IInv, TypeOK, Refs, CountedOK, Num, HoldersIn,
                 HeldIsLive, UnusedOK
    <2>2. CASE x # NULL
      <3>1. PICK q \in Root(t) : at[q] = NULL /\ at' = [at EXCEPT ![q] = x]
        BY <2>2 DEF Begin
      <3>2. Retain(x) /\ heap' = heap /\ kept' = kept
        BY <1>1, <2>2 DEF Begin
      <3>3. x \in Obj /\ heap[x] = "live" /\ kept[x] \in Nat /\ \A u \in Thread : pc[u] = "build" => ptr[u] # x
        BY <1>2, <2>2, HeldFacts
      <3>4. /\ q \in Place /\ at' \in [Place -> Refs] /\ at'[q] = x
            /\ \A y \in Place : y # q => at'[y] = at[y]
        BY <3>1, <3>3, PlaceFacts DEF IInv, TypeOK, Refs
      <3>5. at[q] = NULL
        BY <3>1
      <3>6. \A o \in Obj : Num(at', o) = IF o = x THEN Num(at, o) + 1 ELSE Num(at, o)
        <4> HIDE DEF x
        <4> QED BY ONLY <3>3, <3>4, <3>5, AddCount
      <3>7. \A y \in Place : at'[y] # NULL => at'[y] = x \/ \E z \in Place : at[z] = at'[y]
        BY <3>4
      <3>8. /\ ref_count' \in [Obj -> Nat \cup {-1}]
            /\ CountedOK' /\ HeldIsLive' /\ UnusedOK'
            /\ \A o \in Obj : o # x => ref_count'[o] = ref_count[o]
        BY <3>2, <3>3, <3>6, <3>7, RetainOK
      <3> QED BY <3>1, <3>3, <3>4, <3>8 DEF IInv, ThreadOK
    <2> QED BY <2>1, <2>2
  <1>4. /\ \A u \in Thread : u # t => pc'[u] = pc[u] /\ ptr'[u] = ptr[u]
                                      /\ target'[u] = target[u]
        /\ pc' \in [Thread -> Steps] /\ ptr' \in [Thread -> Refs]
        /\ target' \in [Thread -> Items \cup {NULL}]
        /\ \/ pc'[t] = "next" /\ ptr'[t] = NULL
           \/ /\ pc'[t] = "get"
              /\ target'[t] \in Items /\ target'[t][1] = at[Callable(t)]
              /\ ptr'[t] = at[target'[t]] /\ ptr'[t] \in Obj
    <2>1. CASE pc' = [pc EXCEPT ![t] = "next"] /\ UNCHANGED <<ptr, target>>
      BY <1>2, <2>1 DEF IInv, TypeOK, Steps, Refs
    <2>2. ASSUME NEW p \in Item(at[Callable(t)]),
                 Seen(p) # NULL,
                 ptr' = [ptr EXCEPT ![t] = Seen(p)],
                 target' = [target EXCEPT ![t] = p],
                 pc' = [pc EXCEPT ![t] = "get"]
          PROVE  <1>4
      <3>1. p \in Items /\ p \in Place /\ p[1] = at[Callable(t)]
        BY <1>2, PlaceFacts
      <3>2. Seen(p) = at[p] /\ at[p] \in Obj
        <4>1. Seen(p) = at[p]
          BY <1>1, <1>2, <3>1, SeenFacts
        <4> QED BY <2>2, <3>1, <4>1 DEF IInv, TypeOK
      <3> QED BY <2>2, <3>1, <3>2 DEF IInv, TypeOK, Steps, Refs
    <2> QED BY <2>1, <2>2 DEF Begin
  <1>5. ASSUME NEW u \in Thread, u # t PROVE Apart(u)
    <2>1. Root(t) \subseteq Mine(t)
      BY DEF Mine
    <2> QED BY <1>1, <1>3, <1>4, <1>5, <2>1, ApartMine
  <1>6. StaleOK' /\ BuildsOK'
    BY <1>1, <1>3, <1>4, <1>5, QuietOK
  <1>7. ThreadOK(t)'
    <2>1. CASE pc'[t] = "next"
      BY <1>4, <2>1 DEF ThreadOK
    <2>2. CASE pc'[t] = "get"
      <3>1. at'[Callable(t)] = at[Callable(t)] /\ at'[target'[t]] = at[target'[t]]
        BY <1>2, <1>3, <1>4, <2>2, PlaceFacts
      <3> QED BY <1>1, <1>2, <1>4, <2>2, <3>1 DEF ThreadOK, Callable
    <2> QED BY <1>4, <2>1, <2>2
  <1>8. TypeOK'
    BY <1>1, <1>3, <1>4 DEF IInv, TypeOK, Refs
  <1> QED BY <1>3, <1>5, <1>6, <1>7, <1>8, Assemble

LEMMA ReleaseStep ==
    ASSUME IInv, NEW t \in Thread, Release(t) PROVE IInv'
  <1>1. PICK p \in Dropped(t) :
          at' = [at EXCEPT ![p] = NULL] /\ Decrement(t, at[p])
    BY DEF Release
  <1>2. UNCHANGED <<stale, kept, pc, ptr, target>>
    BY DEF Release
  <1>3. /\ p \in Place /\ at[p] # NULL
        /\ \/ p \in Items /\ heap[p[1]] = "freed"
           \/ p \in Mine(t) /\ p \notin Items /\ pc[t] \in {"next", "report", "end"}
        /\ p \in Root(t) => pc[t] = "end"
    BY <1>1, PlaceFacts DEF Dropped, FreeItems, Hand, Args, Mine
  <1>4. /\ ref_count' \in [Obj -> Nat \cup {-1}]
        /\ heap' \in [Obj -> {"unused", "live", "freed"}]
        /\ user' \in [Obj -> Thread \cup {"any", "chan"}]
        /\ CountedOK' /\ HeldIsLive' /\ UnusedOK'
        /\ \A o \in Obj : heap'[o] = "live" => heap[o] = "live"
        /\ \A o \in Obj : o # at[p] =>
              ref_count'[o] = ref_count[o] /\ heap'[o] = heap[o] /\ user'[o] = user[o]
        /\ \A q \in Place : q # p /\ at[q] # NULL =>
              heap'[at[q]] = "live" /\ user'[at[q]] = user[at[q]]
    BY <1>1, <1>2, <1>3, DecrementOK
  <1>5. at' \in [Place -> Refs] /\ \A x \in Place : x # p => at'[x] = at[x]
    BY <1>1, <1>3 DEF IInv, TypeOK, Refs
  <1>6. ASSUME NEW u \in Thread, u # t \/ pc[u] \notin {"next", "report", "end"}
        PROVE  Apart(u)
    <2>1. \A x \in Own(u) : x \in Place /\ x # p
      BY <1>3, <1>6, PlaceFacts DEF Own, Mine
    <2>2. ASSUME NEW x \in Own(u), at[x] \in Obj
          PROVE  /\ user'[at[x]] = user[at[x]]
                 /\ \A y \in Item(at[x]) : at'[y] = at[y]
      <3>1. heap[at[x]] = "live" /\ user'[at[x]] = user[at[x]]
        BY <1>4, <2>1, <2>2, HeldFacts, HeapAssumption
      <3>2. \A y \in Item(at[x]) : y \in Place /\ y # p
        BY <1>3, <2>2, <3>1, PlaceFacts
      <3> QED BY <1>5, <3>1, <3>2
    <2>3. pc[u] = "build" => /\ heap'[ptr[u]] = heap[ptr[u]]
                             /\ ref_count'[ptr[u]] = ref_count[ptr[u]]
      BY <1>3, <1>4, HeldFacts DEF IInv, ThreadOK
    <2> QED BY <1>2, <1>5, <2>1, <2>2, <2>3 DEF Apart
  <1>7. StaleOK' /\ BuildsOK'
    BY <1>2, <1>4 DEF IInv, StaleOK, BuildsOK
  <1>8. ThreadOK(t)'
    <2>1. CASE pc[t] \in {"next", "end"}
      BY <1>2, <2>1 DEF IInv, ThreadOK
    <2>3. CASE pc[t] = "report"
      <3>1. \A r \in Root(t) : at'[r] = at[r]
        BY <1>3, <1>5, <2>3, PlaceFacts
      <3> QED BY <1>2, <2>3, <3>1 DEF IInv, ThreadOK, Root
    <2>2. CASE pc[t] \notin {"next", "report", "end"}
      BY <1>6, <2>2, ApartOK DEF IInv
    <2> QED BY <2>1, <2>2, <2>3
  <1>9. TypeOK'
    BY <1>2, <1>4, <1>5 DEF IInv, TypeOK, Refs
  <1> QED BY <1>4, <1>6, <1>7, <1>8, <1>9, Assemble

\* A goroutine that is not in the middle of an instruction moves on.
LEMMA EndStep ==
    ASSUME IInv, NEW t \in Thread, End(t) \/ Finish(t) PROVE IInv'
  <1>1. /\ UNCHANGED <<at, stale, ref_count, heap, user, kept, ptr, target>>
        /\ pc[t] \in {"next", "end"}
        /\ pc' \in [Thread -> Steps] /\ pc'[t] \in {"end", "done"}
        /\ \A u \in Thread : u # t => pc'[u] = pc[u]
    BY DEF End, Finish, Ready, IInv, TypeOK, Steps
  <1>2. ASSUME NEW u \in Thread, u # t PROVE Apart(u)
    BY <1>1, <1>2 DEF Apart
  <1>3. CountedOK' /\ HeldIsLive' /\ UnusedOK'
    BY <1>1 DEF IInv, CountedOK, Num, HoldersIn, HeldIsLive, UnusedOK
  <1>4. StaleOK' /\ BuildsOK'
    BY <1>1, <1>2, QuietOK
  <1>5. ThreadOK(t)'
    BY <1>1 DEF IInv, ThreadOK
  <1>6. TypeOK'
    BY <1>1 DEF IInv, TypeOK
  <1> QED BY <1>2, <1>3, <1>4, <1>5, <1>6, Assemble

\* Nothing refers to anything when no place has a reference.
LEMMA EmptyCount ==
    ASSUME NEW f, \A p \in Place : f[p] = NULL
    PROVE  \A o \in Obj : Num(f, o) = 0
  <1> SUFFICES ASSUME NEW o \in Obj PROVE Num(f, o) = 0
    OBVIOUS
  <1>1. HoldersIn(f, o) = {}
    BY HeapAssumption DEF HoldersIn
  <1> QED BY <1>1, FS_EmptySet DEF Num

LEMMA ExitStep == ASSUME IInv, Exit PROVE IInv'
  <1>1. /\ at' = [p \in Place |-> NULL] /\ stale' = [p \in Items |-> NULL]
        /\ ref_count' = [o \in Obj |-> 0] /\ heap' = [o \in Obj |-> "unused"]
        /\ user' = [o \in Obj |-> "any"] /\ kept' = [o \in Obj |-> 0]
        /\ ptr' = [t \in Thread |-> NULL] /\ target' = [t \in Thread |-> NULL]
        /\ pc' = [t \in Thread |-> "done"]
    BY DEF Exit
  <1>2. \A o \in Obj : Num(at', o) = 0
    BY <1>1, EmptyCount
  <1>3. CountedOK'
    <2> SUFFICES ASSUME NEW o \in Obj PROVE ref_count'[o] = Num(at', o) + kept'[o]
      BY DEF CountedOK, Num, HoldersIn
    <2>1. ref_count'[o] = 0 /\ kept'[o] = 0 /\ Num(at', o) = 0
      BY <1>1, <1>2
    <2> QED BY ONLY <2>1
  <1>4. \A t \in Thread : ThreadOK(t)'
    BY <1>1 DEF ThreadOK
  <1>5. TypeOK'
    BY <1>1 DEF TypeOK, Steps
  <1>6. HeldIsLive' /\ UnusedOK' /\ StaleOK' /\ BuildsOK'
    BY <1>1 DEF HeldIsLive, UnusedOK, StaleOK, BuildsOK
  <1> QED BY <1>3, <1>4, <1>5, <1>6 DEF IInv

-----------------------------------------------------------------------------
(* The invariant and the theorems *)

LEMMA InitIInv == Init => IInv
  <1> SUFFICES ASSUME Init PROVE IInv
    OBVIOUS
  <1>1. \A o \in Obj : Num(at, o) = 0
    BY EmptyCount DEF Init
  <1>2. CountedOK
    BY <1>1 DEF Init, CountedOK
  <1>3. \A t \in Thread : ThreadOK(t)
    BY PlaceFacts DEF Init, ThreadOK
  <1>4. TypeOK
    BY DEF Init, TypeOK, Steps
  <1>5. HeldIsLive /\ UnusedOK /\ StaleOK /\ BuildsOK
    BY DEF Init, HeldIsLive, UnusedOK, StaleOK, BuildsOK
  <1> QED BY <1>2, <1>3, <1>4, <1>5 DEF IInv

LEMMA StutterIInv == IInv /\ UNCHANGED vars => IInv'
  <1> SUFFICES ASSUME IInv, UNCHANGED vars PROVE IInv'
    OBVIOUS
  <1>1. /\ at' = at /\ stale' = stale /\ ref_count' = ref_count /\ heap' = heap
        /\ user' = user /\ kept' = kept /\ pc' = pc /\ ptr' = ptr /\ target' = target
    BY DEF vars
  <1>2. \A t \in Thread : ThreadOK(t)'
    BY <1>1 DEF IInv, ThreadOK
  <1> QED BY <1>1, <1>2 DEF IInv, TypeOK, CountedOK, Num, HoldersIn, HeldIsLive,
             UnusedOK, StaleOK, BuildsOK

LEMMA NextIInv == Features = {} /\ IInv /\ [Next]_vars => IInv'
  <1> SUFFICES ASSUME Features = {}, IInv, [Next]_vars PROVE IInv'
    OBVIOUS
  <1>1. ASSUME NEW t \in Thread, Instruction(t) PROVE IInv'
    BY <1>1, LoadStep, DropStep, KeepStep, PushStep, NewStep, LoseStep, FillStep, GetStep,
       SetStep, DeleteStep, UnlinkStep, StoreStep, AppendStep, IndexErrorStep,
       ReportStep, SendStep, ReceiveStep, GoStep, BeginStep DEF Instruction
  <1>2. ASSUME NEW t \in Thread, Release(t) \/ End(t) \/ Finish(t) PROVE IInv'
    BY <1>2, ReleaseStep, EndStep
  <1>3. CASE Exit
    BY <1>3, ExitStep
  <1>4. CASE Exited \/ UNCHANGED vars
    BY <1>4, StutterIInv DEF Exited
  <1> QED BY <1>1, <1>2, <1>3, <1>4 DEF Next

LEMMA Invariance == ASSUME Features = {} PROVE Spec => []IInv
  <1>1. IInv /\ [Next]_vars => IInv'
    BY NextIInv
  <1> QED BY InitIInv, <1>1, PTL DEF Spec

\* Every variable has its type.
THEOREM TypeCorrect == ASSUME Features = {} PROVE Spec => []TypeOK
  <1>1. IInv => TypeOK
    BY DEF IInv
  <1> QED BY Invariance, <1>1, PTL

\* Retain and release keep every counter equal to the number of references that
\* variables, operands and other objects own and of those that instructions count
\* and forget, less the one that a temporary string is released without, whatever
\* the goroutines do.
THEOREM Exact == ASSUME Features = {} PROVE Spec => []CountExact
  <1>1. IInv => CountExact
    BY DEF IInv, CountedOK, CountExact, Num, Holders
  <1> QED BY Invariance, <1>1, PTL

\* No goroutine reaches a freed object, if the goroutines share what they write
\* through channels only.
THEOREM Safe == ASSUME Features = {} PROVE Spec => []NoDangling
  <1>1. IInv => NoDangling
    <2> SUFFICES ASSUME IInv PROVE NoDangling
      OBVIOUS
    <2>1. \A p \in Place : at[p] # NULL => heap[at[p]] = "live"
      BY DEF IInv, HeldIsLive
    <2>2. ASSUME NEW t \in Thread, ptr[t] # NULL PROVE heap[ptr[t]] = "live"
      <3>1. CASE pc[t] = "build"
        BY <3>1 DEF IInv, ThreadOK
      <3>2. CASE pc[t] \in {"get", "set"}
        <4>1. target[t] \in Place /\ at[target[t]] = ptr[t]
          BY <3>2, PlaceFacts DEF IInv, ThreadOK
        <4> QED BY <2>1, <2>2, <4>1
      <3>3. CASE pc[t] = "report"
        BY <2>1, <2>2, <3>3, PlaceFacts DEF IInv, ThreadOK
      <3> QED BY <2>2, <3>1, <3>2, <3>3 DEF IInv, ThreadOK
    <2> QED BY <2>1, <2>2 DEF NoDangling
  <1> QED BY Invariance, <1>1, PTL

Buried ==
    \A o \in Obj : heap[o] = "freed" => heap'[o] = "freed" /\ ref_count'[o] = ref_count[o]

LastGone ==
    \A o \in Obj : heap[o] = "live" /\ ref_count[o] > 0 /\ ref_count'[o] = 0 =>
        heap'[o] = "freed"

FreesWell == Buried /\ LastGone

\* Only counters of live objects are changed, and one that comes down to 0 frees
\* its object.
LEMMA FreedStep ==
    ASSUME Features = {}, IInv, Next, Running'
    PROVE  FreesWell
  <1>1. ASSUME NEW x \in Obj, heap[x] = "live", Retain(x), heap' = heap
        PROVE  FreesWell
    BY <1>1 DEF FreesWell, Buried, LastGone, Retain, IInv, TypeOK
  <1>2. ASSUME NEW t \in Thread, NEW x \in Obj, heap[x] = "live", Decrement(t, x)
        PROVE  FreesWell
    BY <1>2 DEF FreesWell, Buried, LastGone, Decrement, IInv, TypeOK
  <1>3. ASSUME heap' = heap, ref_count' = ref_count PROVE FreesWell
    BY <1>3 DEF FreesWell, Buried, LastGone
  <1>4. \A p \in Place : at[p] # NULL => at[p] \in Obj /\ heap[at[p]] = "live"
    BY HeldFacts
  <1>5. ASSUME NEW t \in Thread, Load(t) \/ Keep(t) PROVE FreesWell
    <2>1. PICK r \in Root(t) : at[r] # NULL /\ Retain(at[r])
      BY <1>5 DEF Load, Keep
    <2>2. heap' = heap
      BY <1>5 DEF Load, Keep
    <2> QED BY <1>1, <1>4, <2>1, <2>2, PlaceFacts
  <1>6. ASSUME NEW t \in Thread, AppendItem(t) \/ Send(t) PROVE FreesWell
    <2>1. PICK v \in Root(t) : at[v] # NULL /\ Retain(at[v])
      BY <1>6 DEF AppendItem, Send
    <2>2. heap' = heap
      BY <1>6 DEF AppendItem, Send
    <2> QED BY <1>1, <1>4, <2>1, <2>2, PlaceFacts
  <1>7. ASSUME NEW t \in Thread, Receive(t) PROVE FreesWell
    <2>1. PICK r \in Root(t) :
            at[r] # NULL /\ \E p \in Item(at[r]) : at[p] # NULL /\ Retain(at[p])
      BY <1>7 DEF Receive
    <2>2. PICK p \in Item(at[r]) : at[p] # NULL /\ Retain(at[p])
      BY <2>1
    <2>3. heap' = heap
      BY <1>7 DEF Receive
    <2>4. p \in Place
      BY <1>4, <2>1, PlaceFacts
    <2> QED BY <1>1, <1>4, <2>2, <2>3, <2>4
  <1>8. ASSUME NEW t \in Thread, Begin(t) PROVE FreesWell
    <2>1. at[Arg(t)] # NULL => Retain(at[Arg(t)])
      BY <1>8 DEF Begin
    <2>2. heap' = heap /\ (at[Arg(t)] = NULL => ref_count' = ref_count)
      BY <1>8 DEF Begin
    <2> QED BY <1>1, <1>3, <1>4, <2>1, <2>2, PlaceFacts
  <1>9. ASSUME NEW t \in Thread, Store(t) PROVE FreesWell
    <2>1. at[ValVar(t)] # NULL => Retain(at[ValVar(t)])
      BY <1>9 DEF Store
    <2>2. heap' = heap /\ (at[ValVar(t)] = NULL => ref_count' = ref_count)
      BY <1>9 DEF Store
    <2> QED BY <1>1, <1>3, <1>4, <2>1, <2>2, PlaceFacts
  <1>10. ASSUME NEW t \in Thread, Push(t) PROVE FreesWell
    <2>1. ptr[t] \in Obj /\ heap[ptr[t]] = "live"
      <3>1. CASE pc[t] = "build"
        BY <3>1 DEF IInv, ThreadOK
      <3>2. CASE pc[t] = "get"
        BY <1>4, <3>2, PlaceFacts, HeapAssumption DEF IInv, ThreadOK
      <3> QED BY <1>10, <3>1, <3>2 DEF Push
    <2> QED BY <1>1, <1>10, <2>1 DEF Push
  <1>11. ASSUME NEW t \in Thread, Unlink(t) PROVE FreesWell
    <2>1. ptr[t] \in Obj /\ heap[ptr[t]] = "live"
      BY <1>4, <1>11, PlaceFacts, HeapAssumption DEF Unlink, IInv, ThreadOK
    <2> QED BY <1>2, <1>11, <2>1 DEF Unlink
  <1>12. ASSUME NEW t \in Thread, Release(t) PROVE FreesWell
    <2>1. PICK p \in Dropped(t) : Decrement(t, at[p])
      BY <1>12 DEF Release
    <2>2. p \in Place /\ at[p] # NULL
      BY PlaceFacts DEF Dropped, FreeItems, Hand, Args
    <2> QED BY <1>2, <1>4, <2>1, <2>2
  <1>13. ASSUME NEW t \in Thread, New(t) PROVE FreesWell
    BY <1>13 DEF New, FreesWell, Buried, LastGone, IInv, TypeOK, UnusedOK
  <1>17. ASSUME NEW t \in Thread, Lose(t) PROVE FreesWell
    <2>1. ptr[t] \in Obj /\ heap[ptr[t]] = "live"
      BY <1>17 DEF Lose, IInv, ThreadOK
    <2>2. (heap' = heap /\ ref_count' = ref_count) \/ Decrement(t, ptr[t])
      BY <1>17 DEF Lose
    <2> QED BY <1>2, <1>3, <2>1, <2>2
  <1>14. ASSUME NEW t \in Thread,
                Drop(t) \/ Fill(t) \/ Get(t) \/ Set(t) \/ Delete(t) \/ Go(t)
                \/ IndexError(t) \/ Report(t) \/ End(t) \/ Finish(t)
         PROVE  FreesWell
    BY <1>3, <1>14 DEF Drop, Fill, Get, Set, Delete, Go, IndexError, Report, End, Finish
  <1>15. ~Exit
    BY HeapAssumption DEF Exit, Running
  <1>16. CASE Exited
    BY <1>3, <1>16 DEF Exited, vars
  <1> QED BY <1>5, <1>6, <1>7, <1>8, <1>9, <1>10, <1>11, <1>12, <1>13, <1>14,
             <1>15, <1>16, <1>17 DEF Next, Instruction

\* A reference is forgotten in steps that move none.
LEMMA KeptStep == ASSUME Next, Running' PROVE kept' = kept \/ at' = at
  <1>1. ASSUME NEW t \in Thread, Instruction(t) PROVE kept' = kept \/ at' = at
    <2>1. CASE Load(t) \/ Drop(t) \/ Push(t) \/ Fill(t) \/ Get(t) \/ Set(t) \/ Delete(t)
      BY <2>1 DEF Load, Drop, Push, Fill, Get, Set, Delete
    <2>2. CASE Unlink(t) \/ Store(t) \/ AppendItem(t) \/ IndexError(t) \/ Report(t)
               \/ Send(t) \/ Receive(t) \/ Go(t) \/ Begin(t)
      BY <2>2 DEF Unlink, Store, AppendItem, IndexError, Report, Send, Receive, Go, Begin
    <2>3. CASE Keep(t) \/ New(t) \/ Lose(t)
      BY <2>3 DEF Keep, New, Lose
    <2> QED BY <1>1, <2>1, <2>2, <2>3 DEF Instruction
  <1>2. ASSUME NEW t \in Thread, Release(t) \/ End(t) \/ Finish(t) PROVE kept' = kept
    BY <1>2 DEF Release, End, Finish
  <1>3. ~Exit
    BY HeapAssumption DEF Exit, Running
  <1> QED BY <1>1, <1>2, <1>3 DEF Next, Exited, vars

Freed ==
    \A o \in Obj :
        Referred(at, o) /\ kept[o] = 0 /\ ~Referred(at', o) => heap'[o] = "freed"

LEMMA ReclaimStep ==
    ASSUME Features = {}, IInv, IInv', Next, Running'
    PROVE  Freed
  <1> SUFFICES ASSUME NEW o \in Obj, Referred(at, o), kept[o] = 0, ~Referred(at', o)
               PROVE  heap'[o] = "freed"
    BY DEF Freed
  <1>1. PICK p \in Place : at[p] = o
    BY DEF Referred
  <1>2. heap[o] = "live" /\ ref_count[o] > 0
    BY <1>1, HeldFacts, HeapAssumption
  <1>3. kept'[o] = 0
    BY KeptStep DEF Referred
  <1>4. Num(at', o) = 0
    <2>1. HoldersIn(at', o) = {}
      BY DEF HoldersIn, Referred
    <2> QED BY <2>1, FS_EmptySet DEF Num
  <1>5. ref_count'[o] = Num(at', o) + kept'[o]
    BY DEF IInv, CountedOK, Num, HoldersIn
  <1>6. ref_count'[o] = 0
    BY ONLY <1>3, <1>4, <1>5
  <1> QED BY <1>2, <1>6, FreedStep DEF FreesWell, LastGone

\* The step that gives up the last reference frees the object, unless references
\* to it were counted and forgotten: in any interleaving of the goroutines, one of
\* them sees that it has taken the last one.
THEOREM Reclaims == ASSUME Features = {} PROVE Spec => Reclaimed
  <1> DEFINE Step == Running' => Freed
  <1>1. IInv /\ IInv' /\ [Next]_vars => [Step]_vars
    BY ReclaimStep
  <1>2. [Step]_vars <=> [Running' => \A o \in Obj :
            Referred(at, o) /\ kept[o] = 0 /\ ~Referred(at', o) => heap'[o] = "freed"]_vars
    BY DEF Freed
  <1> HIDE DEF Step
  <1>3. Spec => [][Step]_vars
    BY Invariance, <1>1, PTL DEF Spec
  <1> QED BY <1>2, <1>3, PTL DEF Reclaimed

\* An object is freed once: its counter is not touched after that.
THEOREM NeverFreedTwice == ASSUME Features = {} PROVE Spec => FreedOnce
  <1> DEFINE Step == Running' => Buried
  <1>1. IInv /\ [Next]_vars => [Step]_vars
    BY FreedStep DEF FreesWell
  <1>2. [Step]_vars <=> [Running' => \A o \in Obj : heap[o] = "freed" =>
                            heap'[o] = "freed" /\ ref_count'[o] = ref_count[o]]_vars
    BY DEF Buried
  <1> HIDE DEF Step
  <1>3. Spec => [][Step]_vars
    BY Invariance, <1>1, PTL DEF Spec
  <1> QED BY <1>2, <1>3, PTL DEF FreedOnce
=============================================================================
