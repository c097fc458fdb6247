---------------------------- MODULE OpoMapProofs ----------------------------
(***************************************************************************)
(* Theorems on OpoMap, for any set of keys, any hash function and any      *)
(* initial capacity: the table is never full, its counter is right, a key  *)
(* is found exactly when the map holds it, and the table implements the    *)
(* map of MapSpec.                                                         *)
(***************************************************************************)
EXTENDS OpoMap, FiniteSetTheorems, WellFoundedInduction, TLAPS

(* Numbers *)

LEMMA ModRange ==
    ASSUME NEW c \in Nat \ {0}, NEW h \in Nat
    PROVE  h % c \in 0 .. c - 1
OBVIOUS

LEMMA Following ==
    ASSUME NEW c \in Nat \ {0}, NEW x \in 0 .. c - 1
    PROVE  (x + 1) % c = IF x + 1 = c THEN 0 ELSE x + 1
OBVIOUS

LEMMA Halves ==
    ASSUME NEW m \in Nat
    PROVE  (2 * m) \div 2 = m
OBVIOUS

\* A set of natural numbers that has an element has a least one.
LEMMA LeastOf ==
    ASSUME NEW D \in SUBSET Nat, D # {}
    PROVE  \E d \in D : \A e \in D : d <= e
<1> DEFINE R == OpToRel(<, Nat)
<1>1. IsWellFoundedOn(R, Nat)
  BY NatLessThanWellFounded
<1>2. PICK d \in D : \A e \in D : ~ (<<e, d>> \in R)
  <2> HIDE DEF R
  <2> QED
    BY <1>1, WFMin
<1>3. ASSUME NEW e \in D
      PROVE  d <= e
  <2>1. d \in Nat /\ e \in Nat /\ <<e, d>> \in Nat \X Nat
    OBVIOUS
  <2>2. ~ (e < d)
    BY <1>2, <2>1 DEF OpToRel
  <2> QED
    BY <2>1, <2>2
<1> QED
  BY <1>3

-----------------------------------------------------------------------------
(* Probing *)

\* the table has positions, and keys have their home among them
Table ==
    /\ capacity \in Nat /\ capacity >= 4
    /\ entries \in [Position -> Entry \cup {Unused}]

LEMMA HomeInTable ==
    ASSUME Table, NEW k \in Keys
    PROVE  Home(k) \in Position
<1>1. Hash[k] \in Nat /\ capacity \in Nat \ {0}
  BY MapAssumption DEF Table
<1> QED
  BY <1>1, ModRange DEF Home, Position

\* The probing loops stop in a table that has an unused entry, and where they do.
LEMMA ProbeStops ==
    ASSUME Table, NEW k \in Keys, NEW r \in Position, Stops(k, r)
    PROVE  /\ Probe(k) \in Position
           /\ Stops(k, Probe(k))
           /\ \A q \in Path(Home(k), Probe(k)) : ~Stops(k, q)
<1> DEFINE h == Home(k)
           Far(p) == IF h <= p THEN p - h ELSE p - h + capacity
           D == {Far(p) : p \in {q \in Position : Stops(k, q)}}
<1>1. h \in Position /\ capacity \in Nat
  BY HomeInTable DEF Table
<1> HIDE DEF h
<1>2. \A p \in Position : Far(p) \in Nat
  BY <1>1 DEF Position
<1>3. D \in SUBSET Nat /\ D # {}
  BY <1>2
<1>4. PICK d \in D : \A e \in D : d <= e
  <2> HIDE DEF D
  <2> QED
    BY <1>3, LeastOf
<1>5. PICK p \in Position : Stops(k, p) /\ d = Far(p)
  BY <1>4
<1>6. ASSUME NEW q \in Path(h, p), Stops(k, q)
      PROVE  FALSE
  <2>1. q \in Position
    BY <1>6 DEF Path
  <2>2. Far(p) <= Far(q)
    BY <1>4, <1>5, <1>6, <2>1
  <2> QED
    BY <1>1, <1>5, <1>6, <2>1, <2>2 DEF Path, Position
<1> QED
  BY <1>5, <1>6 DEF Probe, h

-----------------------------------------------------------------------------
(* The type invariant *)

\* the table that map_set copies, which had half the capacity
Copied ==
    \E m \in Nat : /\ capacity = 2 * m /\ m >= 4
                   /\ old \in [0 .. m - 1 -> Entry \cup {Unused}]
                   /\ i \in 0 .. m
                   /\ count + Cardinality(Waiting) < m

\* what each operation under way keeps in its variables, and the room it needs
Stage ==
    /\ pc \in {"idle", "store", "rehash", "shift"}
    /\ pc \in {"idle", "shift"} => new = Unused
    /\ pc \in {"store", "rehash"} => new \in Entry
    /\ pc = "rehash" => Copied
    /\ pc # "rehash" => old = <<>>
    /\ pc \in {"idle", "store"} => i = 0
    /\ pc # "shift" => j = 0
    /\ pc = "shift" => i \in Position /\ j \in Position /\ entries[i] # Unused
    /\ pc = "idle" => count < capacity
    /\ pc \in {"store", "shift"} => count < capacity - 1

Counted == count = Cardinality(Used)

TInv == Table /\ Stage /\ Counted

LEMMA UsedFinite ==
    ASSUME Table
    PROVE  /\ IsFiniteSet(Position) /\ Cardinality(Position) = capacity
           /\ IsFiniteSet(Used) /\ Cardinality(Used) \in Nat
<1>1. IsFiniteSet(Position) /\ Cardinality(Position) = capacity
  <2>1. 0 \in Int /\ capacity - 1 \in Int
    BY DEF Table
  <2> QED
    BY <2>1, FS_Interval DEF Table, Position
<1>2. Used \in SUBSET Position
  BY DEF Used
<1> QED
  BY <1>1, <1>2, FS_Subset, FS_CardinalityType

LEMMA WaitingFinite ==
    ASSUME NEW m \in Nat, old \in [0 .. m - 1 -> Entry \cup {Unused}]
    PROVE  IsFiniteSet(Waiting) /\ Cardinality(Waiting) \in Nat
<1>1. Waiting \in SUBSET (0 .. m - 1) /\ m - 1 \in Int /\ 0 \in Int
  BY DEF Waiting
<1>2. IsFiniteSet(0 .. m - 1)
  BY <1>1, FS_Interval
<1>3. IsFiniteSet(Waiting)
  BY <1>1, <1>2, FS_Subset
<1> QED
  BY <1>3, FS_CardinalityType

\* In every state some entry is unused, so that every probing loop stops.
LEMMA Room ==
    ASSUME TInv
    PROVE  \E p \in Position : entries[p] = Unused
<1> SUFFICES ASSUME \A p \in Position : entries[p] # Unused
             PROVE  FALSE
  OBVIOUS
<1>1. /\ IsFiniteSet(Position) /\ Cardinality(Position) = capacity
      /\ IsFiniteSet(Used) /\ count = Cardinality(Used) /\ count \in Nat
      /\ capacity \in Nat
  BY UsedFinite DEF TInv, Counted, Table
<1>2. CASE pc = "shift"
  <2>1. Used = Position \ {i} /\ i \in Position
    BY <1>2 DEF Used, TInv, Stage
  <2>2. Cardinality(Used) = capacity - 1
    BY <1>1, <2>1, FS_RemoveElement
  <2> QED
    BY <1>1, <1>2, <2>2 DEF TInv, Stage
<1>3. CASE pc = "rehash"
  <2>1. Used = Position
    BY <1>3 DEF Used
  <2>2. PICK m \in Nat : /\ capacity = 2 * m /\ m >= 4
                         /\ old \in [0 .. m - 1 -> Entry \cup {Unused}]
                         /\ count + Cardinality(Waiting) < m
    BY <1>3 DEF TInv, Stage, Copied
  <2>3. Cardinality(Waiting) \in Nat
    BY <2>2, WaitingFinite
  <2> QED
    BY <1>1, <2>1, <2>2, <2>3
<1>4. CASE pc \in {"idle", "store"}
  <2>1. Used = Position
    BY <1>4 DEF Used
  <2>2. count < capacity
    BY <1>1, <1>4 DEF TInv, Stage
  <2> QED
    BY <1>1, <2>1, <2>2
<1> QED
  BY <1>2, <1>3, <1>4 DEF TInv, Stage

LEMMA ProbeFacts ==
    ASSUME TInv, NEW k \in Keys
    PROVE  /\ Probe(k) \in Position
           /\ Stops(k, Probe(k))
           /\ \A q \in Path(Home(k), Probe(k)) : ~Stops(k, q)
<1>1. PICK r \in Position : entries[r] = Unused
  BY Room
<1>2. Stops(k, r)
  BY <1>1 DEF Stops
<1> QED
  BY <1>2, ProbeStops DEF TInv

\* Storing an entry keeps the counter right.
LEMMA StoreCounts ==
    ASSUME TInv, NEW e \in Entry, Store(e), pc # "shift", pc' # "shift",
           capacity' = capacity
    PROVE  Table' /\ Counted' /\ count \in Nat /\ count' \in {count, count + 1}
<1> DEFINE p == Probe(e.key)
<1>1. e.key \in Keys
  BY DEF Entry
<1>2. p \in Position
  BY <1>1, ProbeFacts
<1>3. /\ entries' = [entries EXCEPT ![p] = e]
      /\ count' = IF entries[p] = Unused THEN count + 1 ELSE count
  BY DEF Store
<1> HIDE DEF p
<1>4. Position' = Position /\ e # Unused
  BY MapAssumption DEF Position
<1>5. Table'
  BY <1>2, <1>3, <1>4 DEF Table, TInv
<1>6. Used' = Used \cup {p}
  BY <1>2, <1>3, <1>4 DEF Used, Table, TInv
<1>7. p \in Used <=> entries[p] # Unused
  BY <1>2 DEF Used
<1>8. IsFiniteSet(Used) /\ count = Cardinality(Used) /\ count \in Nat
  BY UsedFinite DEF TInv, Counted
<1> QED
  BY <1>3, <1>5, <1>6, <1>7, <1>8, FS_AddElement DEF Counted

LEMMA InitTInv == Init => TInv
<1> SUFFICES ASSUME Init PROVE TInv
  OBVIOUS
<1>1. Table
  BY MapAssumption DEF Init, Table, Empty, Position
<1>2. Used = {}
  BY DEF Init, Used, Empty, Position
<1>3. Counted
  BY <1>2, FS_EmptySet DEF Counted, Init
<1>4. Stage
  BY MapAssumption DEF Init, Stage
<1> QED
  BY <1>1, <1>3, <1>4 DEF TInv

\* Growing takes all entries to the old table, and the loop has not come to any.
LEMMA GrowTInv ==
    ASSUME TInv, NEW e \in Entry, Set(e), Full
    PROVE  TInv' /\ Used' = {} /\ Waiting' = Used /\ old' = entries
<1>1. /\ pc = "idle" /\ pc' = "rehash" /\ new' = e /\ i' = i /\ j' = j
      /\ old' = entries /\ entries' = Empty(2 * capacity)
      /\ capacity' = 2 * capacity /\ count' = 0
  BY DEF Set, Grow
<1>2. /\ capacity \in Nat /\ capacity >= 4 /\ i = 0 /\ j = 0 /\ count < capacity
      /\ entries \in [0 .. capacity - 1 -> Entry \cup {Unused}]
  BY <1>1 DEF TInv, Table, Stage, Position
<1>3. Table'
  BY <1>1, <1>2 DEF Table, Empty, Position
<1>4. Used' = {}
  BY <1>1 DEF Used, Empty, Position
<1>5. Counted'
  BY <1>1, <1>4, FS_EmptySet DEF Counted
<1>6. Waiting' = Used
  BY <1>1, <1>2 DEF Waiting, Used, Position
<1>7. count' + Cardinality(Waiting') < capacity
  <2>1. Cardinality(Waiting') = count /\ count \in Nat
    BY <1>6, UsedFinite DEF TInv, Counted
  <2> QED
    BY <1>1, <1>2, <2>1
<1>8. Copied'
  BY <1>1, <1>2, <1>7 DEF Copied
<1>9. Stage'
  BY <1>1, <1>2, <1>8 DEF Stage
<1> QED
  BY <1>1, <1>3, <1>4, <1>5, <1>6, <1>9 DEF TInv

LEMMA SetTInv ==
    ASSUME TInv, NEW e \in Entry, Set(e)
    PROVE  TInv'
<1>1. CASE Full
  BY <1>1, GrowTInv
<1>2. CASE ~Full
  <2>1. /\ pc = "idle" /\ pc' = "store" /\ new' = e
        /\ UNCHANGED <<entries, capacity, count, old, i, j>>
    BY <1>2 DEF Set
  <2>2. Table' /\ Used' = Used /\ Position' = Position
    BY <2>1 DEF Table, Used, Position, TInv
  <2>3. Counted'
    BY <2>1, <2>2 DEF Counted, TInv
  <2>4. count < capacity - 1
    <3>1. capacity \in Nat /\ capacity >= 4 /\ count \in Nat
      BY UsedFinite DEF TInv, Table, Counted
    <3> QED
      BY <1>2, <3>1 DEF Full
  <2>5. Stage'
    BY <2>1, <2>4 DEF Stage, TInv
  <2> QED
    BY <2>2, <2>3, <2>5 DEF TInv
<1> QED
  BY <1>1, <1>2

LEMMA RehashTInv ==
    ASSUME TInv, Rehash
    PROVE  TInv'
<1>1. /\ pc = "rehash" /\ pc' = "rehash" /\ i' = i + 1 /\ i \in DOMAIN old
      /\ UNCHANGED <<capacity, j, old, new>>
  BY DEF Rehash
<1>2. PICK m \in Nat : /\ capacity = 2 * m /\ m >= 4
                       /\ old \in [0 .. m - 1 -> Entry \cup {Unused}]
                       /\ i \in 0 .. m
                       /\ count + Cardinality(Waiting) < m
  BY <1>1 DEF TInv, Stage, Copied
<1>3. i \in 0 .. m - 1 /\ count \in Nat
  BY <1>1, <1>2, UsedFinite DEF TInv, Counted
<1>4. IsFiniteSet(Waiting) /\ Cardinality(Waiting) \in Nat
  BY <1>2, WaitingFinite
<1>5. Waiting' = Waiting \ {i}
  BY <1>1, <1>2, <1>3 DEF Waiting
<1>6. /\ Table' /\ Counted' /\ count' \in Nat
      /\ count' + Cardinality(Waiting') < m
  <2>1. CASE old[i] = Unused
    <3>1. UNCHANGED <<entries, count>>
      BY <2>1 DEF Rehash
    <3>2. Table' /\ Used' = Used
      BY <1>1, <3>1 DEF Table, Used, Position, TInv
    <3>3. Waiting' = Waiting
      BY <1>5, <2>1 DEF Waiting
    <3> QED
      BY <1>2, <1>3, <3>1, <3>2, <3>3 DEF Counted, TInv
  <2>2. CASE old[i] # Unused
    <3>1. Store(old[i]) /\ old[i] \in Entry
      BY <1>2, <1>3, <2>2 DEF Rehash
    <3>2. Table' /\ Counted' /\ count' \in {count, count + 1}
      BY <1>1, <3>1, StoreCounts
    <3>3. i \in Waiting
      BY <1>2, <1>3, <2>2 DEF Waiting
    <3>4. Cardinality(Waiting') = Cardinality(Waiting) - 1
      BY <1>4, <1>5, <3>3, FS_RemoveElement
    <3> QED
      BY <1>2, <1>3, <1>4, <3>2, <3>4
  <2> QED
    BY <2>1, <2>2
<1>7. Copied'
  BY <1>1, <1>2, <1>3, <1>6 DEF Copied
<1>8. Stage'
  BY <1>1, <1>7 DEF Stage, TInv
<1> QED
  BY <1>6, <1>8 DEF TInv

LEMMA EndRehashTInv ==
    ASSUME TInv, EndRehash
    PROVE  TInv' /\ Waiting = {} /\ Used' = Used
<1>1. /\ pc = "rehash" /\ pc' = "store" /\ i' = 0 /\ i \notin DOMAIN old /\ old' = <<>>
      /\ UNCHANGED <<entries, capacity, count, j, new>>
  BY DEF EndRehash
<1>2. PICK m \in Nat : /\ capacity = 2 * m /\ m >= 4
                       /\ old \in [0 .. m - 1 -> Entry \cup {Unused}]
                       /\ i \in 0 .. m
                       /\ count + Cardinality(Waiting) < m
  BY <1>1 DEF TInv, Stage, Copied
<1>3. Waiting = {}
  BY <1>1, <1>2 DEF Waiting
<1>4. Cardinality(Waiting) = 0 /\ count \in Nat
  BY <1>3, FS_EmptySet, UsedFinite DEF TInv, Counted
<1>5. Table' /\ Used' = Used
  BY <1>1 DEF Table, Used, Position, TInv
<1>6. Counted'
  BY <1>1, <1>5 DEF Counted, TInv
<1>7. count < capacity - 1
  BY <1>2, <1>4
<1>8. Stage'
  BY <1>1, <1>7 DEF Stage, TInv
<1> QED
  BY <1>3, <1>5, <1>6, <1>8 DEF TInv

LEMMA EndSetTInv ==
    ASSUME TInv, EndSet
    PROVE  TInv'
<1>1. /\ pc = "store" /\ pc' = "idle" /\ new' = Unused /\ Store(new)
      /\ UNCHANGED <<capacity, i, j, old>>
  BY DEF EndSet
<1>2. new \in Entry /\ count < capacity - 1 /\ i = 0 /\ j = 0 /\ old = <<>>
  BY <1>1 DEF TInv, Stage
<1>3. Table' /\ Counted' /\ count \in Nat /\ count' \in {count, count + 1}
  BY <1>1, <1>2, StoreCounts
<1>4. count' < capacity' /\ capacity \in Nat
  BY <1>1, <1>2, <1>3 DEF TInv, Table
<1>5. Stage'
  BY <1>1, <1>2, <1>4 DEF Stage
<1> QED
  BY <1>3, <1>5 DEF TInv

LEMMA DeleteTInv ==
    ASSUME TInv, NEW k \in Keys, Delete(k)
    PROVE  /\ TInv'
           /\ Probe(k) \in Used /\ entries[Probe(k)].key = k
           /\ Used' = Used \ {Probe(k)}
<1>1. /\ pc = "idle" /\ pc' = "shift" /\ count' = count - 1
      /\ i' = Probe(k) /\ j' = Probe(k) /\ entries[Probe(k)] # Unused
      /\ UNCHANGED <<entries, capacity, old, new>>
  BY DEF Delete
<1>2. Probe(k) \in Position /\ Stops(k, Probe(k))
  BY ProbeFacts
<1>3. Probe(k) \in Used /\ entries[Probe(k)].key = k
  BY <1>1, <1>2 DEF Used, Stops
<1>4. Used' = Used \ {Probe(k)} /\ Position' = Position
  BY <1>1 DEF Used, Position
<1>5. Table'
  BY <1>1 DEF Table, Position, TInv
<1>6. IsFiniteSet(Used) /\ count = Cardinality(Used) /\ count \in Nat
  BY UsedFinite DEF TInv, Counted
<1>7. Counted'
  BY <1>1, <1>3, <1>4, <1>6, FS_RemoveElement DEF Counted
<1>8. count' < capacity' - 1
  BY <1>1, <1>6 DEF TInv, Table, Stage
<1>9. Stage'
  BY <1>1, <1>2, <1>4, <1>8 DEF Stage, TInv
<1> QED
  BY <1>3, <1>4, <1>5, <1>7, <1>9 DEF TInv

\* the position behind p
After(p) == IF p + 1 = capacity THEN 0 ELSE p + 1

\* The three ways a step of native_delete's loop may go.
LEMMA ShiftCases ==
    ASSUME TInv, Shift
    PROVE  LET n == After(j)
           IN  /\ pc = "shift" /\ n \in Position
               /\ UNCHANGED <<capacity, count, old, new>>
               /\ \/ /\ entries[n] = Unused
                     /\ entries' = [entries EXCEPT ![i] = Unused]
                     /\ pc' = "idle" /\ i' = 0 /\ j' = 0
                  \/ /\ entries[n] # Unused
                     /\ Between(i, Home(entries[n].key), n)
                     /\ pc' = "shift" /\ j' = n
                     /\ UNCHANGED <<entries, i>>
                  \/ /\ entries[n] # Unused
                     /\ ~Between(i, Home(entries[n].key), n)
                     /\ entries' = [entries EXCEPT ![i] = entries[n]]
                     /\ pc' = "shift" /\ i' = n /\ j' = n
<1>1. pc = "shift" /\ j \in Position /\ capacity \in Nat \ {0}
  BY DEF Shift, TInv, Stage, Table
<1>2. (j + 1) % capacity = After(j)
  BY <1>1, Following DEF Position, After
<1>3. After(j) \in Position
  BY <1>1 DEF After, Position
<1> QED
  BY <1>1, <1>2, <1>3 DEF Shift

LEMMA ShiftTInv ==
    ASSUME TInv, Shift
    PROVE  TInv'
<1> DEFINE n == After(j)
<1>1. /\ pc = "shift" /\ n \in Position
      /\ UNCHANGED <<capacity, count, old, new>>
  BY ShiftCases
<1>2. /\ i \in Position /\ j \in Position /\ entries[i] # Unused
      /\ count < capacity - 1 /\ old = <<>> /\ new = Unused
      /\ entries \in [Position -> Entry \cup {Unused}]
      /\ capacity \in Nat
  BY <1>1 DEF TInv, Stage, Table
<1>3. /\ Position' = Position
      /\ IsFiniteSet(Used) /\ count = Cardinality(Used) /\ count \in Nat
  BY <1>1, UsedFinite DEF TInv, Counted, Position
<1>4. CASE /\ entries[n] = Unused
           /\ entries' = [entries EXCEPT ![i] = Unused]
           /\ pc' = "idle" /\ i' = 0 /\ j' = 0
  <2> HIDE DEF n
  <2>1. Table'
    BY <1>1, <1>2, <1>3, <1>4 DEF Table, TInv
  <2>2. Used' = Used
    BY <1>1, <1>2, <1>3, <1>4 DEF Used
  <2>3. Counted'
    BY <1>1, <2>2 DEF Counted, TInv
  <2>4. Stage'
    BY <1>1, <1>2, <1>3, <1>4 DEF Stage
  <2> QED
    BY <2>1, <2>3, <2>4 DEF TInv
<1>5. CASE /\ entries[n] # Unused
           /\ pc' = "shift" /\ j' = n
           /\ UNCHANGED <<entries, i>>
  <2> HIDE DEF n
  <2>1. Table' /\ Used' = Used
    BY <1>1, <1>3, <1>5 DEF Table, TInv, Used
  <2>2. Counted'
    BY <1>1, <2>1 DEF Counted, TInv
  <2>3. Stage'
    BY <1>1, <1>2, <1>3, <1>5 DEF Stage
  <2> QED
    BY <2>1, <2>2, <2>3 DEF TInv
<1>6. CASE /\ entries[n] # Unused
           /\ entries' = [entries EXCEPT ![i] = entries[n]]
           /\ pc' = "shift" /\ i' = n /\ j' = n
  <2> HIDE DEF n
  <2>1. Table'
    BY <1>1, <1>2, <1>3, <1>6 DEF Table, TInv
  <2>2. entries'[n] # Unused
    BY <1>1, <1>2, <1>6
  <2>3. Stage'
    BY <1>1, <1>2, <1>3, <1>6, <2>2 DEF Stage
  <2>4. Cardinality(Used') = Cardinality(Used)
    <3>1. CASE n = i
      <4>1. Used' = Used
        BY <1>1, <1>2, <1>3, <1>6, <3>1 DEF Used
      <4> QED
        BY <4>1
    <3>2. CASE n # i
      <4>1. Used' = (Used \ {n}) \cup {i}
        BY <1>1, <1>2, <1>3, <1>6, <3>2 DEF Used
      <4>2. n \in Used /\ i \notin Used
        BY <1>1, <1>6, <3>2 DEF Used
      <4>3. /\ IsFiniteSet(Used \ {n})
            /\ Cardinality(Used \ {n}) = count - 1
        BY <1>3, <4>2, FS_RemoveElement
      <4>4. i \notin Used \ {n}
        BY <4>2
      <4>5. Cardinality((Used \ {n}) \cup {i}) = count - 1 + 1
        BY <4>3, <4>4, FS_AddElement
      <4> QED
        BY <1>3, <4>1, <4>5
    <3> QED
      BY <3>1, <3>2
  <2>5. Counted'
    BY <1>1, <2>4 DEF Counted, TInv
  <2> QED
    BY <2>1, <2>3, <2>5 DEF TInv
<1> QED
  BY <1>4, <1>5, <1>6, ShiftCases

LEMMA NextTInv == TInv /\ [Next]_vars => TInv'
<1> SUFFICES ASSUME TInv, [Next]_vars PROVE TInv'
  OBVIOUS
<1>1. CASE Rehash
  BY <1>1, RehashTInv
<1>2. CASE EndRehash
  BY <1>2, EndRehashTInv
<1>3. CASE EndSet
  BY <1>3, EndSetTInv
<1>4. CASE Shift
  BY <1>4, ShiftTInv
<1>5. ASSUME NEW e \in Entry, Set(e)
      PROVE  TInv'
  BY <1>5, SetTInv
<1>6. ASSUME NEW k \in Keys, Delete(k)
      PROVE  TInv'
  BY <1>6, DeleteTInv
<1>7. CASE UNCHANGED vars
  <2>1. Table' /\ Position' = Position /\ Used' = Used /\ Waiting' = Waiting
    BY <1>7 DEF vars, Table, Position, Used, Waiting, TInv
  <2>2. Counted' /\ Stage'
    BY <1>7, <2>1 DEF vars, Counted, Stage, Copied, TInv
  <2> QED
    BY <2>1, <2>2 DEF TInv
<1> QED
  BY <1>1, <1>2, <1>3, <1>4, <1>5, <1>6, <1>7 DEF Next, GoOn

LEMMA TypeOfTInv == TInv => TypeOK
<1> SUFFICES ASSUME TInv PROVE TypeOK
  OBVIOUS
<1>1. /\ capacity \in Nat /\ capacity >= 4 /\ count \in Nat
      /\ entries \in [Position -> Entry \cup {Unused}]
  BY UsedFinite DEF TInv, Table, Counted
<1>2. CASE pc = "rehash"
  <2>1. PICK m \in Nat : /\ capacity = 2 * m /\ m >= 4
                         /\ old \in [0 .. m - 1 -> Entry \cup {Unused}]
                         /\ i \in 0 .. m
                         /\ count + Cardinality(Waiting) < m
    BY <1>2 DEF TInv, Stage, Copied
  <2>2. Cardinality(Waiting) \in Nat
    BY <2>1, WaitingFinite
  <2>3. capacity \div 2 = m
    BY <2>1, Halves
  <2>4. count \in 0 .. capacity - 1 /\ i \in 0 .. capacity - 1 /\ j \in Position
    BY <1>1, <1>2, <2>1, <2>2 DEF TInv, Stage, Position
  <2>5. old \in [0 .. (capacity \div 2) - 1 -> Entry \cup {Unused}]
    BY <2>1, <2>3
  <2> QED
    BY <1>1, <1>2, <2>4, <2>5 DEF TypeOK, TInv, Stage
<1>3. CASE pc # "rehash"
  <2>1. count \in 0 .. capacity - 1 /\ i \in 0 .. capacity - 1 /\ j \in Position
    BY <1>1, <1>3 DEF TInv, Stage, Position
  <2> QED
    BY <1>1, <1>3, <2>1 DEF TypeOK, TInv, Stage
<1> QED
  BY <1>2, <1>3

\* Every variable keeps its type, for any keys, hash function and capacity: no
\* index leaves the table, and the table always has room for one entry more,
\* so that the probing loops end.
THEOREM TypeCorrect == Spec => []TypeOK
<1>1. Spec => []TInv
  BY InitTInv, NextTInv, PTL DEF Spec
<1> QED
  BY <1>1, TypeOfTInv, PTL

-----------------------------------------------------------------------------
(* Where the entries are *)

\* no key has two entries, in the table and in what is left of the old one
Distinct ==
    /\ \A p, q \in Used : entries[p].key = entries[q].key => p = q
    /\ \A p, q \in Waiting : old[p].key = old[q].key => p = q
    /\ \A p \in Used, q \in Waiting : entries[p].key # old[q].key

\* nothing between an entry and the home of its key is unused
Reachable ==
    \A p \in Used : \A q \in Path(Home(entries[p].key), p) : entries[q] # Unused

\* While a deletion moves entries, what lies between the hole and the entry it
\* has come to is used, and of that nothing needs the hole to be reached.
AroundHole ==
    pc = "shift" =>
        /\ \A q \in Path(i, j) \cup {j} : entries[q] # Unused
        /\ \A p \in Used : Between(i, p, j) => i \notin Path(Home(entries[p].key), p)

Placed == Distinct /\ Reachable /\ AroundHole

LEMMA KeysInTable ==
    ASSUME TInv, NEW p \in Used
    PROVE  /\ p \in Position /\ entries[p] \in Entry /\ entries[p].key \in Keys
           /\ Home(entries[p].key) \in Position
<1>1. p \in Position /\ entries[p] \in Entry
  BY DEF Used, TInv, Table
<1>2. entries[p].key \in Keys
  BY <1>1 DEF Entry
<1> QED
  BY <1>1, <1>2, HomeInTable DEF TInv

\* A key that has an entry is found there.
LEMMA FoundAt ==
    ASSUME TInv, Placed, Comparable = Keys, pc # "shift", NEW p \in Used
    PROVE  Probe(entries[p].key) = p
<1> DEFINE k == entries[p].key
           h == Home(k)
           r == Probe(k)
<1>1. p \in Position /\ k \in Keys /\ h \in Position /\ entries[p] # Unused
  BY KeysInTable DEF Used
<1>2. r \in Position /\ Stops(k, r) /\ \A q \in Path(h, r) : ~Stops(k, q)
  BY <1>1, ProbeFacts
<1>3. Stops(k, p)
  BY <1>1 DEF Stops
<1>4. \A q \in Path(h, p) : entries[q] # Unused
  BY DEF Placed, Reachable
<1>5. CASE entries[r] = Unused
  <2>1. r \notin Path(h, p) /\ p \notin Path(h, r) /\ r # p
    BY <1>1, <1>2, <1>3, <1>4, <1>5
  <2> HIDE DEF h, r
  <2> QED
    BY <1>1, <1>2, <2>1 DEF Path, Position, TInv, Table
<1>6. CASE entries[r] # Unused
  <2>1. r \in Used /\ entries[r].key = k
    BY <1>2, <1>6 DEF Used, Stops
  <2> QED
    BY <2>1 DEF Placed, Distinct
<1> QED
  BY <1>5, <1>6

\* What map_set does to the table: its entry replaces the one of its key, or
\* takes a place that was unused, and every entry stays reachable.
LEMMA StorePlaced ==
    ASSUME TInv, Placed, Comparable = Keys, NEW e \in Entry, Store(e),
           pc # "shift", pc' # "shift", capacity' = capacity
    PROVE  /\ Probe(e.key) \in Position
           /\ Used' = Used \cup {Probe(e.key)}
           /\ entries' = [entries EXCEPT ![Probe(e.key)] = e]
           /\ \A q \in Used : entries[q].key = e.key <=> q = Probe(e.key)
           /\ Reachable'
           /\ \A p, q \in Used' : entries'[p].key = entries'[q].key => p = q
<1> DEFINE k == e.key
           r == Probe(k)
<1>1. k \in Keys /\ Home(k) \in Position
  BY HomeInTable DEF Entry, TInv
<1>2. r \in Position /\ Stops(k, r) /\ \A q \in Path(Home(k), r) : ~Stops(k, q)
  BY <1>1, ProbeFacts
<1>3. entries' = [entries EXCEPT ![r] = e] /\ e # Unused
  BY MapAssumption DEF Store
<1>4. \A q \in Used : entries[q].key = k <=> q = r
  <2>1. ASSUME NEW q \in Used, entries[q].key = k
        PROVE  q = r
    BY <2>1, FoundAt
  <2>2. ASSUME r \in Used
        PROVE  entries[r].key = k
    BY <1>2, <2>2 DEF Used, Stops
  <2> QED
    BY <2>1, <2>2
<1> HIDE DEF r
<1>5. /\ entries \in [Position -> Entry \cup {Unused}]
      /\ Position' = Position
  BY DEF TInv, Table, Position
<1>6. Used' = Used \cup {r}
  BY <1>2, <1>3, <1>5 DEF Used
<1>7. ASSUME NEW q \in Position
      PROVE  /\ q = r => entries'[q] = e
             /\ q # r => entries'[q] = entries[q]
             /\ entries[q] # Unused => entries'[q] # Unused
  BY <1>3, <1>5
<1>8. ASSUME NEW p \in Used', NEW q \in Used', entries'[p].key = entries'[q].key
      PROVE  p = q
  <2>1. ASSUME NEW x \in Used', x # r
        PROVE  x \in Used /\ entries'[x] = entries[x]
    BY <1>6, <1>7, <2>1, KeysInTable
  <2>2. entries'[r].key = k
    BY <1>2, <1>7
  <2>3. CASE p # r /\ q # r
    BY <1>8, <2>1, <2>3 DEF Placed, Distinct
  <2> QED
    BY <1>4, <1>8, <2>1, <2>2, <2>3
<1>9. ASSUME NEW p \in Used', NEW q \in Path(Home(entries'[p].key), p)
      PROVE  entries'[q] # Unused
  <2>1. q \in Position
    BY <1>9 DEF Path
  <2>2. entries[q] # Unused \/ q = r
    <3>1. CASE p = r
      <4>1. entries'[p].key = k
        BY <1>2, <1>7, <3>1
      <4>2. ~Stops(k, q)
        BY <1>2, <1>9, <3>1, <4>1
      <4> QED
        BY <4>2 DEF Stops
    <3>2. CASE p # r
      <4>1. p \in Used /\ p \in Position /\ entries'[p] = entries[p]
        BY <1>6, <1>7, <3>2, KeysInTable
      <4> QED
        BY <1>9, <4>1 DEF Placed, Reachable
    <3> QED
      BY <3>1, <3>2
  <2> QED
    BY <1>2, <1>3, <1>7, <2>1, <2>2
<1>10. Reachable'
  <2>1. \A x : Home(x)' = Home(x)
    BY DEF Home
  <2>2. \A a, b : Path(a, b)' = Path(a, b)
    BY <1>5 DEF Path
  <2> QED
    BY <1>9, <2>1, <2>2 DEF Reachable
<1> QED
  BY <1>2, <1>3, <1>4, <1>6, <1>8, <1>10 DEF r

\* Steps that leave the table as it is, or empty it into the old one.
LEMMA GrowPlaced ==
    ASSUME TInv, Placed, NEW e \in Entry, Set(e), Full
    PROVE  Placed' /\ Stored' = Stored
<1>1. /\ pc = "idle" /\ pc' = "rehash"
      /\ Used' = {} /\ Waiting' = Used /\ old' = entries /\ old = <<>>
  BY GrowTInv DEF Set, Grow, TInv, Stage
<1>2. Waiting = {}
  BY <1>1 DEF Waiting
<1>3. Placed'
  BY <1>1 DEF Placed, Distinct, Reachable, AroundHole
<1> QED
  BY <1>1, <1>2, <1>3 DEF Stored

LEMMA SetPlaced ==
    ASSUME TInv, Placed, NEW e \in Entry, Set(e)
    PROVE  Placed' /\ Stored' = Stored
<1>1. CASE Full
  BY <1>1, GrowPlaced
<1>2. CASE ~Full
  <2>1. /\ pc = "idle" /\ pc' = "store"
        /\ UNCHANGED <<entries, capacity, count, old, i, j>>
    BY <1>2 DEF Set
  <2>2. Used' = Used /\ Waiting' = Waiting /\ Position' = Position
    BY <2>1 DEF Used, Position, Waiting
  <2>3. \A a, b : Path(a, b)' = Path(a, b)
    BY <2>2 DEF Path
  <2>4. \A x : Home(x)' = Home(x)
    BY <2>1 DEF Home
  <2>5. Distinct' /\ Reachable'
    BY <2>1, <2>2, <2>3, <2>4 DEF Distinct, Reachable, Placed
  <2> QED
    BY <2>1, <2>2, <2>5 DEF Placed, AroundHole, Stored
<1> QED
  BY <1>1, <1>2

LEMMA RehashPlaced ==
    ASSUME TInv, Placed, Comparable = Keys, Rehash
    PROVE  Placed' /\ Stored' = Stored
<1>1. /\ pc = "rehash" /\ pc' = "rehash" /\ i' = i + 1 /\ i \in DOMAIN old
      /\ UNCHANGED <<capacity, j, old, new>>
  BY DEF Rehash
<1>2. PICK m \in Nat : /\ old \in [0 .. m - 1 -> Entry \cup {Unused}]
                       /\ i \in 0 .. m
  BY <1>1 DEF TInv, Stage, Copied
<1>3. Waiting' = Waiting \ {i}
  BY <1>1, <1>2 DEF Waiting
<1>4. CASE old[i] = Unused
  <2>1. UNCHANGED <<entries, count>>
    BY <1>4 DEF Rehash
  <2>2. Used' = Used /\ Waiting' = Waiting /\ Position' = Position
    BY <1>1, <1>3, <1>4, <2>1 DEF Used, Position, Waiting
  <2>3. \A a, b : Path(a, b)' = Path(a, b)
    BY <2>2 DEF Path
  <2>4. \A x : Home(x)' = Home(x)
    BY <1>1 DEF Home
  <2>5. Distinct' /\ Reachable'
    BY <1>1, <2>1, <2>2, <2>3, <2>4 DEF Distinct, Reachable, Placed
  <2> QED
    BY <1>1, <2>1, <2>2, <2>5 DEF Placed, AroundHole, Stored
<1>5. CASE old[i] # Unused
  <2> DEFINE e == old[i]
             r == Probe(e.key)
  <2>1. Store(e) /\ e \in Entry /\ i \in Waiting
    BY <1>1, <1>2, <1>5 DEF Rehash, Waiting
  <2>2. /\ r \in Position
        /\ Used' = Used \cup {r}
        /\ entries' = [entries EXCEPT ![r] = e]
        /\ \A q \in Used : entries[q].key = e.key <=> q = r
        /\ Reachable'
        /\ \A p, q \in Used' : entries'[p].key = entries'[q].key => p = q
    BY <1>1, <2>1, StorePlaced
  <2> HIDE DEF r
  <2>3. r \notin Used
    BY <2>1, <2>2 DEF Placed, Distinct
  <2>4. entries'[r] = e /\ \A q \in Used : entries'[q] = entries[q]
    BY <2>2, <2>3, KeysInTable DEF TInv, Table
  <2>5. \A p, q \in Waiting' : old'[p].key = old'[q].key => p = q
    BY <1>1, <1>3 DEF Placed, Distinct
  <2>6. \A p \in Used', q \in Waiting' : entries'[p].key # old'[q].key
    BY <1>1, <1>3, <2>1, <2>2, <2>4 DEF Placed, Distinct
  <2>7. Distinct'
    BY <2>2, <2>5, <2>6 DEF Distinct
  <2>8. Stored' = Stored
    BY <1>1, <1>3, <2>1, <2>2, <2>4 DEF Stored
  <2> QED
    BY <1>1, <2>2, <2>7, <2>8 DEF Placed, AroundHole
<1> QED
  BY <1>4, <1>5

LEMMA EndRehashPlaced ==
    ASSUME TInv, Placed, EndRehash
    PROVE  Placed' /\ Stored' = Stored
<1>1. /\ pc = "rehash" /\ pc' = "store" /\ old' = <<>>
      /\ UNCHANGED <<entries, capacity, count, j, new>>
  BY DEF EndRehash
<1>2. Used' = Used /\ Waiting = {} /\ Waiting' = {} /\ Position' = Position
  BY <1>1, EndRehashTInv DEF Waiting, Position
<1>3. \A a, b : Path(a, b)' = Path(a, b)
  BY <1>2 DEF Path
<1>4. \A x : Home(x)' = Home(x)
  BY <1>1 DEF Home
<1>5. Distinct' /\ Reachable'
  BY <1>1, <1>2, <1>3, <1>4 DEF Distinct, Reachable, Placed
<1> QED
  BY <1>1, <1>2, <1>5 DEF Placed, AroundHole, Stored

\* The end of map_set takes the old value of the key out and puts the new in.
LEMMA EndSetPlaced ==
    ASSUME TInv, Placed, Comparable = Keys, EndSet
    PROVE  Placed' /\ Stored' = {e \in Stored : e.key # new.key} \cup {new}
<1> DEFINE r == Probe(new.key)
<1>1. /\ pc = "store" /\ pc' = "idle" /\ new \in Entry /\ Store(new)
      /\ i = 0 /\ old = <<>>
      /\ UNCHANGED <<capacity, i, j, old>>
  BY DEF EndSet, TInv, Stage
<1>2. /\ r \in Position
      /\ Used' = Used \cup {r}
      /\ entries' = [entries EXCEPT ![r] = new]
      /\ \A q \in Used : entries[q].key = new.key <=> q = r
      /\ Reachable'
      /\ \A p, q \in Used' : entries'[p].key = entries'[q].key => p = q
  BY <1>1, StorePlaced
<1> HIDE DEF r
<1>3. Waiting = {} /\ Waiting' = {}
  BY <1>1 DEF Waiting
<1>4. Placed'
  BY <1>1, <1>2, <1>3 DEF Placed, Distinct, AroundHole
<1>5. entries'[r] = new /\ \A q \in Used : q # r => entries'[q] = entries[q]
  BY <1>2, KeysInTable DEF TInv, Table
<1>6. Stored' = {e \in Stored : e.key # new.key} \cup {new}
  BY <1>2, <1>3, <1>5 DEF Stored
<1> QED
  BY <1>4, <1>6

LEMMA DeletePlaced ==
    ASSUME TInv, Placed, NEW k \in Keys, Delete(k)
    PROVE  /\ Placed' /\ Stored' = {e \in Stored : e.key # k}
           /\ \E e \in Stored : e.key = k
<1>1. /\ pc = "idle" /\ pc' = "shift" /\ old = <<>>
      /\ i' = Probe(k) /\ j' = Probe(k) /\ entries[Probe(k)] # Unused
      /\ UNCHANGED <<entries, capacity, old, new>>
  BY DEF Delete, TInv, Stage
<1>2. /\ Probe(k) \in Used /\ entries[Probe(k)].key = k
      /\ Used' = Used \ {Probe(k)}
  BY DeleteTInv
<1>3. Waiting = {} /\ Waiting' = {} /\ Position' = Position
  BY <1>1 DEF Waiting, Position
<1>4. \A a, b : Path(a, b)' = Path(a, b)
  BY <1>3 DEF Path
<1>5. \A x : Home(x)' = Home(x)
  BY <1>1 DEF Home
<1>6. Distinct' /\ Reachable'
  BY <1>1, <1>2, <1>3, <1>4, <1>5 DEF Distinct, Reachable, Placed
<1>7. AroundHole'
  <2>1. Probe(k) \in Position /\ capacity \in Nat
    BY <1>2 DEF Used, TInv, Table
  <2>2. Path(i', j') = {}
    BY <1>1, <2>1 DEF Path, Position
  <2>3. \A p \in Used' : ~Between(i', p, j')
    BY <1>1, <1>2, <2>1 DEF Between, Used, Position
  <2> QED
    BY <1>1, <1>4, <2>2, <2>3 DEF AroundHole, Between
<1>8. Stored' = {e \in Stored : e.key # k}
  BY <1>1, <1>2, <1>3 DEF Stored, Placed, Distinct
<1>9. entries[Probe(k)] \in Stored
  BY <1>2 DEF Stored
<1> QED
  BY <1>2, <1>6, <1>7, <1>8, <1>9 DEF Placed

\* The entry that a deletion comes to is not the hole: there would be no unused
\* entry at all.
LEMMA BehindTheHole ==
    ASSUME TInv, Placed, Shift
    PROVE  After(j) # i
<1> SUFFICES ASSUME After(j) = i PROVE FALSE
  OBVIOUS
<1>1. PICK u \in Position : entries[u] = Unused
  BY Room
<1>2. pc = "shift" /\ i \in Position /\ j \in Position /\ capacity \in Nat
  BY ShiftCases DEF TInv, Stage, Table
<1>3. u \in Path(i, j) \cup {j}
  BY <1>1, <1>2 DEF After, Path, Position
<1> QED
  BY <1>1, <1>2, <1>3 DEF Placed, AroundHole

LEMMA ShiftPlaced ==
    ASSUME TInv, Placed, Shift
    PROVE  Placed' /\ Stored' = Stored
<1> DEFINE n == After(j)
<1>1. /\ pc = "shift" /\ n \in Position
      /\ UNCHANGED <<capacity, count, old, new>>
  BY ShiftCases
<1>2. /\ i \in Position /\ j \in Position /\ entries[i] # Unused
      /\ old = <<>> /\ capacity \in Nat
      /\ entries \in [Position -> Entry \cup {Unused}]
  BY <1>1 DEF TInv, Stage, Table
<1>3. Position' = Position /\ Waiting = {} /\ Waiting' = {}
  BY <1>1, <1>2 DEF Position, Waiting
<1>4. \A a, b : Path(a, b)' = Path(a, b)
  BY <1>3 DEF Path
<1>5. \A x : Home(x)' = Home(x)
  BY <1>1 DEF Home
<1>6. n # i /\ n = IF j + 1 = capacity THEN 0 ELSE j + 1
  BY BehindTheHole DEF After
<1>7. /\ \A q \in Path(i, j) \cup {j} : entries[q] # Unused
      /\ \A p \in Used : Between(i, p, j) => i \notin Path(Home(entries[p].key), p)
      /\ \A p \in Used : \A q \in Path(Home(entries[p].key), p) : entries[q] # Unused
      /\ \A p, q \in Used : entries[p].key = entries[q].key => p = q
  BY <1>1 DEF Placed, AroundHole, Reachable, Distinct
<1>8. \A p \in Used : p \in Position /\ p # i /\ Home(entries[p].key) \in Position
  BY <1>1, KeysInTable DEF Used
<1>9. CASE /\ entries[n] = Unused
           /\ entries' = [entries EXCEPT ![i] = Unused]
           /\ pc' = "idle" /\ i' = 0 /\ j' = 0
  <2> HIDE DEF n
  <2>1. Used' = Used
    BY <1>1, <1>2, <1>3, <1>9 DEF Used
  <2>2. \A q \in Position : q # i => entries'[q] = entries[q]
    BY <1>2, <1>9
  <2>3. Distinct'
    BY <1>3, <1>7, <1>8, <2>1, <2>2 DEF Distinct
  <2>4. ASSUME NEW p \in Used
        PROVE  i \notin Path(Home(entries[p].key), p)
    <3> DEFINE h == Home(entries[p].key)
    <3>1. SUFFICES ASSUME i \in Path(h, p) PROVE FALSE
      OBVIOUS
    <3>2. p \in Position /\ p # i /\ h \in Position /\ ~Between(i, p, j)
      BY <1>7, <1>8, <3>1
    <3>3. n \notin Path(h, p)
      BY <1>7, <1>9
    <3>4. p # n
      BY <1>9 DEF Used
    <3> HIDE DEF h
    <3> QED
      BY <1>1, <1>2, <1>6, <3>1, <3>2, <3>3, <3>4 DEF Path, Between, Position
  <2>5. ASSUME NEW p \in Used, NEW q \in Path(Home(entries[p].key), p)
        PROVE  entries'[q] # Unused
    <3>1. q \in Position /\ q # i
      BY <2>4 DEF Path
    <3> QED
      BY <1>7, <2>2, <3>1
  <2>6. Reachable'
    BY <1>4, <1>5, <1>8, <2>1, <2>2, <2>5 DEF Reachable
  <2>7. Stored' = Stored
    BY <1>3, <1>8, <2>1, <2>2 DEF Stored
  <2> QED
    BY <1>9, <2>3, <2>6, <2>7 DEF Placed, AroundHole
<1>10. CASE /\ entries[n] # Unused
            /\ Between(i, Home(entries[n].key), n)
            /\ pc' = "shift" /\ j' = n
            /\ UNCHANGED <<entries, i>>
  <2> HIDE DEF n
  <2>1. Used' = Used /\ n \in Used
    BY <1>1, <1>3, <1>6, <1>10 DEF Used
  <2>2. Distinct' /\ Reachable' /\ Stored' = Stored
    BY <1>3, <1>4, <1>5, <1>7, <1>10, <2>1 DEF Distinct, Reachable, Stored
  <2>3. ASSUME NEW q \in Path(i, n) \cup {n}
        PROVE  entries[q] # Unused
    <3>1. q \in Path(i, j) \cup {j} \/ q = n
      BY <1>1, <1>2, <1>6, <2>3 DEF Path, Position
    <3> QED
      BY <1>7, <1>10, <3>1
  <2>4. ASSUME NEW p \in Used, Between(i, p, n)
        PROVE  i \notin Path(Home(entries[p].key), p)
    <3>1. CASE p = n
      <4> DEFINE h == Home(entries[n].key)
      <4>1. h \in Position /\ Between(i, h, n)
        BY <1>8, <1>10, <2>1
      <4> HIDE DEF h
      <4>2. i \notin Path(h, n)
        BY <1>1, <1>2, <4>1 DEF Path, Between, Position
      <4> QED
        BY <3>1, <4>2 DEF h
    <3>2. CASE p # n
      <4>1. Between(i, p, j)
        BY <1>1, <1>2, <1>6, <1>8, <2>4, <3>2 DEF Between, Position
      <4> QED
        BY <1>7, <4>1
    <3> QED
      BY <3>1, <3>2
  <2>5. AroundHole'
    BY <1>4, <1>5, <1>10, <2>1, <2>3, <2>4 DEF AroundHole, Between
  <2> QED
    BY <2>2, <2>5 DEF Placed
<1>11. CASE /\ entries[n] # Unused
            /\ ~Between(i, Home(entries[n].key), n)
            /\ entries' = [entries EXCEPT ![i] = entries[n]]
            /\ pc' = "shift" /\ i' = n /\ j' = n
  <2> HIDE DEF n
  <2>1. n \in Used /\ i \notin Used
    BY <1>1, <1>6, <1>11 DEF Used
  <2>2. Used' = (Used \ {n}) \cup {i}
    BY <1>1, <1>2, <1>3, <1>6, <1>11, <2>1 DEF Used
  <2>3. entries'[i] = entries[n] /\ \A q \in Position : q # i => entries'[q] = entries[q]
    BY <1>2, <1>11
  <2>4. \A q \in Position : entries[q] # Unused => entries'[q] # Unused
    BY <1>11, <2>3
  <2>5. \A p \in Used' : \/ p \in Used /\ p # n /\ entries'[p] = entries[p]
                         \/ p = i /\ entries'[p] = entries[n]
    BY <1>8, <2>1, <2>2, <2>3
  <2>6. Distinct'
    <3>1. \A p, q \in Used' : entries'[p].key = entries'[q].key => p = q
      BY <1>7, <2>1, <2>5
    <3> QED
      BY <1>3, <3>1 DEF Distinct
  <2>7. ASSUME NEW p \in Used', NEW q \in Path(Home(entries'[p].key), p)
        PROVE  entries'[q] # Unused
    <3>1. q \in Position
      BY <2>7 DEF Path
    <3>2. CASE p \in Used /\ entries'[p] = entries[p]
      BY <1>7, <2>4, <2>7, <3>1, <3>2
    <3>3. CASE p = i /\ entries'[p] = entries[n]
      <4> DEFINE h == Home(entries[n].key)
      <4>1. h \in Position /\ ~Between(i, h, n) /\ q \in Path(h, i)
        BY <1>8, <1>11, <2>1, <2>7, <3>3
      <4>2. \A x \in Path(h, n) : entries[x] # Unused
        BY <1>7, <2>1
      <4> HIDE DEF h
      <4>3. q \in Path(h, n)
        BY <1>1, <1>2, <1>6, <3>1, <4>1 DEF Path, Between, Position
      <4> QED
        BY <2>4, <3>1, <4>2, <4>3
    <3> QED
      BY <2>5, <3>2, <3>3
  <2>8. Reachable'
    BY <1>4, <1>5, <2>7 DEF Reachable
  <2>9. Stored' = Stored
    <3>1. ASSUME NEW p \in Used
          PROVE  \E q \in Used' : entries'[q] = entries[p]
      BY <1>8, <2>1, <2>2, <2>3
    <3>2. ASSUME NEW q \in Used'
          PROVE  \E p \in Used : entries'[q] = entries[p]
      BY <2>1, <2>5
    <3> QED
      BY <1>3, <3>1, <3>2 DEF Stored
  <2>10. AroundHole'
    <3>1. Path(n, n) = {}
      BY <1>1, <1>2 DEF Path, Position
    <3>2. entries'[n] # Unused
      BY <1>1, <1>11, <2>4
    <3>3. \A p \in Used' : ~Between(n, p, n)
      BY <1>1, <1>2, <1>8, <2>5 DEF Between, Position
    <3> QED
      BY <1>4, <1>11, <3>1, <3>2, <3>3 DEF AroundHole, Between
  <2> QED
    BY <2>6, <2>8, <2>9, <2>10 DEF Placed
<1> QED
  BY <1>9, <1>10, <1>11, ShiftCases

LEMMA InitPlaced == Init => Placed
<1> SUFFICES ASSUME Init PROVE Placed
  OBVIOUS
<1>1. Used = {} /\ Waiting = {} /\ pc = "idle"
  BY DEF Init, Used, Waiting, Empty, Position
<1> QED
  BY <1>1 DEF Placed, Distinct, Reachable, AroundHole

LEMMA StutterPlaced ==
    ASSUME Placed, UNCHANGED vars
    PROVE  Placed' /\ Stored' = Stored
<1>1. Position' = Position /\ Used' = Used /\ Waiting' = Waiting
  BY DEF vars, Position, Used, Waiting
<1>2. \A a, b : Path(a, b)' = Path(a, b)
  BY <1>1 DEF Path
<1>3. \A x : Home(x)' = Home(x)
  BY DEF Home, vars
<1>4. Distinct' /\ Reachable' /\ AroundHole'
  BY <1>1, <1>2, <1>3 DEF Placed, Distinct, Reachable, AroundHole, Between, vars
<1> QED
  BY <1>1, <1>4 DEF Placed, Stored, vars

LEMMA NextPlaced ==
    ASSUME Comparable = Keys
    PROVE  TInv /\ Placed /\ [Next]_vars => Placed'
<1> SUFFICES ASSUME TInv, Placed, [Next]_vars PROVE Placed'
  OBVIOUS
<1>1. CASE Rehash
  BY <1>1, RehashPlaced
<1>2. CASE EndRehash
  BY <1>2, EndRehashPlaced
<1>3. CASE EndSet
  BY <1>3, EndSetPlaced
<1>4. CASE Shift
  BY <1>4, ShiftPlaced
<1>5. ASSUME NEW e \in Entry, Set(e)
      PROVE  Placed'
  BY <1>5, SetPlaced
<1>6. ASSUME NEW k \in Keys, Delete(k)
      PROVE  Placed'
  BY <1>6, DeletePlaced
<1>7. CASE UNCHANGED vars
  BY <1>7, StutterPlaced
<1> QED
  BY <1>1, <1>2, <1>3, <1>4, <1>5, <1>6, <1>7 DEF Next, GoOn

LEMMA PlacedAlways ==
    ASSUME Comparable = Keys
    PROVE  Spec => [](TInv /\ Placed)
<1>1. Init => TInv /\ Placed
  BY InitTInv, InitPlaced
<1>2. TInv /\ Placed /\ [Next]_vars => (TInv /\ Placed)'
  BY NextTInv, NextPlaced
<1> QED
  BY <1>1, <1>2, PTL DEF Spec

-----------------------------------------------------------------------------
(* What the program sees *)

LEMMA StoredOnce ==
    ASSUME TInv, Placed
    PROVE  /\ Stored \subseteq Entry
           /\ \A e, f \in Stored : e.key = f.key => e = f
<1>1. ASSUME NEW q \in Waiting
      PROVE  old[q] \in Entry
  <2>1. CASE pc = "rehash"
    BY <2>1 DEF TInv, Stage, Copied, Waiting
  <2>2. CASE pc # "rehash"
    BY <2>2 DEF TInv, Stage, Waiting
  <2> QED
    BY <2>1, <2>2
<1>2. Stored \subseteq Entry
  BY <1>1, KeysInTable DEF Stored
<1>3. \A e, f \in Stored : e.key = f.key => e = f
  BY DEF Stored, Placed, Distinct
<1> QED
  BY <1>2, <1>3

LEMMA CountOfPlaced == TInv /\ Placed => CountAgrees
BY StoredOnce DEF CountAgrees, TInv, Counted

\* The contents of a set of entries in which no key has two.
ContentsOf(S) ==
    [k \in Keys |-> IF \E e \in S : e.key = k
                      THEN (CHOOSE e \in S : e.key = k).value
                      ELSE Absent]

LEMMA ContentsFacts ==
    ASSUME NEW S \in SUBSET Entry, \A e, f \in S : e.key = f.key => e = f, NEW k \in Keys
    PROVE  /\ \A e \in S : e.key = k => ContentsOf(S)[k] = e.value
           /\ (\A e \in S : e.key # k) => ContentsOf(S)[k] = Absent
           /\ ContentsOf(S)[k] # Absent <=> \E e \in S : e.key = k
<1>1. ASSUME NEW e \in S, e.key = k
      PROVE  ContentsOf(S)[k] = e.value /\ e.value # Absent
  <2>1. (CHOOSE f \in S : f.key = k) = e
    BY <1>1
  <2>2. e.value \in Values
    BY DEF Entry
  <2> QED
    BY <1>1, <2>1, <2>2, MapAssumption DEF ContentsOf
<1>2. ASSUME \A e \in S : e.key # k
      PROVE  ContentsOf(S)[k] = Absent
  BY <1>2 DEF ContentsOf
<1> QED
  BY <1>1, <1>2

LEMMA LookupOfPlaced ==
    ASSUME Comparable = Keys, Void \notin Values
    PROVE  TInv /\ Placed => LookupAgrees
<1> SUFFICES ASSUME TInv, Placed, pc = "idle", NEW k \in Keys
             PROVE  /\ Has(k) <=> Contents[k] # Absent
                    /\ Has(k) => Get(k) = Contents[k]
  BY DEF LookupAgrees
<1> DEFINE r == Probe(k)
<1>1. Contents = ContentsOf(Stored)
  BY DEF Contents, ContentsOf
<1>2. /\ Stored \subseteq Entry
      /\ \A e, f \in Stored : e.key = f.key => e = f
  BY StoredOnce
<1>3. Stored = {entries[p] : p \in Used}
  BY DEF Stored, Waiting, TInv, Stage
<1>4. r \in Position /\ Stops(k, r)
  BY ProbeFacts
<1>5. CASE entries[r] = Unused
  <2>1. \A e \in Stored : e.key # k
    BY <1>3, <1>5, FoundAt DEF Used
  <2>2. Contents[k] = Absent
    BY <1>1, <1>2, <2>1, ContentsFacts
  <2>3. ~Has(k)
    BY <1>5 DEF Has, Get
  <2> QED
    BY <2>2, <2>3
<1>6. CASE entries[r] # Unused
  <2>1. r \in Used /\ entries[r].key = k
    BY <1>4, <1>6 DEF Used, Stops
  <2>2. entries[r] \in Stored /\ entries[r].value \in Values
    BY <1>2, <1>3, <2>1 DEF Entry
  <2>3. Contents[k] = entries[r].value /\ Contents[k] # Absent
    BY <1>1, <1>2, <2>1, <2>2, ContentsFacts
  <2>4. Get(k) = entries[r].value
    BY <1>6 DEF Get
  <2> QED
    BY <2>2, <2>3, <2>4 DEF Has
<1> QED
  BY <1>5, <1>6

\* The counter is the number of entries, and no key has two, whatever the keys'
\* hash values: given that keys are equal to themselves, which of the values
\* that Opo accepts as keys all but options and enums are.
THEOREM CountIsExact ==
    ASSUME Comparable = Keys
    PROVE  Spec => []CountAgrees
<1> QED
  BY PlacedAlways, CountOfPlaced, PTL

\* A key is found exactly when the map holds it, with its value: neither growth
\* nor deletion hides an entry from the probing loops, for any hash function.
THEOREM LookupsAgree ==
    ASSUME Comparable = Keys, Void \notin Values
    PROVE  Spec => []LookupAgrees
<1> QED
  BY PlacedAlways, LookupOfPlaced, PTL

-----------------------------------------------------------------------------
(* The table implements the map *)

LEMMA CallIs ==
    /\ pc = "idle" => Call = [op |-> "none"]
    /\ pc = "shift" => Call = [op |-> "delete"]
    /\ pc \in {"store", "rehash"} =>
            Call = [op |-> "set", key |-> new.key, value |-> new.value]
BY DEF Call

LEMMA CallWillBe ==
    /\ pc' = "idle" => Call' = [op |-> "none"]
    /\ pc' = "shift" => Call' = [op |-> "delete"]
    /\ pc' \in {"store", "rehash"} =>
            Call' = [op |-> "set", key |-> new'.key, value |-> new'.value]
BY DEF Call

LEMMA ContentsStay ==
    ASSUME Stored' = Stored
    PROVE  Contents' = Contents
BY DEF Contents

LEMMA InitMaps == Init => Abstract!Init
<1> SUFFICES ASSUME Init PROVE Abstract!Init
  OBVIOUS
<1>1. Stored = {} /\ pc = "idle"
  BY DEF Init, Stored, Used, Waiting, Empty, Position
<1>2. Contents = [k \in Keys |-> Absent]
  BY <1>1 DEF Contents
<1>3. Call = [op |-> "none"]
  BY <1>1, CallIs
<1> QED
  BY <1>2, <1>3 DEF Abstract!Init, Abstract!None

\* A map_set takes effect with its last step, for its own key only.
LEMMA EndSetMaps ==
    ASSUME TInv, Placed, Placed', TInv', Comparable = Keys, EndSet
    PROVE  Abstract!EndSet
<1>1. pc = "store" /\ pc' = "idle" /\ new \in Entry
  BY DEF EndSet, TInv, Stage
<1>2. Stored' = {e \in Stored : e.key # new.key} \cup {new}
  BY EndSetPlaced
<1>3. /\ Stored \subseteq Entry
      /\ \A e, f \in Stored : e.key = f.key => e = f
  BY StoredOnce
<1>4. /\ Stored' \subseteq Entry
      /\ \A e, f \in Stored' : e.key = f.key => e = f
  BY <1>1, <1>2, <1>3
<1>5. Contents = ContentsOf(Stored) /\ Contents' = ContentsOf(Stored')
  BY DEF Contents, ContentsOf
<1>6. ASSUME NEW k \in Keys
      PROVE  Contents'[k] = [Contents EXCEPT ![new.key] = new.value][k]
  <2>1. Contents \in [Keys -> {Contents[x] : x \in Keys}]
    BY DEF Contents
  <2>2. CASE k = new.key
    <3>1. Contents'[k] = new.value
      <4>1. new \in Stored' /\ new.key = k
        BY <1>2, <2>2
      <4>2. ContentsOf(Stored')[k] = new.value
        BY <1>4, <4>1, ContentsFacts
      <4> QED
        BY <1>5, <4>2
    <3> QED
      BY <2>1, <2>2, <3>1
  <2>3. CASE k # new.key
    <3>1. CASE \E e \in Stored : e.key = k
      <4>1. PICK e \in Stored : e.key = k
        BY <3>1
      <4>2. e \in Stored'
        BY <1>2, <2>3, <4>1
      <4>3. Contents[k] = e.value
        BY <1>3, <1>5, <4>1, ContentsFacts
      <4>4. Contents'[k] = e.value
        BY <1>4, <1>5, <4>1, <4>2, ContentsFacts
      <4> QED
        BY <2>1, <2>3, <4>3, <4>4
    <3>2. CASE \A e \in Stored : e.key # k
      <4>1. \A e \in Stored' : e.key # k
        BY <1>2, <2>3, <3>2
      <4>2. Contents[k] = Absent
        BY <1>3, <1>5, <3>2, ContentsFacts
      <4>3. Contents'[k] = Absent
        BY <1>4, <1>5, <4>1, ContentsFacts
      <4> QED
        BY <2>1, <2>3, <4>2, <4>3
    <3> QED
      BY <3>1, <3>2
  <2> QED
    BY <2>2, <2>3
<1>7. Contents' = [Contents EXCEPT ![new.key] = new.value]
  BY <1>6 DEF Contents
<1>8. /\ Call = [op |-> "set", key |-> new.key, value |-> new.value]
      /\ Call' = [op |-> "none"]
  BY <1>1, CallIs, CallWillBe
<1> QED
  BY <1>7, <1>8 DEF Abstract!EndSet, Abstract!None

\* A deletion takes effect when it finds the entry.
LEMMA DeleteMaps ==
    ASSUME TInv, Placed, TInv', Placed', NEW k \in Keys, Delete(k)
    PROVE  Abstract!Delete(k)
<1>1. pc = "idle" /\ pc' = "shift"
  BY DEF Delete
<1>2. Stored' = {e \in Stored : e.key # k} /\ \E e \in Stored : e.key = k
  BY DeletePlaced
<1>3. /\ Stored \subseteq Entry
      /\ \A e, f \in Stored : e.key = f.key => e = f
  BY StoredOnce
<1>4. /\ Stored' \subseteq Entry
      /\ \A e, f \in Stored' : e.key = f.key => e = f
  BY <1>2, <1>3
<1>5. Contents = ContentsOf(Stored) /\ Contents' = ContentsOf(Stored')
  BY DEF Contents, ContentsOf
<1>6. ASSUME NEW x \in Keys
      PROVE  Contents'[x] = [Contents EXCEPT ![k] = Absent][x]
  <2>1. Contents \in [Keys -> {Contents[y] : y \in Keys}]
    BY DEF Contents
  <2>2. CASE \E e \in Stored' : e.key = x
    <3>1. PICK e \in Stored' : e.key = x
      BY <2>2
    <3>2. e \in Stored /\ x # k
      BY <1>2, <3>1
    <3>3. Contents[x] = e.value /\ Contents'[x] = e.value
      BY <1>3, <1>4, <1>5, <3>1, <3>2, ContentsFacts
    <3> QED
      BY <2>1, <3>2, <3>3
  <2>3. CASE \A e \in Stored' : e.key # x
    <3>1. Contents'[x] = Absent
      BY <1>4, <1>5, <2>3, ContentsFacts
    <3>2. CASE x = k
      BY <2>1, <3>1, <3>2
    <3>3. CASE x # k
      <4>1. \A e \in Stored : e.key # x
        BY <1>2, <2>3, <3>3
      <4>2. Contents[x] = Absent
        BY <1>3, <1>5, <4>1, ContentsFacts
      <4> QED
        BY <2>1, <3>1, <3>3, <4>2
    <3> QED
      BY <3>2, <3>3
  <2> QED
    BY <2>2, <2>3
<1>7. Contents' = [Contents EXCEPT ![k] = Absent]
  BY <1>6 DEF Contents
<1>8. Contents[k] # Absent
  BY <1>2, <1>3, <1>5, ContentsFacts
<1>9. Call = [op |-> "none"] /\ Call' = [op |-> "delete"]
  BY <1>1, CallIs, CallWillBe
<1> QED
  BY <1>7, <1>8, <1>9 DEF Abstract!Delete, Abstract!None

\* Everything else is the beginning or the end of an operation, or a stutter.
LEMMA NextMaps ==
    ASSUME Comparable = Keys
    PROVE  TInv /\ Placed /\ TInv' /\ Placed' /\ [Next]_vars
                => [Abstract!Next]_(Abstract!vars)
<1> SUFFICES ASSUME TInv, Placed, TInv', Placed', [Next]_vars
             PROVE  [Abstract!Next]_(Abstract!vars)
  OBVIOUS
<1>1. CASE Rehash
  <2>1. pc = "rehash" /\ pc' = "rehash" /\ new' = new
    BY <1>1 DEF Rehash
  <2>2. Contents' = Contents
    BY <1>1, RehashPlaced, ContentsStay
  <2>3. Call' = Call
    BY <2>1, CallIs, CallWillBe
  <2> QED
    BY <2>2, <2>3 DEF Abstract!vars
<1>2. CASE EndRehash
  <2>1. pc = "rehash" /\ pc' = "store" /\ new' = new
    BY <1>2 DEF EndRehash
  <2>2. Contents' = Contents
    BY <1>2, EndRehashPlaced, ContentsStay
  <2>3. Call' = Call
    BY <2>1, CallIs, CallWillBe
  <2> QED
    BY <2>2, <2>3 DEF Abstract!vars
<1>3. CASE EndSet
  BY <1>3, EndSetMaps DEF Abstract!Next
<1>4. CASE Shift
  <2>1. pc = "shift" /\ pc' \in {"shift", "idle"}
    BY <1>4, ShiftCases
  <2>2. Contents' = Contents
    BY <1>4, ShiftPlaced, ContentsStay
  <2>3. CASE pc' = "shift"
    <3>1. Call' = Call
      BY <2>1, <2>3, CallIs, CallWillBe
    <3> QED
      BY <2>2, <3>1 DEF Abstract!vars
  <2>4. CASE pc' = "idle"
    <3>1. Call = [op |-> "delete"] /\ Call' = [op |-> "none"]
      BY <2>1, <2>4, CallIs, CallWillBe
    <3>2. Abstract!EndDelete
      BY <2>2, <3>1 DEF Abstract!EndDelete, Abstract!None
    <3> QED
      BY <3>2 DEF Abstract!Next
  <2> QED
    BY <2>1, <2>3, <2>4
<1>5. ASSUME NEW e \in Entry, Set(e)
      PROVE  [Abstract!Next]_(Abstract!vars)
  <2>1. pc = "idle" /\ pc' \in {"store", "rehash"} /\ new' = e
    BY <1>5 DEF Set
  <2>2. Contents' = Contents
    BY <1>5, SetPlaced, ContentsStay
  <2>3. /\ Call = [op |-> "none"]
        /\ Call' = [op |-> "set", key |-> e.key, value |-> e.value]
    BY <2>1, CallIs, CallWillBe
  <2>4. e.key \in Keys /\ e.value \in Values
    BY DEF Entry
  <2>5. Abstract!Set(e.key, e.value)
    BY <2>2, <2>3 DEF Abstract!Set, Abstract!None
  <2> QED
    BY <2>4, <2>5 DEF Abstract!Next
<1>6. ASSUME NEW k \in Keys, Delete(k)
      PROVE  [Abstract!Next]_(Abstract!vars)
  <2>1. Abstract!Delete(k)
    BY <1>6, DeleteMaps
  <2> QED
    BY <2>1 DEF Abstract!Next
<1>7. CASE UNCHANGED vars
  <2>1. Contents' = Contents
    BY <1>7, StutterPlaced, ContentsStay
  <2>2. Call' = Call
    BY <1>7 DEF Call, vars
  <2> QED
    BY <2>1, <2>2 DEF Abstract!vars
<1> QED
  BY <1>1, <1>2, <1>3, <1>4, <1>5, <1>6, <1>7 DEF Next, GoOn

\* The hash table is a map: every step is a step of MapSpec or changes nothing
\* that a program sees, for any keys, hash function, values and capacity.
THEOREM TableIsMap ==
    ASSUME Comparable = Keys
    PROVE  Spec => ImplementsMap
<1>1. Spec => [](TInv /\ Placed)
  BY PlacedAlways
<1>2. Spec => Abstract!Init /\ [][Abstract!Next]_(Abstract!vars)
  BY <1>1, InitMaps, NextMaps, PTL DEF Spec
<1> QED
  BY <1>2 DEF ImplementsMap, Abstract!Spec

=============================================================================
