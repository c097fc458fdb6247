------------------------------- MODULE OpoMap -------------------------------
(***************************************************************************)
(* The hash table behind the maps of Opo (ObjMap and MapEntry in           *)
(* src/src/common.h; map_set, map_get and native_delete in src/src/vm.c):  *)
(* open addressing with linear probing, growth at a load of 0.7, and       *)
(* deletion that moves later entries of the cluster back into the hole.    *)
(*                                                                         *)
(* One iteration of the loop that rehashes and of the loop that moves      *)
(* entries back is one step, i and j are the indices of these loops.  The  *)
(* loops that only look for a key are the operator Probe.                  *)
(***************************************************************************)
EXTENDS Integers, FiniteSets

CONSTANTS
    Keys, Values,
    Comparable,         \* the keys that values_equal finds equal to themselves
    Hash,               \* hash_value of each key
    InitialCapacity,    \* 8 in allocate_map
    Void,               \* what map_get returns when it finds no key
    Unused,             \* an entry whose is_used is false
    Absent              \* in Contents: no value

Entry == [key : Keys, value : Values]

ASSUME MapAssumption ==
    /\ IsFiniteSet(Keys)
    /\ Comparable \subseteq Keys
    /\ Hash \in [Keys -> Nat]
    /\ InitialCapacity \in Nat /\ InitialCapacity >= 4
    /\ Unused \notin Entry
    /\ Absent \notin Values

VARIABLES
    entries, capacity, count,   \* the map
    pc,         \* "idle", or what an operation does next
    i, j,       \* the indices of its loop
    old,        \* old_entries, while the map grows
    new         \* the key and value of a map_set under way

vars == <<entries, capacity, count, pc, i, j, old, new>>

Position == 0 .. capacity - 1
Empty(n) == [p \in 0 .. n - 1 |-> Unused]

\* allocate_map
Init ==
    /\ capacity = InitialCapacity
    /\ entries = Empty(InitialCapacity)
    /\ count = 0
    /\ pc = "idle"
    /\ i = 0 /\ j = 0
    /\ old = <<>>
    /\ new = Unused

-----------------------------------------------------------------------------
(* Looking for a key *)

Home(k) == Hash[k] % capacity

\* the positions that a loop from a visits before it comes to b
Path(a, b) == {p \in Position : IF a <= b THEN a <= p /\ p < b ELSE a <= p \/ p < b}

\* the loop of map_set, map_get and native_delete stops at position p
Stops(k, p) ==
    entries[p] # Unused => entries[p].key = k /\ k \in Comparable

Probe(k) == CHOOSE p \in Position :
                Stops(k, p) /\ \A q \in Path(Home(k), p) : ~Stops(k, q)

\* map_get
Get(k) == LET e == entries[Probe(k)] IN IF e = Unused THEN Void ELSE e.value

\* native_has
Has(k) == Get(k) # Void

-----------------------------------------------------------------------------
(* map_set *)

(* the table is filled to its last entry *)
Full_NoRoom == count >= capacity

Full == 10 * count >= 7 * capacity

(* a new value for a key that is there counts as an entry *)
Store_CountsUpdates(e) ==
    /\ entries' = [entries EXCEPT ![Probe(e.key)] = e]
    /\ count' = count + 1

\* the value of a key that is there, or a new entry
Store(e) ==
    LET p == Probe(e.key)
    IN /\ entries' = [entries EXCEPT ![p] = e]
       /\ count' = IF entries[p] = Unused THEN count + 1 ELSE count

Grow ==
    /\ old' = entries
    /\ entries' = Empty(2 * capacity)
    /\ capacity' = 2 * capacity
    /\ count' = 0

\* map_set(map, e.key, e.value)
Set(e) ==
    /\ pc = "idle"
    /\ new' = e
    /\ IF Full
         THEN Grow /\ pc' = "rehash"
         ELSE UNCHANGED <<entries, capacity, count, old>> /\ pc' = "store"
    /\ UNCHANGED <<i, j>>

(* the loop over the old entries begins at 1 *)
Rehash_SkipsFirst ==
    /\ pc = "rehash"
    /\ i \in DOMAIN old
    /\ IF old[i] = Unused \/ i = 0
         THEN UNCHANGED <<entries, count>>
         ELSE ~Full /\ Store(old[i])
    /\ i' = i + 1
    /\ UNCHANGED <<capacity, pc, j, old, new>>

\* An old entry goes to the new table by a map_set that does not grow it again:
\* with ~Full the run would stop here if it did.
Rehash ==
    /\ pc = "rehash"
    /\ i \in DOMAIN old
    /\ IF old[i] = Unused
         THEN UNCHANGED <<entries, count>>
         ELSE ~Full /\ Store(old[i])
    /\ i' = i + 1
    /\ UNCHANGED <<capacity, pc, j, old, new>>

EndRehash ==
    /\ pc = "rehash"
    /\ i \notin DOMAIN old
    /\ pc' = "store"
    /\ i' = 0
    /\ old' = <<>>
    /\ UNCHANGED <<entries, capacity, count, j, new>>

\* the end of a map_set
EndSet ==
    /\ pc = "store"
    /\ Store(new)
    /\ pc' = "idle"
    /\ new' = Unused
    /\ UNCHANGED <<capacity, i, j, old>>

-----------------------------------------------------------------------------
(* native_delete *)

\* a key that is not there changes nothing
Delete(k) ==
    /\ pc = "idle"
    /\ entries[Probe(k)] # Unused
    /\ count' = count - 1
    /\ pc' = "shift"
    /\ i' = Probe(k)
    /\ j' = Probe(k)
    /\ UNCHANGED <<entries, capacity, old, new>>

(* the wrap of the table is forgotten *)
Between_NoWrap(a, k, b) == a < k /\ k <= b

Between(a, k, b) == IF a <= b THEN a < k /\ k <= b ELSE a < k \/ k <= b

(* j stays where it is at an entry that stays where it is *)
Shift_Stays ==
    LET n == (j + 1) % capacity
    IN /\ pc = "shift"
       /\ IF entries[n] = Unused
            THEN /\ entries' = [entries EXCEPT ![i] = Unused]
                 /\ pc' = "idle"
                 /\ i' = 0 /\ j' = 0
            ELSE /\ UNCHANGED pc
                 /\ IF Between(i, Home(entries[n].key), n)
                      THEN UNCHANGED <<entries, i, j>>
                      ELSE /\ entries' = [entries EXCEPT ![i] = entries[n]]
                           /\ i' = n /\ j' = n
       /\ UNCHANGED <<capacity, count, old, new>>

\* The entry after j moves into the hole i unless its home lies behind the hole.
Shift ==
    LET n == (j + 1) % capacity
    IN /\ pc = "shift"
       /\ IF entries[n] = Unused
            THEN /\ entries' = [entries EXCEPT ![i] = Unused]
                 /\ pc' = "idle"
                 /\ i' = 0 /\ j' = 0
            ELSE /\ j' = n
                 /\ UNCHANGED pc
                 /\ IF Between(i, Home(entries[n].key), n)
                      THEN UNCHANGED <<entries, i>>
                      ELSE entries' = [entries EXCEPT ![i] = entries[n]] /\ i' = n
       /\ UNCHANGED <<capacity, count, old, new>>

-----------------------------------------------------------------------------

GoOn == Rehash \/ EndRehash \/ EndSet \/ Shift

Next ==
    \/ GoOn
    \/ \E e \in Entry : Set(e)
    \/ \E k \in Keys : Delete(k)

\* the thread that runs an operation goes on running it
Spec == Init /\ [][Next]_vars /\ WF_vars(GoOn)

-----------------------------------------------------------------------------
(* Properties *)

\* the positions of the entries, without the hole
Used == {p \in Position : entries[p] # Unused /\ ~(pc = "shift" /\ p = i)}

\* the old entries that the loop has not come to
Waiting == {p \in DOMAIN old : i <= p /\ old[p] # Unused}

Stored == {entries[p] : p \in Used} \cup {old[p] : p \in Waiting}

\* what the map holds for the program that uses it
Contents ==
    [k \in Keys |-> IF \E e \in Stored : e.key = k
                      THEN (CHOOSE e \in Stored : e.key = k).value
                      ELSE Absent]

\* Every variable has its type, and the table has room for one entry more.
TypeOK ==
    /\ capacity \in Nat \ {0}
    /\ entries \in [Position -> Entry \cup {Unused}]
    /\ count \in 0 .. capacity - 1
    /\ pc \in {"idle", "store", "rehash", "shift"}
    /\ i \in 0 .. capacity - 1 /\ j \in Position
    /\ old = <<>> \/ old \in [0 .. (capacity \div 2) - 1 -> Entry \cup {Unused}]
    /\ new \in Entry \cup {Unused}

\* count is the number of entries, which native_keys takes for the length of the
\* array it fills, and no key has two of them.
CountAgrees ==
    /\ count = Cardinality(Used)
    /\ \A e, f \in Stored : e.key = f.key => e = f

\* Between operations a key is found exactly when the map holds it, with its
\* value: no deletion and no growth hides an entry from the probing loops.
LookupAgrees ==
    pc = "idle" =>
        \A k \in Keys : /\ Has(k) <=> Contents[k] # Absent
                        /\ Has(k) => Get(k) = Contents[k]

Call ==
    CASE pc = "idle" -> [op |-> "none"]
      [] pc = "shift" -> [op |-> "delete"]
      [] OTHER -> [op |-> "set", key |-> new.key, value |-> new.value]

Abstract == INSTANCE MapSpec WITH contents <- Contents, call <- Call

\* Seen through Contents, the table is a map: a set changes its own key when the
\* new entry is stored, a delete when it finds the entry, and neither growing
\* nor moving entries back adds, changes or loses one.
ImplementsMap == Abstract!Spec

\* Every operation comes to its end: the loops that move entries stop.
Returns == []<>(pc = "idle")
=============================================================================
