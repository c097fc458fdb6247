------------------------------- MODULE OpoHeap -------------------------------
(***************************************************************************)
(* Heap objects and their reference counts (retain, release and            *)
(* free_object in src/src/vm.c), used by the instructions of several       *)
(* goroutines at once.                                                     *)
(*                                                                         *)
(* A place holds a reference or NULL: a local or an operand of a goroutine *)
(* ("root"), a C variable that an instruction has popped an operand into   *)
(* ("obj", "val"), the arguments of a goroutine that starts ("callable",   *)
(* "arg"), an element, field, entry, payload, capture or queued value of   *)
(* another object ("item").  Which operand is on top is left to OpoVM: any *)
(* root may be the one that an instruction pops.                           *)
(*                                                                         *)
(* An action is one access to something another goroutine can reach, with  *)
(* what the goroutine does on its own up to the next one; a retain or      *)
(* release is an access, since it is an atomic operation on a counter.     *)
(***************************************************************************)
EXTENDS Integers, FiniteSets

CONSTANTS
    Thread, main,   \* the goroutines, and the one that runs main
    Obj,            \* addresses of objects, each used once
    Slot,           \* roots of a goroutine
    Index,          \* places in an object
    NULL,
    MaxKept,        \* bound on kept: no more once an object has that many
    Features        \* see AllFeatures

AllFeatures == {
    "shared_write", \* goroutines read and write the same object without a channel
    "late_report"}  \* an index is out of bounds in an array that is in no variable

ASSUME HeapAssumption ==
    /\ IsFiniteSet(Thread) /\ main \in Thread
    /\ IsFiniteSet(Obj) /\ IsFiniteSet(Slot) /\ IsFiniteSet(Index)
    /\ NULL \notin Obj
    /\ MaxKept \in Nat
    /\ Features \subseteq AllFeatures

Root(t) == {<<t, "root", s>> : s \in Slot}
Item(o) == {<<o, "item", i>> : i \in Index}
ObjVar(t) == <<t, "obj", NULL>>
ValVar(t) == <<t, "val", NULL>>
Callable(t) == <<t, "callable", NULL>>
Arg(t) == <<t, "arg", NULL>>

Hand(t) == {ObjVar(t), ValVar(t)}
Args(t) == {Callable(t), Arg(t)}
Items == UNION {Item(o) : o \in Obj}
Place == Items \cup UNION {Root(t) \cup Hand(t) \cup Args(t) : t \in Thread}

ASSUME DisjointNames ==
    /\ \A t \in Thread, o \in Obj : t # o
    /\ \A t \in Thread : t \notin {"any", "chan"}

VARIABLES
    at,         \* the reference a place owns
    stale,      \* what an item still shows after its reference was released
    ref_count,
    heap,       \* "unused", "live" or "freed"
    user,       \* who may open an object: a goroutine, "any" when nobody
                \* writes it, "chan" when its mutex decides; once the object
                \* is freed, the goroutine that is in free_object
    kept,       \* references counted and then forgotten, by object; -1 for one
                \* released though it was never counted
    pc,         \* what a goroutine is in the middle of
    ptr,        \* an object that a C variable points to and does not own
    target      \* the item it reads or writes

vars == <<at, stale, ref_count, heap, user, kept, pc, ptr, target>>

Steps == {"idle", "start", "next", "get", "build", "set", "store",
          "report", "end", "done"}

Init ==
    /\ at = [p \in Place |-> NULL]
    /\ stale = [p \in Items |-> NULL]
    /\ ref_count = [o \in Obj |-> 0]
    /\ heap = [o \in Obj |-> "unused"]
    /\ user = [o \in Obj |-> "any"]
    /\ kept = [o \in Obj |-> 0]
    /\ ptr = [t \in Thread |-> NULL]
    /\ target = [t \in Thread |-> NULL]
    /\ pc = [t \in Thread |-> IF t = main THEN "next" ELSE "idle"]

-----------------------------------------------------------------------------
(* Counting *)

\* the process runs until main returns
Running == pc[main] # "done"

\* what an object's item shows to a goroutine that reads it
Seen(p) == IF stale[p] # NULL THEN stale[p] ELSE at[p]

Retain(o) == ref_count' = [ref_count EXCEPT ![o] = @ + 1]

(* the value after the subtraction is compared *)
Decrement_Late(t, o) ==
    /\ ref_count' = [ref_count EXCEPT ![o] = @ - 1]
    /\ heap' = IF ref_count[o] = 0 THEN [heap EXCEPT ![o] = "freed"] ELSE heap
    /\ user' = IF ref_count[o] = 0 THEN [user EXCEPT ![o] = t] ELSE user

\* release: the goroutine that takes the last reference frees the object
Decrement(t, o) ==
    /\ ref_count' = [ref_count EXCEPT ![o] = @ - 1]
    /\ heap' = IF ref_count[o] = 1 THEN [heap EXCEPT ![o] = "freed"] ELSE heap
    /\ user' = IF ref_count[o] = 1 THEN [user EXCEPT ![o] = t] ELSE user

\* free_object releases what the objects it frees refer to
FreeItems(t) == {p \in Items : heap[p[1]] = "freed" /\ user[p[1]] = t}

\* the references that t is going to release before it does anything else
Dropped(t) ==
    {p \in FreeItems(t)
           \cup (IF pc[t] \in {"next", "report", "end"} THEN Hand(t) ELSE {})
           \cup (IF pc[t] = "end" THEN Root(t) \cup Args(t) ELSE {}) : at[p] # NULL}

Ready(t) == Running /\ pc[t] = "next" /\ Dropped(t) = {}

(* the reference is not forgotten, and released again *)
Release_Keeps(t) ==
    /\ Running
    /\ \E p \in Dropped(t) : Decrement(t, at[p])
    /\ UNCHANGED <<at, stale, kept, pc, ptr, target>>

Release(t) ==
    /\ Running
    /\ \E p \in Dropped(t) :
         /\ at' = [at EXCEPT ![p] = NULL]
         /\ Decrement(t, at[p])
    /\ UNCHANGED <<stale, kept, pc, ptr, target>>

-----------------------------------------------------------------------------
(* Operands and locals *)

\* OP_LOAD, OP_LOAD_G: a copy of a root
Load(t) ==
    /\ Ready(t)
    /\ \E r, q \in Root(t) :
         /\ at[r] # NULL /\ at[q] = NULL
         /\ at' = [at EXCEPT ![q] = at[r]]
         /\ Retain(at[r])
    /\ UNCHANGED <<stale, heap, user, kept, pc, ptr, target>>

\* OP_POP, a local that OP_STORE overwrites, a frame that OP_RET or an error
\* leaves, an operand that an instruction has used
Drop(t) ==
    /\ Ready(t)
    /\ \E r \in Root(t) :
         /\ at[r] # NULL
         /\ at' = [at EXCEPT ![ObjVar(t)] = at[r], ![r] = NULL]
    /\ UNCHANGED <<stale, ref_count, heap, user, kept, pc, ptr, target>>

\* A value is counted, and this is forgotten: OP_AS_TYPE and OP_THROW pop it and
\* push it, which counts it again; OP_EXTRACT_ENUM_PAYLOAD, OP_GET_ENUM_PAYLOAD
\* and native_str of a string count the result, and so does vm_push; native_error
\* counts its argument for a result that has no counted type.
Keep(t) ==
    /\ Ready(t)
    /\ \E r \in Root(t) :
         /\ at[r] # NULL
         /\ \A o \in Obj : kept[o] < MaxKept
         /\ kept' = [kept EXCEPT ![at[r]] = @ + 1]
         /\ Retain(at[r])
    /\ UNCHANGED <<at, stale, heap, user, pc, ptr, target>>

\* vm_push of an object that was read from an item or just built
Push(t) ==
    /\ Running
    /\ pc[t] \in {"get", "build"}
    /\ \E q \in Root(t) :
         /\ at[q] = NULL
         /\ at' = [at EXCEPT ![q] = ptr[t]]
    /\ Retain(ptr[t])
    /\ pc' = [pc EXCEPT ![t] = "next"]
    /\ ptr' = [ptr EXCEPT ![t] = NULL]
    /\ target' = [target EXCEPT ![t] = NULL]
    /\ UNCHANGED <<stale, heap, user, kept>>

-----------------------------------------------------------------------------
(* Building, reading and writing objects *)

\* allocate_*: the count of a new object is 0, or 1 for the array that parse_array
\* counts and then returns.  The program decides whether it will write the object.
New(t) ==
    /\ Ready(t)
    /\ \E r \in Root(t) : at[r] = NULL
    /\ \E o \in Obj, u \in {t, "any", "chan"}, k \in 0..1 :
         /\ heap[o] = "unused"
         /\ k = 1 => \A x \in Obj : kept[x] < MaxKept
         /\ heap' = [heap EXCEPT ![o] = "live"]
         /\ user' = [user EXCEPT ![o] = u]
         /\ ref_count' = [ref_count EXCEPT ![o] = k]
         /\ kept' = [kept EXCEPT ![o] = k]
         /\ ptr' = [ptr EXCEPT ![t] = o]
    /\ pc' = [pc EXCEPT ![t] = "build"]
    /\ UNCHANGED <<at, stale, target>>

\* A new object that is not pushed.  Either nothing counts it: a repeated key of
\* parse_object or of the headers of a request, a key that httpFormat looks up,
\* the result of a native that a goroutine runs.  Or it is a string of native_str
\* that OP_PRINT, OP_ADD, native_print or native_str itself releases when it is
\* done with it, though its count is still 0.
Lose(t) ==
    /\ Running
    /\ pc[t] = "build"
    /\ \/ UNCHANGED <<ref_count, heap, user, kept>>
       \/ /\ ref_count[ptr[t]] = 0
          /\ \A p \in Item(ptr[t]) : at[p] = NULL
          /\ Decrement(t, ptr[t])
          /\ kept' = [kept EXCEPT ![ptr[t]] = @ - 1]
    /\ pc' = [pc EXCEPT ![t] = "next"]
    /\ ptr' = [ptr EXCEPT ![t] = NULL]
    /\ UNCHANGED <<at, stale, target>>

\* OP_ARRAY, OP_STRUCT, OP_ENUM_VARIANT, OP_PUSH_FUNC: operands become items
Fill(t) ==
    /\ Running
    /\ pc[t] = "build"
    /\ user[ptr[t]] # "chan"
    /\ \E r \in Root(t), p \in Item(ptr[t]) :
         /\ at[r] # NULL /\ at[p] = NULL
         /\ at' = [at EXCEPT ![p] = at[r], ![r] = NULL]
    /\ UNCHANGED <<stale, ref_count, heap, user, kept, pc, ptr, target>>

\* programs that may read and write an object
MayRead(t, o) ==
    /\ user[o] # "chan"
    /\ user[o] \in {t, "any"} \/ "shared_write" \in Features
MayWrite(t, o) ==
    /\ user[o] # "chan"
    /\ user[o] = t \/ "shared_write" \in Features

(* the object is released before its item is pushed *)
Get_ReleasesFirst(t) ==
    /\ Ready(t)
    /\ \E r \in Root(t) :
         /\ at[r] # NULL /\ MayRead(t, at[r])
         /\ \E p \in Item(at[r]) :
              /\ Seen(p) # NULL
              /\ ptr' = [ptr EXCEPT ![t] = Seen(p)]
              /\ target' = [target EXCEPT ![t] = p]
         /\ at' = [at EXCEPT ![r] = NULL]
         /\ Decrement(t, at[r])
    /\ pc' = [pc EXCEPT ![t] = "get"]
    /\ UNCHANGED <<stale, kept>>

\* OP_INDEX, OP_GET_MEMBER, a capture of the closure that OP_INVOKE calls: the
\* item is read, then counted
Get(t) ==
    /\ Ready(t)
    /\ \E r \in Root(t) :
         /\ at[r] # NULL /\ MayRead(t, at[r])
         /\ \E p \in Item(at[r]) :
              /\ Seen(p) # NULL
              /\ ptr' = [ptr EXCEPT ![t] = Seen(p)]
              /\ target' = [target EXCEPT ![t] = p]
         /\ at' = [at EXCEPT ![ObjVar(t)] = at[r], ![r] = NULL]
    /\ pc' = [pc EXCEPT ![t] = "get"]
    /\ UNCHANGED <<stale, ref_count, heap, user, kept>>

\* OP_SET_INDEX and OP_SET_MEMBER pop their operands and read the old item
Set(t) ==
    /\ Ready(t)
    /\ \E r, v \in Root(t) :
         /\ r # v /\ at[r] # NULL /\ at[v] # NULL
         /\ MayWrite(t, at[r])
         /\ \E p \in Item(at[r]) :
              /\ ptr' = [ptr EXCEPT ![t] = Seen(p)]
              /\ target' = [target EXCEPT ![t] = p]
              /\ pc' = [pc EXCEPT ![t] = IF Seen(p) = NULL THEN "store" ELSE "set"]
         /\ at' = [at EXCEPT ![ObjVar(t)] = at[r], ![ValVar(t)] = at[v],
                             ![r] = NULL, ![v] = NULL]
    /\ UNCHANGED <<stale, ref_count, heap, user, kept>>

\* native_delete
Delete(t) ==
    /\ Ready(t)
    /\ \E r \in Root(t) :
         /\ at[r] # NULL /\ MayWrite(t, at[r])
         /\ \E p \in Item(at[r]) :
              /\ Seen(p) # NULL
              /\ ptr' = [ptr EXCEPT ![t] = Seen(p)]
              /\ target' = [target EXCEPT ![t] = p]
         /\ at' = [at EXCEPT ![ObjVar(t)] = at[r], ![r] = NULL]
    /\ pc' = [pc EXCEPT ![t] = "set"]
    /\ UNCHANGED <<stale, ref_count, heap, user, kept>>

\* the old item is released, and is still there to be read
Unlink(t) ==
    /\ Running
    /\ pc[t] = "set"
    /\ at' = [at EXCEPT ![target[t]] = NULL]
    /\ stale' = [stale EXCEPT ![target[t]] = ptr[t]]
    /\ Decrement(t, ptr[t])
    /\ pc' = [pc EXCEPT ![t] = "store"]
    /\ ptr' = [ptr EXCEPT ![t] = NULL]
    /\ UNCHANGED <<kept, target>>

(* the new item is not counted *)
Store_NoRetain(t) ==
    /\ Running
    /\ pc[t] = "store"
    /\ Dropped(t) = {}
    /\ at' = [at EXCEPT ![target[t]] = at[ValVar(t)]]
    /\ stale' = [stale EXCEPT ![target[t]] = NULL]
    /\ pc' = [pc EXCEPT ![t] = "next"]
    /\ ptr' = [ptr EXCEPT ![t] = NULL]
    /\ target' = [target EXCEPT ![t] = NULL]
    /\ UNCHANGED <<ref_count, heap, user, kept>>

\* then the new one is counted and written; none when an entry is deleted
Store(t) ==
    /\ Running
    /\ pc[t] = "store"
    /\ Dropped(t) = {}
    /\ at' = [at EXCEPT ![target[t]] = at[ValVar(t)]]
    /\ stale' = [stale EXCEPT ![target[t]] = NULL]
    /\ IF at[ValVar(t)] # NULL THEN Retain(at[ValVar(t)]) ELSE UNCHANGED ref_count
    /\ pc' = [pc EXCEPT ![t] = "next"]
    /\ ptr' = [ptr EXCEPT ![t] = NULL]
    /\ target' = [target EXCEPT ![t] = NULL]
    /\ UNCHANGED <<heap, user, kept>>

\* OP_INVOKE of native_append: the array is argument and result
AppendItem(t) ==
    /\ Ready(t)
    /\ \E r, v \in Root(t) :
         /\ r # v /\ at[r] # NULL /\ at[v] # NULL
         /\ MayWrite(t, at[r])
         /\ \E p \in Item(at[r]) :
              /\ Seen(p) = NULL
              /\ at' = [at EXCEPT ![p] = at[v], ![ValVar(t)] = at[v], ![v] = NULL]
         /\ Retain(at[v])
    /\ UNCHANGED <<stale, heap, user, kept, pc, ptr, target>>

\* OP_INDEX out of bounds: the array is released, and its length then read for
\* the message.  An array in a local of the program is there in any case.
IndexError(t) ==
    /\ Ready(t)
    /\ \E r \in Root(t) :
         /\ at[r] # NULL /\ MayRead(t, at[r])
         /\ "late_report" \in Features \/ \E s \in Root(t) \ {r} : at[s] = at[r]
         /\ ptr' = [ptr EXCEPT ![t] = at[r]]
         /\ at' = [at EXCEPT ![ObjVar(t)] = at[r], ![r] = NULL]
    /\ pc' = [pc EXCEPT ![t] = "report"]
    /\ UNCHANGED <<stale, ref_count, heap, user, kept, target>>

Report(t) ==
    /\ Running
    /\ pc[t] = "report"
    /\ Dropped(t) = {}
    /\ pc' = [pc EXCEPT ![t] = "next"]
    /\ ptr' = [ptr EXCEPT ![t] = NULL]
    /\ UNCHANGED <<at, stale, ref_count, heap, user, kept, target>>

-----------------------------------------------------------------------------
(* Channels *)

\* OP_SEND.  A goroutine that sends an object it may write can give it up to
\* another one.
Send(t) ==
    /\ Ready(t)
    /\ \E r, v \in Root(t), u \in Thread :
         /\ r # v /\ at[r] # NULL /\ at[v] # NULL
         /\ user[at[r]] = "chan"
         /\ \E p \in Item(at[r]) :
              /\ at[p] = NULL
              /\ at' = [at EXCEPT ![p] = at[v], ![ObjVar(t)] = at[r], ![ValVar(t)] = at[v],
                                  ![r] = NULL, ![v] = NULL]
         /\ Retain(at[v])
         /\ user' = IF user[at[v]] = t THEN [user EXCEPT ![at[v]] = u] ELSE user
    /\ UNCHANGED <<stale, heap, kept, pc, ptr, target>>

(* the reference that the channel had is not released *)
Receive_NoRelease(t) ==
    /\ Ready(t)
    /\ \E r, q \in Root(t) :
         /\ at[r] # NULL /\ (at[q] = NULL \/ q = r)
         /\ user[at[r]] = "chan"
         /\ \E p \in Item(at[r]) :
              /\ at[p] # NULL
              /\ at' = [[at EXCEPT ![ObjVar(t)] = at[r], ![p] = NULL, ![r] = NULL]
                           EXCEPT ![q] = at[p]]
              /\ Retain(at[p])
    /\ UNCHANGED <<stale, heap, user, kept, pc, ptr, target>>

\* OP_RECV: the value leaves the channel, is pushed and then released once
Receive(t) ==
    /\ Ready(t)
    /\ \E r, q \in Root(t) :
         /\ at[r] # NULL /\ (at[q] = NULL \/ q = r)
         /\ user[at[r]] = "chan"
         /\ \E p \in Item(at[r]) :
              /\ at[p] # NULL
              /\ at' = [[at EXCEPT ![ObjVar(t)] = at[r], ![ValVar(t)] = at[p],
                                   ![p] = NULL, ![r] = NULL] EXCEPT ![q] = at[p]]
              /\ Retain(at[p])
    /\ UNCHANGED <<stale, heap, user, kept, pc, ptr, target>>

-----------------------------------------------------------------------------
(* Goroutines *)

\* OP_GO: the callable and the argument, if it has one (a # f), become those of
\* a new thread
Go(t) ==
    /\ Ready(t)
    /\ \E u \in Thread, f, a \in Root(t) :
         /\ pc[u] = "idle"
         /\ at[f] # NULL
         /\ MayRead(u, at[f])
         /\ at' = [at EXCEPT ![Callable(u)] = at[f],
                             ![Arg(u)] = IF a = f THEN NULL ELSE at[a],
                             ![f] = NULL, ![a] = NULL]
         /\ pc' = [pc EXCEPT ![u] = "start"]
    /\ UNCHANGED <<stale, ref_count, heap, user, kept, ptr, target>>

\* thread_routine pushes the argument, and begin_call copies what the function
\* has captured
Begin(t) ==
    /\ Running
    /\ pc[t] = "start"
    /\ IF at[Arg(t)] = NULL
         THEN UNCHANGED <<at, ref_count>>
         ELSE /\ \E q \in Root(t) :
                   at[q] = NULL /\ at' = [at EXCEPT ![q] = at[Arg(t)]]
              /\ Retain(at[Arg(t)])
    /\ \/ /\ pc' = [pc EXCEPT ![t] = "next"]
          /\ UNCHANGED <<ptr, target>>
       \/ /\ \E p \in Item(at[Callable(t)]) :
               /\ Seen(p) # NULL
               /\ ptr' = [ptr EXCEPT ![t] = Seen(p)]
               /\ target' = [target EXCEPT ![t] = p]
          /\ pc' = [pc EXCEPT ![t] = "get"]
    /\ UNCHANGED <<stale, heap, user, kept>>

\* the function returns: thread_routine releases callable, argument and roots
End(t) ==
    /\ Ready(t)
    /\ t # main
    /\ pc' = [pc EXCEPT ![t] = "end"]
    /\ UNCHANGED <<at, stale, ref_count, heap, user, kept, ptr, target>>

Finish(t) ==
    /\ Running
    /\ pc[t] = "end"
    /\ Dropped(t) = {}
    /\ pc' = [pc EXCEPT ![t] = "done"]
    /\ UNCHANGED <<at, stale, ref_count, heap, user, kept, ptr, target>>

\* main returns, and with it the process and its memory are gone
Exit ==
    /\ Ready(main)
    /\ at' = [p \in Place |-> NULL]
    /\ stale' = [p \in Items |-> NULL]
    /\ ref_count' = [o \in Obj |-> 0]
    /\ heap' = [o \in Obj |-> "unused"]
    /\ user' = [o \in Obj |-> "any"]
    /\ kept' = [o \in Obj |-> 0]
    /\ ptr' = [t \in Thread |-> NULL]
    /\ target' = [t \in Thread |-> NULL]
    /\ pc' = [t \in Thread |-> "done"]

Exited == ~Running /\ UNCHANGED vars

Instruction(t) ==
    \/ Load(t) \/ Drop(t) \/ Keep(t) \/ Push(t)
    \/ New(t) \/ Lose(t) \/ Fill(t) \/ Get(t)
    \/ Set(t) \/ Delete(t) \/ Unlink(t) \/ Store(t) \/ AppendItem(t)
    \/ IndexError(t) \/ Report(t)
    \/ Send(t) \/ Receive(t) \/ Go(t) \/ Begin(t)

Next ==
    \/ \E t \in Thread : Instruction(t) \/ Release(t) \/ End(t) \/ Finish(t)
    \/ Exit \/ Exited

Spec == Init /\ [][Next]_vars

-----------------------------------------------------------------------------
(* Properties *)

\* the places that own a reference to o
HoldersIn(f, o) == {p \in Place : f[p] = o}
Holders(o) == HoldersIn(at, o)

Referred(f, o) == \E p \in Place : f[p] = o

\* Every variable has its type.
TypeOK ==
    /\ at \in [Place -> Obj \cup {NULL}]
    /\ stale \in [Items -> Obj \cup {NULL}]
    /\ ref_count \in [Obj -> Nat \cup {-1}]
    /\ heap \in [Obj -> {"unused", "live", "freed"}]
    /\ user \in [Obj -> Thread \cup {"any", "chan"}]
    /\ kept \in [Obj -> Nat \cup {-1}]
    /\ pc \in [Thread -> Steps]
    /\ ptr \in [Thread -> Obj \cup {NULL}]
    /\ target \in [Thread -> Items \cup {NULL}]

\* The counter of an object is the number of places that own a reference to it,
\* and of the references that Keep and New count and forget (kept); it is one less
\* for the string of a print, which is released without having been counted.
CountExact ==
    \A o \in Obj : ref_count[o] = Cardinality(Holders(o)) + kept[o]

\* No goroutine can reach an object that was freed: not through anything that
\* owns a reference, and not through the pointer that an instruction has read
\* and not yet counted.
NoDangling ==
    /\ \A p \in Place : at[p] # NULL => heap[at[p]] = "live"
    /\ \A t \in Thread : ptr[t] # NULL => heap[ptr[t]] = "live"

\* The step that gives up the last reference to an object frees it, unless a
\* reference to it was counted and forgotten.
Reclaimed ==
    [][ Running' => \A o \in Obj :
            Referred(at, o) /\ kept[o] = 0 /\ ~Referred(at', o) => heap'[o] = "freed" ]_vars

\* docs/04-runtime/memory.md: memory is freed as soon as it is no longer needed.
\* What is allocated is referred to, or is being built.
FreedWhenUnneeded ==
    \A o \in Obj : heap[o] = "live" =>
        \/ Referred(at, o)
        \/ \E t \in Thread : pc[t] = "build" /\ ptr[t] = o

\* A freed object stays freed: its counter is not touched again, so it is not
\* freed twice.
FreedOnce ==
    [][ Running' => \A o \in Obj : heap[o] = "freed" =>
            heap'[o] = "freed" /\ ref_count'[o] = ref_count[o] ]_vars
=============================================================================
