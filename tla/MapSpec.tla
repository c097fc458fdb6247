------------------------------- MODULE MapSpec ------------------------------
(***************************************************************************)
(* What a map of Opo promises: each key has the value last set for it, and *)
(* a deleted key has none; an operation changes its own key, once, and     *)
(* nothing else while it runs.  Module OpoMap keeps the entries in a hash  *)
(* table and implements this one.                                          *)
(***************************************************************************)
CONSTANTS Keys, Values, Absent

VARIABLES
    contents,   \* the value of each key, or Absent
    call        \* the operation under way

vars == <<contents, call>>

None == [op |-> "none"]

Init ==
    /\ contents = [k \in Keys |-> Absent]
    /\ call = None

Set(k, v) ==
    /\ call = None
    /\ call' = [op |-> "set", key |-> k, value |-> v]
    /\ UNCHANGED contents

EndSet ==
    /\ call.op = "set"
    /\ contents' = [contents EXCEPT ![call.key] = call.value]
    /\ call' = None

Delete(k) ==
    /\ call = None
    /\ contents[k] # Absent
    /\ contents' = [contents EXCEPT ![k] = Absent]
    /\ call' = [op |-> "delete"]

EndDelete ==
    /\ call.op = "delete"
    /\ call' = None
    /\ UNCHANGED contents

Next ==
    \/ EndSet \/ EndDelete
    \/ \E k \in Keys : Delete(k) \/ \E v \in Values : Set(k, v)

Spec == Init /\ [][Next]_vars
=============================================================================
