---------------------------- MODULE ChannelSpec -----------------------------
(***************************************************************************)
(* What a channel of Opo promises to the goroutines that use it: a bounded *)
(* first-in first-out queue that can be closed, or, with capacity 0, a     *)
(* place where a sender meets a receiver.  No mutex, no condition variable *)
(* and no ring: module OpoChannel has those, and implements this one.      *)
(***************************************************************************)
EXTENDS Integers, Sequences

CONSTANTS Threads, Capacity, Program, Guarded

VARIABLES
    queue,      \* the values sent and not received, oldest first
    closed,
    waiting,    \* goroutines that receive from an unbuffered channel
    handing,    \* goroutines whose value is in the hands of the channel
    at,         \* the operation each goroutine performs next
    received,   \* the values received, in order
    exited

vars == <<queue, closed, waiting, handing, at, received, exited>>

Init ==
    /\ queue = <<>>
    /\ closed = FALSE
    /\ waiting = {} /\ handing = {}
    /\ at = [t \in Threads |-> 1]
    /\ received = <<>>
    /\ exited = FALSE

Performs(t, op) ==
    /\ ~exited
    /\ at[t] <= Len(Program[t])
    /\ Program[t][at[t]] = op
    /\ t \notin handing

Advance(t) == at' = [at EXCEPT ![t] = @ + 1]

Room == IF Capacity > 0 THEN Len(queue) < Capacity
                        ELSE queue = <<>> /\ waiting # {}

CanSend(t) == Performs(t, "send") /\ ~closed /\ Room
CanReturn(t) == ~exited /\ t \in handing
                    /\ (closed \/ \A i \in 1 .. Len(queue) : queue[i] # <<t, at[t]>>)
CanReceive(t) == Performs(t, "recv") /\ (queue # <<>> \/ closed)

\* the value enters the queue; without a buffer the sender waits for its taker
Send(t) ==
    /\ CanSend(t)
    /\ queue' = Append(queue, <<t, at[t]>>)
    /\ IF Capacity > 0
         THEN Advance(t) /\ UNCHANGED handing
         ELSE handing' = handing \cup {t} /\ UNCHANGED at
    /\ UNCHANGED <<closed, waiting, received, exited>>

Return(t) ==
    /\ CanReturn(t)
    /\ handing' = handing \ {t}
    /\ Advance(t)
    /\ UNCHANGED <<queue, closed, waiting, received, exited>>

\* sending on a closed channel is an error, fatal outside a try block
Fail(t) ==
    /\ Performs(t, "send")
    /\ closed
    /\ IF t \in Guarded
         THEN Advance(t) /\ UNCHANGED exited
         ELSE exited' = TRUE /\ UNCHANGED at
    /\ UNCHANGED <<queue, closed, waiting, handing, received>>

Arrive(t) ==
    /\ Capacity = 0
    /\ Performs(t, "recv")
    /\ waiting' = waiting \cup {t}
    /\ UNCHANGED <<queue, closed, handing, at, received, exited>>

\* the oldest value, or nothing once the channel is closed and drained
Receive(t) ==
    /\ CanReceive(t)
    /\ Capacity = 0 => t \in waiting
    /\ IF queue # <<>>
         THEN /\ received' = Append(received, Head(queue))
              /\ queue' = Tail(queue)
         ELSE UNCHANGED <<received, queue>>
    /\ waiting' = waiting \ {t}
    /\ Advance(t)
    /\ UNCHANGED <<closed, handing, exited>>

Close(t) ==
    /\ Performs(t, "close")
    /\ closed' = TRUE
    /\ Advance(t)
    /\ UNCHANGED <<queue, waiting, handing, received, exited>>

Next == \E t \in Threads :
    Send(t) \/ Return(t) \/ Fail(t) \/ Arrive(t) \/ Receive(t) \/ Close(t)

\* No goroutine can go on with its operation and stays there forever.
Responsive == \A t \in Threads :
    []<>~(CanSend(t) \/ CanReturn(t) \/ CanReceive(t))

Spec == Init /\ [][Next]_vars
=============================================================================
