----------------------------- MODULE OpoChannel -----------------------------
(***************************************************************************)
(* A channel of the Opo virtual machine (ObjChan in src/src/vm.h) and the  *)
(* goroutines that use it through OP_SEND, OP_RECV and the native close(). *)
(*                                                                         *)
(* Every field of the channel is read and written with chan->mutex held,   *)
(* so a stretch of code between two acquisitions of the mutex is one       *)
(* action, or two when the code goes on holding it (variable mutex).       *)
(* pthread_cond_wait puts the thread in the wait set of the condition      *)
(* variable and frees the mutex; pthread_cond_signal takes some thread out *)
(* of the set, pthread_cond_broadcast empties it.  A thread taken out goes *)
(* back to the test of its while loop once it gets the mutex again.        *)
(*                                                                         *)
(* A goroutine is the sequence of channel operations it performs, Program; *)
(* the value it sends with its i-th operation is <<t, i>>, so that every   *)
(* value is sent at most once and can be traced.                           *)
(***************************************************************************)
EXTENDS Integers, Sequences, FiniteSets

CONSTANTS
    Threads,    \* the goroutines that hold the channel
    Requested,  \* the capacity the program asked for: chan<T>(Requested)
    Program,    \* Program[t]: the channel operations of t, in order
    Guarded,    \* goroutines whose sends are inside a try block
    Spurious,   \* TRUE: pthread_cond_wait may return without a signal
    Void,       \* VAL_VOID, also what an unwritten slot is taken to hold
    Free        \* nobody holds the mutex

Ops == {"send", "recv", "close"}

ASSUME ChannelAssumption ==
    /\ IsFiniteSet(Threads)
    /\ Requested \in Int
    /\ Program \in [Threads -> Seq(Ops)]
    /\ Guarded \subseteq Threads
    /\ Spurious \in BOOLEAN
    /\ Free \notin Threads

Capacity == IF Requested >= 0 THEN Requested ELSE 0

Message(t, i) == <<t, i>>
Messages == Threads \X (Nat \ {0})

VARIABLES
    \* the fields of ObjChan
    buffer, count, head, tail,
    waiting_receivers, has_unbuffered_value, unbuffered_value,
    closed, mutex, send_cond, recv_cond,
    \* the goroutines: where each is, and which operation it performs next
    pc, at,
    \* the process ended in exit(1)
    exited,
    \* history: values in the order they were stored and taken
    sent, received

ring == <<buffer, count, head, tail>>
slot == <<waiting_receivers, has_unbuffered_value, unbuffered_value>>
conds == <<send_cond, recv_cond>>
vars == <<ring, slot, closed, mutex, conds, pc, at, exited, sent, received>>

Positions == {"ready", "offer", "handoff", "full", "take", "empty"}

Init ==
    /\ buffer = [i \in 0 .. Capacity - 1 |-> Void]
    /\ count = 0 /\ head = 0 /\ tail = 0
    /\ waiting_receivers = 0
    /\ has_unbuffered_value = FALSE
    /\ unbuffered_value = Void
    /\ closed = FALSE
    /\ mutex = Free
    /\ send_cond = {} /\ recv_cond = {}
    /\ pc = [t \in Threads |-> "ready"]
    /\ at = [t \in Threads |-> 1]
    /\ exited = FALSE
    /\ sent = <<>> /\ received = <<>>

-----------------------------------------------------------------------------
(* The goroutine's own steps *)

Done(t) == at[t] > Len(Program[t])
Parked(t) == t \in send_cond \/ t \in recv_cond

\* t has the mutex, or is not waiting for a signal and gets it now
Runs(t) == ~exited /\ mutex \in {Free, t} /\ ~Parked(t)

\* t performs operation op now, or is in the loop of it that position p names
Performs(t, op, p) ==
    /\ Runs(t)
    /\ ~Done(t)
    /\ Program[t][at[t]] = op
    /\ pc[t] \in {"ready", p}

Goto(t, p) == pc' = [pc EXCEPT ![t] = p] /\ UNCHANGED at

\* the operation is over: the next instruction of the goroutine runs
Finish(t) ==
    /\ pc' = [pc EXCEPT ![t] = "ready"]
    /\ at' = [at EXCEPT ![t] = @ + 1]
    /\ mutex' = Free

\* pthread_cond_signal(cond)
Signal(cond, cond1) ==
    \/ cond = {} /\ cond1 = {}
    \/ \E w \in cond : cond1 = cond \ {w}

\* pthread_cond_wait(&chan->send_cond, &chan->mutex)
WaitToSend(t) ==
    /\ send_cond' = send_cond \cup {t}
    /\ mutex' = Free
    /\ UNCHANGED recv_cond

\* pthread_cond_wait(&chan->recv_cond, &chan->mutex)
WaitToReceive(t) ==
    /\ recv_cond' = recv_cond \cup {t}
    /\ mutex' = Free
    /\ UNCHANGED send_cond

-----------------------------------------------------------------------------
(* OP_SEND *)

\* what either kind of send does on a closed channel: runtime_error jumps to
\* the handler of the try block, or ends the process when there is none
SendClosed(t) ==
    /\ Performs(t, "send", IF Capacity = 0 THEN "offer" ELSE "full")
    /\ closed
    /\ IF t \in Guarded
         THEN Finish(t) /\ UNCHANGED exited
         ELSE exited' = TRUE /\ UNCHANGED <<pc, at, mutex>>
    /\ UNCHANGED <<ring, slot, closed, conds, sent, received>>

\* unbuffered, first loop: no receiver, or another sender's value is there
OfferWait(t) ==
    /\ Capacity = 0
    /\ Performs(t, "send", "offer")
    /\ ~closed
    /\ waiting_receivers = 0 \/ has_unbuffered_value
    /\ Goto(t, "offer")
    /\ WaitToSend(t)
    /\ UNCHANGED <<ring, slot, closed, exited, sent, received>>

\* Mutant: no test that a receiver is there
Offer_NoReceiver(t) ==
    /\ Capacity = 0
    /\ Performs(t, "send", "offer")
    /\ ~closed
    /\ ~has_unbuffered_value
    /\ unbuffered_value' = Message(t, at[t])
    /\ has_unbuffered_value' = TRUE
    /\ sent' = Append(sent, Message(t, at[t]))
    /\ Signal(recv_cond, recv_cond')
    /\ Goto(t, "handoff")
    /\ mutex' = t
    /\ UNCHANGED <<ring, waiting_receivers, closed, send_cond, exited, received>>

\* unbuffered: the value is put in the slot, the mutex stays held
Offer(t) ==
    /\ Capacity = 0
    /\ Performs(t, "send", "offer")
    /\ ~closed
    /\ waiting_receivers # 0
    /\ ~has_unbuffered_value
    /\ unbuffered_value' = Message(t, at[t])
    /\ has_unbuffered_value' = TRUE
    /\ sent' = Append(sent, Message(t, at[t]))
    /\ Signal(recv_cond, recv_cond')
    /\ Goto(t, "handoff")
    /\ mutex' = t
    /\ UNCHANGED <<ring, waiting_receivers, closed, send_cond, exited, received>>

\* unbuffered, second loop: the slot is still occupied
HandoffWait(t) ==
    /\ pc[t] = "handoff"
    /\ Runs(t)
    /\ ~closed
    /\ has_unbuffered_value
    /\ WaitToSend(t)
    /\ UNCHANGED <<ring, slot, closed, pc, at, exited, sent, received>>

\* Mutant: the second loop is an if that a wakeup ends
HandoffDone_NoTest(t) ==
    /\ pc[t] = "handoff"
    /\ Runs(t)
    /\ Finish(t)
    /\ UNCHANGED <<ring, slot, closed, conds, exited, sent, received>>

HandoffDone(t) ==
    /\ pc[t] = "handoff"
    /\ Runs(t)
    /\ closed \/ ~has_unbuffered_value
    /\ Finish(t)
    /\ UNCHANGED <<ring, slot, closed, conds, exited, sent, received>>

\* buffered: the ring is full
FullWait(t) ==
    /\ Capacity > 0
    /\ Performs(t, "send", "full")
    /\ count = Capacity
    /\ ~closed
    /\ Goto(t, "full")
    /\ WaitToSend(t)
    /\ UNCHANGED <<ring, slot, closed, exited, sent, received>>

\* Mutants: the index is not wrapped; the signal is sent only when the ring
\* was empty; the signal goes to the senders
Send_NoWrap(t) ==
    /\ Capacity > 0
    /\ Performs(t, "send", "full")
    /\ count # Capacity
    /\ ~closed
    /\ buffer' = [buffer EXCEPT ![tail] = Message(t, at[t])]
    /\ tail' = tail + 1
    /\ count' = count + 1
    /\ sent' = Append(sent, Message(t, at[t]))
    /\ Signal(recv_cond, recv_cond')
    /\ Finish(t)
    /\ UNCHANGED <<head, slot, closed, send_cond, exited, received>>

Send_SignalWhenEmpty(t) ==
    /\ Capacity > 0
    /\ Performs(t, "send", "full")
    /\ count # Capacity
    /\ ~closed
    /\ buffer' = [buffer EXCEPT ![tail] = Message(t, at[t])]
    /\ tail' = (tail + 1) % Capacity
    /\ count' = count + 1
    /\ sent' = Append(sent, Message(t, at[t]))
    /\ IF count = 0 THEN Signal(recv_cond, recv_cond') ELSE UNCHANGED recv_cond
    /\ Finish(t)
    /\ UNCHANGED <<head, slot, closed, send_cond, exited, received>>

Send_SignalSenders(t) ==
    /\ Capacity > 0
    /\ Performs(t, "send", "full")
    /\ count # Capacity
    /\ ~closed
    /\ buffer' = [buffer EXCEPT ![tail] = Message(t, at[t])]
    /\ tail' = (tail + 1) % Capacity
    /\ count' = count + 1
    /\ sent' = Append(sent, Message(t, at[t]))
    /\ Signal(send_cond, send_cond')
    /\ Finish(t)
    /\ UNCHANGED <<head, slot, closed, recv_cond, exited, received>>

Send(t) ==
    /\ Capacity > 0
    /\ Performs(t, "send", "full")
    /\ count # Capacity
    /\ ~closed
    /\ buffer' = [buffer EXCEPT ![tail] = Message(t, at[t])]
    /\ tail' = (tail + 1) % Capacity
    /\ count' = count + 1
    /\ sent' = Append(sent, Message(t, at[t]))
    /\ Signal(recv_cond, recv_cond')
    /\ Finish(t)
    /\ UNCHANGED <<head, slot, closed, send_cond, exited, received>>

-----------------------------------------------------------------------------
(* OP_RECV *)

\* unbuffered: the receiver counts itself, wakes a sender and keeps the mutex
Arrive(t) ==
    /\ Capacity = 0
    /\ Performs(t, "recv", "ready")
    /\ waiting_receivers' = waiting_receivers + 1
    /\ Signal(send_cond, send_cond')
    /\ Goto(t, "take")
    /\ mutex' = t
    /\ UNCHANGED <<ring, has_unbuffered_value, unbuffered_value, closed,
                   recv_cond, exited, sent, received>>

TakeWait(t) ==
    /\ pc[t] = "take"
    /\ Runs(t)
    /\ ~has_unbuffered_value
    /\ ~closed
    /\ WaitToReceive(t)
    /\ UNCHANGED <<ring, slot, closed, pc, at, exited, sent, received>>

\* the channel was closed with nothing to take: the receiver gets VAL_VOID
\* Mutants: the receiver stays counted; closed is tested before the slot
TakeVoid_StillCounted(t) ==
    /\ pc[t] = "take"
    /\ Runs(t)
    /\ ~has_unbuffered_value
    /\ closed
    /\ Finish(t)
    /\ UNCHANGED <<ring, slot, closed, conds, exited, sent, received>>

TakeVoid_ClosedFirst(t) ==
    /\ pc[t] = "take"
    /\ Runs(t)
    /\ closed
    /\ waiting_receivers' = waiting_receivers - 1
    /\ Finish(t)
    /\ UNCHANGED <<ring, has_unbuffered_value, unbuffered_value, closed,
                   conds, exited, sent, received>>

TakeVoid(t) ==
    /\ pc[t] = "take"
    /\ Runs(t)
    /\ ~has_unbuffered_value
    /\ closed
    /\ waiting_receivers' = waiting_receivers - 1
    /\ Finish(t)
    /\ UNCHANGED <<ring, has_unbuffered_value, unbuffered_value, closed,
                   conds, exited, sent, received>>

\* Mutant: the sender is not told
Take_NoSignal(t) ==
    /\ pc[t] = "take"
    /\ Runs(t)
    /\ has_unbuffered_value
    /\ received' = Append(received, unbuffered_value)
    /\ unbuffered_value' = Void
    /\ has_unbuffered_value' = FALSE
    /\ waiting_receivers' = waiting_receivers - 1
    /\ Finish(t)
    /\ UNCHANGED <<ring, closed, conds, exited, sent>>

Take(t) ==
    /\ pc[t] = "take"
    /\ Runs(t)
    /\ has_unbuffered_value
    /\ received' = Append(received, unbuffered_value)
    /\ unbuffered_value' = Void
    /\ has_unbuffered_value' = FALSE
    /\ waiting_receivers' = waiting_receivers - 1
    /\ Signal(send_cond, send_cond')
    /\ Finish(t)
    /\ UNCHANGED <<ring, closed, recv_cond, exited, sent>>

\* buffered: the ring is empty
EmptyWait(t) ==
    /\ Capacity > 0
    /\ Performs(t, "recv", "empty")
    /\ count = 0
    /\ ~closed
    /\ Goto(t, "empty")
    /\ WaitToReceive(t)
    /\ UNCHANGED <<ring, slot, closed, exited, sent, received>>

\* Mutant: a closed channel is not drained
ReceiveVoid_NotDrained(t) ==
    /\ Capacity > 0
    /\ Performs(t, "recv", "empty")
    /\ closed
    /\ Finish(t)
    /\ UNCHANGED <<ring, slot, closed, conds, exited, sent, received>>

ReceiveVoid(t) ==
    /\ Capacity > 0
    /\ Performs(t, "recv", "empty")
    /\ count = 0
    /\ closed
    /\ Finish(t)
    /\ UNCHANGED <<ring, slot, closed, conds, exited, sent, received>>

\* Mutants: the newest value is taken; no sender is told
Receive_Newest(t) ==
    /\ Capacity > 0
    /\ Performs(t, "recv", "empty")
    /\ count # 0
    /\ received' = Append(received, buffer[(head + count - 1) % Capacity])
    /\ head' = (head + 1) % Capacity
    /\ count' = count - 1
    /\ Signal(send_cond, send_cond')
    /\ Finish(t)
    /\ UNCHANGED <<buffer, tail, slot, closed, recv_cond, exited, sent>>

Receive_NoSignal(t) ==
    /\ Capacity > 0
    /\ Performs(t, "recv", "empty")
    /\ count # 0
    /\ received' = Append(received, buffer[head])
    /\ head' = (head + 1) % Capacity
    /\ count' = count - 1
    /\ Finish(t)
    /\ UNCHANGED <<buffer, tail, slot, closed, conds, exited, sent>>

Receive(t) ==
    /\ Capacity > 0
    /\ Performs(t, "recv", "empty")
    /\ count # 0
    /\ received' = Append(received, buffer[head])
    /\ head' = (head + 1) % Capacity
    /\ count' = count - 1
    /\ Signal(send_cond, send_cond')
    /\ Finish(t)
    /\ UNCHANGED <<buffer, tail, slot, closed, recv_cond, exited, sent>>

-----------------------------------------------------------------------------
(* close() and wakeups nobody asked for *)

\* Mutant: only the receivers are woken
Close_OnlyReceivers(t) ==
    /\ Performs(t, "close", "ready")
    /\ closed' = TRUE
    /\ recv_cond' = {}
    /\ Finish(t)
    /\ UNCHANGED <<ring, slot, send_cond, exited, sent, received>>

Close(t) ==
    /\ Performs(t, "close", "ready")
    /\ closed' = TRUE
    /\ send_cond' = {} /\ recv_cond' = {}
    /\ Finish(t)
    /\ UNCHANGED <<ring, slot, exited, sent, received>>

SpuriousWakeup(t) ==
    /\ Spurious
    /\ ~exited
    /\ Parked(t)
    /\ send_cond' = send_cond \ {t}
    /\ recv_cond' = recv_cond \ {t}
    /\ UNCHANGED <<ring, slot, closed, mutex, pc, at, exited, sent, received>>

SendStep(t) ==
    \/ SendClosed(t)
    \/ OfferWait(t) \/ Offer(t) \/ HandoffWait(t) \/ HandoffDone(t)
    \/ FullWait(t) \/ Send(t)

ReceiveStep(t) ==
    \/ Arrive(t) \/ TakeWait(t) \/ TakeVoid(t) \/ Take(t)
    \/ EmptyWait(t) \/ ReceiveVoid(t) \/ Receive(t)

Step(t) == SendStep(t) \/ ReceiveStep(t) \/ Close(t)

\* every goroutine is through its program, or the process is gone
Finished == exited \/ \A t \in Threads : Done(t)
Terminated == Finished /\ UNCHANGED vars

Next == (\E t \in Threads : Step(t) \/ SpuriousWakeup(t)) \/ Terminated

\* The kernel runs every thread that is not waiting for a signal.  Nothing is
\* assumed of which waiter a signal picks, nor of spurious wakeups, nor that a
\* program that may close the channel ever does.
Fairness == \A t \in Threads : WF_vars(SendStep(t) \/ ReceiveStep(t))

Spec == Init /\ [][Next]_vars /\ Fairness

-----------------------------------------------------------------------------
(* Properties *)

\* Every variable has its type; the indices stay inside the ring, and only
\* senders sleep on send_cond, only receivers on recv_cond.
TypeOK ==
    /\ buffer \in [0 .. Capacity - 1 -> Messages \cup {Void}]
    /\ count \in 0 .. Capacity
    /\ head \in Nat /\ (Capacity > 0 => head < Capacity)
    /\ tail \in Nat /\ (Capacity > 0 => tail < Capacity)
    /\ waiting_receivers \in Nat
    /\ has_unbuffered_value \in BOOLEAN
    /\ unbuffered_value \in Messages \cup {Void}
    /\ closed \in BOOLEAN
    /\ mutex \in Threads \cup {Free}
    /\ send_cond \in SUBSET {t \in Threads : pc[t] \in {"offer", "handoff", "full"}}
    /\ recv_cond \in SUBSET {t \in Threads : pc[t] \in {"take", "empty"}}
    /\ pc \in [Threads -> Positions]
    /\ at \in [Threads -> Nat \ {0}]
    /\ exited \in BOOLEAN
    /\ sent \in Seq(Messages)
    /\ received \in Seq(Messages)

\* What the channel holds, oldest value first.
Contents ==
    IF Capacity > 0
      THEN [i \in 1 .. count |-> buffer[(head + i - 1) % Capacity]]
      ELSE IF has_unbuffered_value THEN <<unbuffered_value>> ELSE <<>>

\* The values come out in the order they went in, each of them once and none
\* that was never written: head, tail, count and the wrap of the indices in
\* OP_SEND and OP_RECV agree, and so do the flag and the slot.
FirstInFirstOut == sent = received \o Contents

\* A goroutine that left pthread_cond_wait and has not run its test yet
Woken(p) == {t \in Threads : pc[t] = p /\ ~Parked(t)}

\* The single pthread_cond_signal per stored or taken value is enough: while
\* senders sleep on a full buffer, every place that has become free has a
\* woken sender on its way; the same for receivers and values.
NoLostWakeup ==
    Capacity > 0 /\ ~closed =>
        /\ send_cond # {} => Cardinality(Woken("full")) >= Capacity - count
        /\ recv_cond # {} => Cardinality(Woken("empty")) >= count

\* waiting_receivers counts the goroutines inside an unbuffered receive, and
\* a value is in the slot only while one of them is there to take it.
ValueHasTaker ==
    /\ waiting_receivers = Cardinality({t \in Threads : pc[t] = "take"})
    /\ has_unbuffered_value => \E t \in Threads : pc[t] = "take"

\* An unbuffered send that succeeds on an open channel returns after its own
\* value was received, also when other senders used the slot meanwhile.
ReturnsAfterReceipt ==
    [][\A t \in Threads :
          pc[t] = "handoff" /\ pc'[t] = "ready" /\ ~closed
            => \E i \in 1 .. Len(received) : received[i] = Message(t, at[t])]_vars

\* A sender whose value was accepted by an unbuffered channel was not fooled:
\* when all goroutines are through, every accepted value was received, also
\* the one that was in the slot when close() sent its sender away.
AcceptedIsReceived ==
    Capacity = 0 /\ Finished /\ ~exited => sent = received

\* The channel implements the queue of ChannelSpec.
Abstract == INSTANCE ChannelSpec WITH
    queue <- Contents,
    waiting <- {t \in Threads : pc[t] = "take"},
    handing <- {t \in Threads : pc[t] = "handoff"}

\* Every step is a step of the abstract channel or changes nothing in it.
ImplementsQueue == Abstract!Spec

\* A goroutine that the channel could serve is served.
Responsive == Abstract!Responsive

\* close() wakes everybody: after it no goroutine stays in a send or receive.
CloseReleases == closed ~> (exited \/ \A t \in Threads : pc[t] = "ready")

\* When there are as many sends as receives all of them return, whether or not
\* the channel is closed, unless one of them ends the process.
AllFinish ==
    <>(exited \/ \A t \in Threads : Done(t) \/ Program[t][at[t]] = "close")
=============================================================================
