-------------------------- MODULE OpoChannelProofs --------------------------
(***************************************************************************)
(* Proofs about OpoChannel, for every set of goroutines, every program of  *)
(* channel operations and every capacity.                                  *)
(***************************************************************************)
EXTENDS OpoChannel, FiniteSetTheorems, TLAPS

LEMMA CapacityType == Capacity \in Nat
BY ChannelAssumption DEF Capacity

\* The index after x in a ring of c slots.
LEMMA NextIndex ==
    ASSUME NEW c \in Nat \ {0}, NEW x \in 0 .. c - 1
    PROVE  (x + 1) % c = IF x + 1 = c THEN 0 ELSE x + 1
OBVIOUS

\* What Append does to a sequence.
LEMMA AppendFacts ==
    ASSUME NEW S, NEW s \in Seq(S), NEW e \in S
    PROVE  /\ Append(s, e) \in Seq(S)
           /\ Len(s) \in Nat
           /\ Len(Append(s, e)) = Len(s) + 1
           /\ Append(s, e)[Len(s) + 1] = e
           /\ \A i \in 1 .. Len(s) : Append(s, e)[i] = s[i]
OBVIOUS

\* The slot of the i-th value (from 0) behind head, without arithmetic modulo.
SlotAt(i) == IF head + i < Capacity THEN head + i ELSE head + i - Capacity

\* The ring holds the values sent and not received, at the slots from head on.
RingHolds ==
    Capacity > 0 =>
        /\ tail = SlotAt(count)
        /\ Len(sent) = Len(received) + count
        /\ \A i \in 0 .. count - 1 : buffer[SlotAt(i)] = sent[Len(received) + i + 1]

\* The slot of an unbuffered channel holds the one value sent and not received.
SlotHolds ==
    Capacity = 0 =>
        /\ Len(sent) = Len(received) + (IF has_unbuffered_value THEN 1 ELSE 0)
        /\ has_unbuffered_value => unbuffered_value = sent[Len(sent)]

ReceivedIsPrefix ==
    /\ Len(received) <= Len(sent)
    /\ \A i \in 1 .. Len(received) : received[i] = sent[i]

\* A goroutine is in a loop of its kind of channel only, and the one that
\* holds the mutex does not sleep.
PositionOK ==
    /\ \A t \in Threads :
          /\ pc[t] \in {"offer", "handoff", "take"} => Capacity = 0
          /\ pc[t] \in {"full", "empty"} => Capacity > 0
    /\ mutex # Free => ~Parked(mutex)

Inv == TypeOK /\ PositionOK /\ RingHolds /\ SlotHolds /\ ReceivedIsPrefix

LEMMA InitInv == Init => Inv
<1> SUFFICES ASSUME Init PROVE Inv
  OBVIOUS
<1> USE CapacityType, ChannelAssumption DEF Init
<1>1. TypeOK
  <2>1. buffer \in [0 .. Capacity - 1 -> Messages \cup {Void}]
    OBVIOUS
  <2>2. sent \in Seq(Messages) /\ received \in Seq(Messages)
    OBVIOUS
  <2>3. pc \in [Threads -> Positions] /\ at \in [Threads -> Nat \ {0}]
    BY DEF Positions
  <2>4. count \in 0 .. Capacity /\ head \in Nat /\ tail \in Nat
        /\ (Capacity > 0 => head < Capacity /\ tail < Capacity)
    OBVIOUS
  <2> QED BY <2>1, <2>2, <2>3, <2>4 DEF TypeOK
<1>2. PositionOK /\ RingHolds /\ SlotHolds /\ ReceivedIsPrefix
  BY DEF PositionOK, RingHolds, SlotHolds, ReceivedIsPrefix, SlotAt
<1> QED BY <1>1, <1>2 DEF Inv

LEMMA SendInv ==
    ASSUME Inv, NEW t \in Threads, Send(t)
    PROVE  Inv'
<1> USE CapacityType
<1>0. Capacity \in Nat \ {0} /\ tail \in 0 .. Capacity - 1
  BY DEF Send, Inv, TypeOK
<1>1. tail' = IF tail + 1 = Capacity THEN 0 ELSE tail + 1
  BY <1>0, NextIndex DEF Send
<1>2. Message(t, at[t]) \in Messages
  BY DEF Message, Messages, Inv, TypeOK
<1>a. /\ sent' \in Seq(Messages)
      /\ Len(sent) \in Nat /\ Len(sent') = Len(sent) + 1
      /\ sent'[Len(sent) + 1] = Message(t, at[t])
      /\ \A i \in 1 .. Len(sent) : sent'[i] = sent[i]
      /\ received' = received /\ Len(received) \in Nat
  BY <1>2, AppendFacts DEF Send, Inv, TypeOK
<1>b. /\ count \in 0 .. Capacity - 1 /\ count' = count + 1
      /\ head \in 0 .. Capacity - 1 /\ head' = head
      /\ Len(sent) = Len(received) + count
      /\ tail = SlotAt(count)
      /\ \A i \in 0 .. count - 1 : buffer[SlotAt(i)] = sent[Len(received) + i + 1]
  BY <1>0 DEF Send, Inv, TypeOK, RingHolds
<1>3. TypeOK'
  <2>1. buffer' \in [0 .. Capacity - 1 -> Messages \cup {Void}]
    BY <1>2 DEF Send, Inv, TypeOK
  <2>2. count' \in 0 .. Capacity /\ head' = head /\ tail' \in 0 .. Capacity - 1
    BY <1>0, <1>1 DEF Send, Inv, TypeOK
  <2>3. pc' \in [Threads -> Positions] /\ at' \in [Threads -> Nat \ {0}]
    BY DEF Send, Finish, Inv, TypeOK, Positions
  <2>4. send_cond' \in SUBSET {u \in Threads : pc'[u] \in {"offer", "handoff", "full"}}
    BY DEF Send, Finish, Performs, Runs, Parked, Inv, TypeOK
  <2>5. recv_cond' \in SUBSET {u \in Threads : pc'[u] \in {"take", "empty"}}
    BY DEF Send, Finish, Performs, Runs, Parked, Signal, Inv, TypeOK
  <2>6. mutex' = Free /\ UNCHANGED <<slot, closed, exited>>
    BY DEF Send, Finish
  <2> QED
    BY <1>a, <2>1, <2>2, <2>3, <2>4, <2>5, <2>6 DEF TypeOK, Inv, slot
<1>4. PositionOK'
  <2>1. mutex' = Free /\ \A u \in Threads : pc'[u] = pc[u] \/ pc'[u] = "ready"
    BY DEF Send, Finish, Inv, TypeOK
  <2> QED BY <2>1 DEF PositionOK, Inv
<1>5. RingHolds'
  <2>1. tail' = SlotAt(count)'
    BY <1>0, <1>1, <1>b, SMTT(30) DEF SlotAt
  <2>2. Len(sent') = Len(received') + count'
    BY <1>a, <1>b
  <2>3. ASSUME NEW i \in 0 .. count' - 1
        PROVE  buffer'[SlotAt(i)'] = sent'[Len(received') + i + 1]
    <3>1. CASE i = count
      <4>1. SlotAt(i)' = tail
        BY <1>0, <1>b, <3>1 DEF SlotAt
      <4>2. buffer'[tail] = Message(t, at[t])
        BY <1>0 DEF Send, Inv, TypeOK
      <4> QED BY <1>a, <1>b, <3>1, <4>1, <4>2
    <3>2. CASE i \in 0 .. count - 1
      <4>1. SlotAt(i)' = SlotAt(i) /\ SlotAt(i) # tail /\ SlotAt(i) \in 0 .. Capacity - 1
        BY <1>0, <1>b, <3>2 DEF SlotAt
      <4>2. buffer'[SlotAt(i)] = buffer[SlotAt(i)]
        BY <4>1 DEF Send, Inv, TypeOK
      <4>3. Len(received) + i + 1 \in 1 .. Len(sent)
        BY <1>a, <1>b, <3>2
      <4> QED BY <1>a, <1>b, <3>2, <4>1, <4>2, <4>3
    <3> QED BY <1>b, <3>1, <3>2
  <2> QED BY <2>1, <2>2, <2>3 DEF RingHolds
<1>6. SlotHolds'
  BY <1>0 DEF SlotHolds
<1>7. ReceivedIsPrefix'
  BY <1>a DEF ReceivedIsPrefix, Inv, TypeOK
<1> QED BY <1>3, <1>4, <1>5, <1>6, <1>7 DEF Inv

LEMMA ReceiveInv ==
    ASSUME Inv, NEW t \in Threads, Receive(t)
    PROVE  Inv'
<1> USE CapacityType
<1>0. Capacity \in Nat \ {0} /\ head \in 0 .. Capacity - 1
  BY DEF Receive, Inv, TypeOK
<1>1. head' = IF head + 1 = Capacity THEN 0 ELSE head + 1
  BY <1>0, NextIndex DEF Receive
<1>2. /\ count \in 1 .. Capacity /\ count' = count - 1
      /\ Len(sent) = Len(received) + count
      /\ tail = SlotAt(count) /\ tail' = tail
      /\ buffer' = buffer /\ sent' = sent
      /\ \A i \in 0 .. count - 1 : buffer[SlotAt(i)] = sent[Len(received) + i + 1]
  BY <1>0 DEF Receive, Inv, TypeOK, RingHolds
<1>3. sent \in Seq(Messages) /\ received \in Seq(Messages)
  BY DEF Inv, TypeOK
<1>4. buffer[head] = sent[Len(received) + 1] /\ buffer[head] \in Messages
  <2>1. SlotAt(0) = head /\ 0 \in 0 .. count - 1
    BY <1>0, <1>2 DEF SlotAt
  <2>2. Len(received) \in Nat /\ Len(received) + 1 \in 1 .. Len(sent)
    BY <1>2, <1>3
  <2>3. sent[Len(received) + 1] \in Messages
    BY <1>3, <2>2
  <2> QED BY <1>2, <2>1, <2>2, <2>3
<1>a. /\ received' \in Seq(Messages)
      /\ Len(received) \in Nat /\ Len(received') = Len(received) + 1
      /\ received'[Len(received) + 1] = buffer[head]
      /\ \A i \in 1 .. Len(received) : received'[i] = received[i]
  BY <1>3, <1>4, AppendFacts DEF Receive
<1>5. TypeOK'
  <2>1. count' \in 0 .. Capacity /\ head' \in 0 .. Capacity - 1
    BY <1>0, <1>1, <1>2
  <2>2. pc' \in [Threads -> Positions] /\ at' \in [Threads -> Nat \ {0}]
    BY DEF Receive, Finish, Inv, TypeOK, Positions
  <2>3. send_cond' \in SUBSET {u \in Threads : pc'[u] \in {"offer", "handoff", "full"}}
    BY DEF Receive, Finish, Performs, Runs, Parked, Signal, Inv, TypeOK
  <2>4. recv_cond' \in SUBSET {u \in Threads : pc'[u] \in {"take", "empty"}}
    BY DEF Receive, Finish, Performs, Runs, Parked, Inv, TypeOK
  <2>5. mutex' = Free /\ UNCHANGED <<buffer, tail, slot, closed, exited, sent>>
    BY DEF Receive, Finish
  <2> QED
    BY <1>a, <2>1, <2>2, <2>3, <2>4, <2>5 DEF TypeOK, Inv, slot
<1>6. PositionOK'
  <2>1. mutex' = Free /\ \A u \in Threads : pc'[u] = pc[u] \/ pc'[u] = "ready"
    BY DEF Receive, Finish, Inv, TypeOK
  <2> QED BY <2>1 DEF PositionOK, Inv
<1>7. RingHolds'
  <2>1. tail' = SlotAt(count)'
    BY <1>0, <1>1, <1>2 DEF SlotAt
  <2>2. Len(sent') = Len(received') + count'
    BY <1>2, <1>a
  <2>3. ASSUME NEW i \in 0 .. count' - 1
        PROVE  buffer'[SlotAt(i)'] = sent'[Len(received') + i + 1]
    <3>1. i + 1 \in 0 .. count - 1 /\ SlotAt(i)' = SlotAt(i + 1)
      BY <1>0, <1>1, <1>2 DEF SlotAt
    <3>2. buffer[SlotAt(i + 1)] = sent[Len(received) + (i + 1) + 1]
      BY <1>2, <3>1
    <3>3. Len(received) + (i + 1) + 1 = Len(received') + i + 1
      BY <1>a
    <3> QED BY <1>2, <3>1, <3>2, <3>3
  <2> QED BY <2>1, <2>2, <2>3 DEF RingHolds
<1>8. SlotHolds'
  BY <1>0 DEF SlotHolds
<1>9. ReceivedIsPrefix'
  BY <1>2, <1>3, <1>4, <1>a DEF ReceivedIsPrefix, Inv
<1> QED BY <1>5, <1>6, <1>7, <1>8, <1>9 DEF Inv

LEMMA OfferInv ==
    ASSUME Inv, NEW t \in Threads, Offer(t)
    PROVE  Inv'
<1> USE CapacityType
<1>1. Message(t, at[t]) \in Messages
  BY DEF Message, Messages, Inv, TypeOK
<1>2. sent \in Seq(Messages) /\ received \in Seq(Messages) /\ received' = received
  BY DEF Inv, TypeOK, Offer
<1>3. /\ sent' \in Seq(Messages)
      /\ Len(sent) \in Nat /\ Len(received) \in Nat /\ Len(sent') = Len(sent) + 1
      /\ sent'[Len(sent) + 1] = Message(t, at[t])
      /\ \A i \in 1 .. Len(sent) : sent'[i] = sent[i]
  BY <1>1, <1>2, AppendFacts DEF Offer
<1>4. TypeOK'
  <2>1. pc' \in [Threads -> Positions] /\ at' \in [Threads -> Nat \ {0}]
    BY DEF Offer, Goto, Inv, TypeOK, Positions
  <2>2. send_cond' \in SUBSET {u \in Threads : pc'[u] \in {"offer", "handoff", "full"}}
    BY DEF Offer, Goto, Performs, Runs, Parked, Inv, TypeOK
  <2>3. recv_cond' \in SUBSET {u \in Threads : pc'[u] \in {"take", "empty"}}
    BY DEF Offer, Goto, Performs, Runs, Parked, Signal, Inv, TypeOK
  <2>4. /\ mutex' = t /\ unbuffered_value' = Message(t, at[t])
        /\ has_unbuffered_value' = TRUE
        /\ UNCHANGED <<ring, waiting_receivers, closed, exited>>
    BY DEF Offer
  <2> QED
    BY <1>1, <1>2, <1>3, <2>1, <2>2, <2>3, <2>4 DEF TypeOK, Inv, ring
<1>5. PositionOK'
  <2>1. Capacity = 0 /\ \A u \in Threads : pc'[u] = pc[u] \/ pc'[u] = "handoff"
    BY DEF Offer, Goto, Inv, TypeOK
  <2>2. ~Parked(t)'
    BY DEF Offer, Performs, Runs, Parked, Signal
  <2> QED BY <2>1, <2>2 DEF PositionOK, Inv, Offer, Parked
<1>6. RingHolds'
  BY DEF RingHolds, Offer
<1>7. SlotHolds'
  <2>1. Len(sent) = Len(received)
    BY <1>3 DEF Offer, Inv, SlotHolds
  <2> QED BY <1>2, <1>3, <2>1 DEF SlotHolds, Offer
<1>8. ReceivedIsPrefix'
  BY <1>2, <1>3 DEF ReceivedIsPrefix, Inv
<1> QED BY <1>4, <1>5, <1>6, <1>7, <1>8 DEF Inv

LEMMA TakeInv ==
    ASSUME Inv, NEW t \in Threads, Take(t), waiting_receivers > 0
    PROVE  Inv'
<1> USE CapacityType
<1>0. Capacity = 0
  BY DEF Take, Inv, PositionOK
<1>1. sent \in Seq(Messages) /\ received \in Seq(Messages) /\ sent' = sent
  BY DEF Inv, TypeOK, Take
<1>2. /\ Len(sent) = Len(received) + 1
      /\ unbuffered_value = sent[Len(sent)] /\ unbuffered_value \in Messages
  BY <1>0, <1>1 DEF Take, Inv, TypeOK, SlotHolds
<1>3. /\ received' \in Seq(Messages)
      /\ Len(sent) \in Nat /\ Len(received) \in Nat /\ Len(received') = Len(received) + 1
      /\ received'[Len(received) + 1] = unbuffered_value
      /\ \A i \in 1 .. Len(received) : received'[i] = received[i]
  BY <1>1, <1>2, AppendFacts DEF Take
<1>4. TypeOK'
  <2>1. pc' \in [Threads -> Positions] /\ at' \in [Threads -> Nat \ {0}]
    BY DEF Take, Finish, Inv, TypeOK, Positions
  <2>2. send_cond' \in SUBSET {u \in Threads : pc'[u] \in {"offer", "handoff", "full"}}
    BY DEF Take, Finish, Runs, Parked, Signal, Inv, TypeOK
  <2>3. recv_cond' \in SUBSET {u \in Threads : pc'[u] \in {"take", "empty"}}
    BY DEF Take, Finish, Runs, Parked, Inv, TypeOK
  <2>4. /\ mutex' = Free /\ unbuffered_value' = Void /\ has_unbuffered_value' = FALSE
        /\ waiting_receivers' \in Nat
        /\ UNCHANGED <<ring, closed, exited>>
    BY DEF Take, Finish, Inv, TypeOK
  <2> QED
    BY <1>1, <1>3, <2>1, <2>2, <2>3, <2>4 DEF TypeOK, Inv, ring
<1>5. PositionOK'
  <2>1. mutex' = Free /\ \A u \in Threads : pc'[u] = pc[u] \/ pc'[u] = "ready"
    BY DEF Take, Finish, Inv, TypeOK
  <2> QED BY <2>1 DEF PositionOK, Inv
<1>6. RingHolds'
  BY <1>0 DEF RingHolds
<1>7. SlotHolds'
  BY <1>1, <1>2, <1>3 DEF SlotHolds, Take
<1>8. ReceivedIsPrefix'
  BY <1>1, <1>2, <1>3 DEF ReceivedIsPrefix, Inv
<1> QED BY <1>4, <1>5, <1>6, <1>7, <1>8 DEF Inv

-----------------------------------------------------------------------------
(* The steps that move no value *)

Quiet == UNCHANGED <<ring, has_unbuffered_value, unbuffered_value, sent, received>>

LEMMA QuietInv ==
    ASSUME Inv, Quiet, PositionOK',
           pc' \in [Threads -> Positions], at' \in [Threads -> Nat \ {0}],
           waiting_receivers' \in Nat, closed' \in BOOLEAN, exited' \in BOOLEAN,
           mutex' \in Threads \cup {Free},
           send_cond' \in SUBSET {u \in Threads : pc'[u] \in {"offer", "handoff", "full"}},
           recv_cond' \in SUBSET {u \in Threads : pc'[u] \in {"take", "empty"}}
    PROVE  Inv'
<1>1. TypeOK'
  BY DEF TypeOK, Inv, Quiet, ring
<1>2. RingHolds' /\ SlotHolds' /\ ReceivedIsPrefix'
  BY DEF RingHolds, SlotHolds, ReceivedIsPrefix, SlotAt, Inv, Quiet, ring
<1> QED BY <1>1, <1>2 DEF Inv

LEMMA SendWaitInv ==
    ASSUME Inv, NEW t \in Threads,
           OfferWait(t) \/ FullWait(t) \/ HandoffWait(t)
    PROVE  Inv'
<1>1. /\ pc' \in [Threads -> Positions] /\ at' = at
      /\ pc'[t] \in {"offer", "full", "handoff"}
      /\ \A u \in Threads \ {t} : pc'[u] = pc[u]
      /\ (pc'[t] \in {"offer", "handoff"} => Capacity = 0)
      /\ (pc'[t] = "full" => Capacity > 0)
  BY DEF OfferWait, FullWait, HandoffWait, Goto, Inv, TypeOK, Positions, PositionOK
<1>2. send_cond' = send_cond \cup {t} /\ recv_cond' = recv_cond /\ t \notin recv_cond
      /\ mutex' = Free /\ Quiet /\ UNCHANGED <<waiting_receivers, closed, exited>>
  BY DEF OfferWait, FullWait, HandoffWait, WaitToSend, Performs, Runs, Parked, Quiet,
         slot
<1>3. PositionOK'
  <2>1. ASSUME NEW u \in Threads
        PROVE  /\ pc'[u] \in {"offer", "handoff", "take"} => Capacity = 0
               /\ pc'[u] \in {"full", "empty"} => Capacity > 0
    <3>1. CASE u = t
      BY <1>1, <3>1
    <3>2. CASE u # t
      BY <1>1, <3>2 DEF PositionOK, Inv
    <3> QED BY <3>1, <3>2
  <2>2. (mutex # Free => ~Parked(mutex))'
    BY <1>2
  <2>3. Capacity' = Capacity
    BY DEF Capacity
  <2> QED BY <2>1, <2>2, <2>3 DEF PositionOK
<1>4. send_cond' \in SUBSET {u \in Threads : pc'[u] \in {"offer", "handoff", "full"}}
      /\ recv_cond' \in SUBSET {u \in Threads : pc'[u] \in {"take", "empty"}}
  BY <1>1, <1>2 DEF Inv, TypeOK
<1> QED BY <1>1, <1>2, <1>3, <1>4, QuietInv DEF Inv, TypeOK

LEMMA ReceiveWaitInv ==
    ASSUME Inv, NEW t \in Threads, TakeWait(t) \/ EmptyWait(t)
    PROVE  Inv'
<1>1. /\ pc' \in [Threads -> Positions] /\ at' = at
      /\ pc'[t] \in {"take", "empty"}
      /\ \A u \in Threads \ {t} : pc'[u] = pc[u]
      /\ (pc'[t] = "take" => Capacity = 0)
      /\ (pc'[t] = "empty" => Capacity > 0)
  BY DEF TakeWait, EmptyWait, Goto, Inv, TypeOK, Positions, PositionOK
<1>2. recv_cond' = recv_cond \cup {t} /\ send_cond' = send_cond /\ t \notin send_cond
      /\ mutex' = Free /\ Quiet /\ UNCHANGED <<waiting_receivers, closed, exited>>
  BY DEF TakeWait, EmptyWait, WaitToReceive, Performs, Runs, Parked, Quiet, slot
<1>3. PositionOK'
  <2>1. ASSUME NEW u \in Threads
        PROVE  /\ pc'[u] \in {"offer", "handoff", "take"} => Capacity = 0
               /\ pc'[u] \in {"full", "empty"} => Capacity > 0
    <3>1. CASE u = t
      BY <1>1, <3>1
    <3>2. CASE u # t
      BY <1>1, <3>2 DEF PositionOK, Inv
    <3> QED BY <3>1, <3>2
  <2>2. (mutex # Free => ~Parked(mutex))'
    BY <1>2
  <2>3. Capacity' = Capacity
    BY DEF Capacity
  <2> QED BY <2>1, <2>2, <2>3 DEF PositionOK
<1>4. send_cond' \in SUBSET {u \in Threads : pc'[u] \in {"offer", "handoff", "full"}}
      /\ recv_cond' \in SUBSET {u \in Threads : pc'[u] \in {"take", "empty"}}
  BY <1>1, <1>2 DEF Inv, TypeOK
<1> QED BY <1>1, <1>2, <1>3, <1>4, QuietInv DEF Inv, TypeOK

\* t ends its operation: no value moves, no wait set grows.
LEMMA FinishInv ==
    ASSUME Inv, NEW t \in Threads, Finish(t), Quiet, ~Parked(t),
           send_cond' \subseteq send_cond, recv_cond' \subseteq recv_cond,
           waiting_receivers' \in Nat, closed' \in BOOLEAN, exited' = exited
    PROVE  Inv'
<1>1. /\ pc' \in [Threads -> Positions] /\ at' \in [Threads -> Nat \ {0}]
      /\ mutex' = Free /\ pc'[t] = "ready"
      /\ \A u \in Threads \ {t} : pc'[u] = pc[u]
  BY DEF Finish, Inv, TypeOK, Positions
<1>2. PositionOK'
  BY <1>1 DEF PositionOK, Inv
<1>3. send_cond' \in SUBSET {u \in Threads : pc'[u] \in {"offer", "handoff", "full"}}
      /\ recv_cond' \in SUBSET {u \in Threads : pc'[u] \in {"take", "empty"}}
  BY <1>1 DEF Inv, TypeOK, Parked
<1> QED BY <1>1, <1>2, <1>3, QuietInv DEF Inv, TypeOK

LEMMA SendClosedInv ==
    ASSUME Inv, NEW t \in Threads, SendClosed(t)
    PROVE  Inv'
<1>1. CASE t \in Guarded
  BY <1>1, FinishInv DEF SendClosed, Performs, Runs, Quiet, slot, conds, Inv, TypeOK
<1>2. CASE t \notin Guarded
  <2>1. Quiet /\ UNCHANGED <<waiting_receivers, closed, pc, at, mutex, send_cond, recv_cond>>
        /\ exited' = TRUE
    BY <1>2 DEF SendClosed, Quiet, slot, conds
  <2>2. PositionOK'
    BY <2>1 DEF PositionOK, Parked, Inv
  <2> QED BY <2>1, <2>2, QuietInv DEF Inv, TypeOK
<1> QED BY <1>1, <1>2

LEMMA EndInv ==
    ASSUME Inv, NEW t \in Threads,
           HandoffDone(t) \/ ReceiveVoid(t) \/ Close(t)
    PROVE  Inv'
<1>1. /\ Finish(t) /\ Quiet /\ ~Parked(t)
      /\ send_cond' \subseteq send_cond /\ recv_cond' \subseteq recv_cond
      /\ closed' \in BOOLEAN /\ UNCHANGED <<waiting_receivers, exited>>
  BY DEF HandoffDone, ReceiveVoid, Close, Performs, Runs, Quiet, slot, conds, Inv, TypeOK
<1> QED BY <1>1, FinishInv DEF Inv, TypeOK

LEMMA TakeVoidInv ==
    ASSUME Inv, NEW t \in Threads, TakeVoid(t), waiting_receivers > 0
    PROVE  Inv'
<1>1. /\ Finish(t) /\ Quiet /\ ~Parked(t)
      /\ send_cond' \subseteq send_cond /\ recv_cond' \subseteq recv_cond
      /\ waiting_receivers' \in Nat /\ UNCHANGED <<closed, exited>>
  BY DEF TakeVoid, Runs, Quiet, conds, Inv, TypeOK
<1> QED BY <1>1, FinishInv DEF Inv, TypeOK

LEMMA ArriveInv ==
    ASSUME Inv, NEW t \in Threads, Arrive(t)
    PROVE  Inv'
<1>1. /\ pc' \in [Threads -> Positions] /\ pc'[t] = "take" /\ Capacity = 0
      /\ \A u \in Threads \ {t} : pc'[u] = pc[u]
  BY DEF Arrive, Goto, Inv, TypeOK, Positions
<1>2. /\ Quiet /\ ~Parked(t) /\ mutex' = t
      /\ send_cond' \subseteq send_cond /\ UNCHANGED <<recv_cond, at, closed, exited>>
      /\ waiting_receivers' \in Nat
  BY DEF Arrive, Goto, Performs, Runs, Signal, Quiet, Inv, TypeOK
<1>3. PositionOK'
  BY <1>1, <1>2 DEF PositionOK, Parked, Inv
<1>4. send_cond' \in SUBSET {u \in Threads : pc'[u] \in {"offer", "handoff", "full"}}
      /\ recv_cond' \in SUBSET {u \in Threads : pc'[u] \in {"take", "empty"}}
  BY <1>1, <1>2 DEF Inv, TypeOK, Parked
<1> QED BY <1>1, <1>2, <1>3, <1>4, QuietInv DEF Inv, TypeOK

LEMMA SpuriousInv ==
    ASSUME Inv, NEW t \in Threads, SpuriousWakeup(t)
    PROVE  Inv'
<1>1. /\ Quiet /\ UNCHANGED <<pc, at, mutex, waiting_receivers, closed, exited>>
      /\ send_cond' \subseteq send_cond /\ recv_cond' \subseteq recv_cond
  BY DEF SpuriousWakeup, Quiet, slot
<1>2. PositionOK'
  BY <1>1 DEF PositionOK, Parked, Inv
<1> QED BY <1>1, <1>2, QuietInv DEF Inv, TypeOK

-----------------------------------------------------------------------------
(* The receivers of an unbuffered channel are counted *)

Takers == {t \in Threads : pc[t] = "take"}

\* a goroutine inside an operation has not ended its program
BusyOK == \A t \in Threads : pc[t] # "ready" => ~Done(t)

Counted ==
    /\ waiting_receivers = Cardinality(Takers)
    /\ has_unbuffered_value => Takers # {}
    /\ BusyOK

LEMMA TakersFinite == IsFiniteSet(Takers) /\ Cardinality(Takers) \in Nat
<1>1. IsFiniteSet(Threads)
  BY ChannelAssumption
<1>2. Takers \in SUBSET Threads
  BY DEF Takers
<1> QED BY <1>1, <1>2, FS_Subset, FS_CardinalityType

LEMMA InitCounted == Init => Counted
<1> SUFFICES ASSUME Init PROVE Counted
  OBVIOUS
<1>1. Takers = {}
  BY DEF Init, Takers
<1> QED BY <1>1, FS_EmptySet DEF Init, Counted, BusyOK

\* What a receiver that is inside the operation knows of the counter.
LEMMA TakerCounted ==
    ASSUME Counted, NEW t \in Threads, pc[t] = "take"
    PROVE  waiting_receivers > 0
<1>1. t \in Takers
  BY DEF Takers
<1>2. Cardinality(Takers) # 0
  BY <1>1, TakersFinite, FS_EmptySet
<1> QED BY <1>2, TakersFinite DEF Counted

\* A step that leaves the receivers and their counter as they are.
LEMMA SameTakers ==
    ASSUME Counted, Inv, NEW t \in Threads,
           \A u \in Threads \ {t} : pc'[u] = pc[u] /\ at'[u] = at[u],
           pc[t] # "take", pc'[t] # "take",
           pc'[t] # "ready" => ~Done(t)',
           waiting_receivers' = waiting_receivers,
           has_unbuffered_value' => Takers # {}
    PROVE  Counted'
<1>1. Takers' = Takers
  BY DEF Takers
<1>2. BusyOK'
  <2>1. ASSUME NEW u \in Threads, pc'[u] # "ready"
        PROVE  ~Done(u)'
    BY <2>1 DEF Counted, BusyOK, Done
  <2> QED BY <2>1 DEF BusyOK
<1> QED BY <1>1, <1>2 DEF Counted

LEMMA StepCounted ==
    ASSUME Inv, Counted, NEW t \in Threads, Step(t)
    PROVE  Counted'
<1> USE DEF Goto, Finish, Performs, Runs
<1>0. pc \in [Threads -> Positions] /\ at \in [Threads -> Nat \ {0}]
  BY DEF Inv, TypeOK
<1>1. CASE Arrive(t)
  <2>1. Takers' = Takers \cup {t} /\ t \notin Takers
    BY <1>0, <1>1 DEF Arrive, Takers
  <2>2. Cardinality(Takers') = Cardinality(Takers) + 1
    BY <2>1, TakersFinite, FS_AddElement
  <2>3. BusyOK'
    BY <1>0, <1>1 DEF Arrive, BusyOK, Counted, Done
  <2> QED BY <1>1, <2>1, <2>2, <2>3 DEF Arrive, Counted
<1>2. CASE TakeVoid(t) \/ Take(t)
  <2>1. Takers' = Takers \ {t} /\ t \in Takers
    BY <1>0, <1>2 DEF TakeVoid, Take, Takers
  <2>2. Cardinality(Takers') = Cardinality(Takers) - 1
    BY <2>1, TakersFinite, FS_RemoveElement
  <2>3. BusyOK'
    BY <1>0, <1>2 DEF TakeVoid, Take, BusyOK, Counted, Done
  <2>4. ~has_unbuffered_value' /\ waiting_receivers' = waiting_receivers - 1
    BY <1>2 DEF TakeVoid, Take
  <2> QED BY <2>2, <2>3, <2>4 DEF Counted
<1>3. CASE TakeWait(t)
  <2>1. Takers' = Takers
    BY <1>3 DEF TakeWait, Takers
  <2> QED BY <1>3, <2>1 DEF TakeWait, Counted, BusyOK, Done, slot
<1>4. CASE Offer(t)
  <2>1. Takers # {}
    BY <1>4, FS_EmptySet DEF Offer, Counted
  <2> QED BY <1>0, <1>4, <2>1, SameTakers DEF Offer, Done
<1>5. CASE OfferWait(t) \/ HandoffWait(t) \/ FullWait(t) \/ EmptyWait(t)
  BY <1>0, <1>5, SameTakers DEF OfferWait, HandoffWait, FullWait, EmptyWait, Counted,
     BusyOK, Done, slot
<1>6. CASE SendClosed(t)
  <2>1. CASE t \in Guarded
    BY <1>0, <1>6, <2>1, SameTakers DEF SendClosed, Counted, slot
  <2>2. CASE t \notin Guarded
    BY <1>0, <1>6, <2>2, SameTakers DEF SendClosed, Counted, BusyOK, Done, slot
  <2> QED BY <2>1, <2>2
<1>7. CASE HandoffDone(t) \/ Send(t) \/ ReceiveVoid(t) \/ Receive(t) \/ Close(t)
  BY <1>0, <1>7, SameTakers DEF HandoffDone, Send, ReceiveVoid, Receive, Close, Counted, slot
<1> QED
  BY <1>1, <1>2, <1>3, <1>4, <1>5, <1>6, <1>7 DEF Step, SendStep, ReceiveStep

LEMMA StepInv ==
    ASSUME Inv, Counted, NEW t \in Threads, Step(t)
    PROVE  Inv'
<1>1. CASE Take(t) \/ TakeVoid(t)
  BY <1>1, TakeInv, TakeVoidInv, TakerCounted DEF Take, TakeVoid
<1>2. CASE OfferWait(t) \/ FullWait(t) \/ HandoffWait(t)
  BY <1>2, SendWaitInv
<1>3. CASE TakeWait(t) \/ EmptyWait(t)
  BY <1>3, ReceiveWaitInv
<1>4. CASE HandoffDone(t) \/ ReceiveVoid(t) \/ Close(t)
  BY <1>4, EndInv
<1> QED
  BY <1>1, <1>2, <1>3, <1>4, SendInv, ReceiveInv, OfferInv, SendClosedInv, ArriveInv
     DEF Step, SendStep, ReceiveStep

LEMMA NextInv ==
    ASSUME Inv, Counted, [Next]_vars
    PROVE  Inv' /\ Counted'
<1>1. CASE UNCHANGED vars
  BY <1>1 DEF vars, ring, slot, conds, Inv, TypeOK, PositionOK, Parked, RingHolds,
     SlotHolds, SlotAt, ReceivedIsPrefix, Counted, Takers, BusyOK, Done
<1>2. ASSUME NEW t \in Threads, Step(t)
      PROVE  Inv' /\ Counted'
  BY <1>2, StepInv, StepCounted
<1>3. ASSUME NEW t \in Threads, SpuriousWakeup(t)
      PROVE  Inv' /\ Counted'
  <2>1. Takers' = Takers
    BY <1>3 DEF SpuriousWakeup, Takers
  <2> QED BY <1>3, <2>1, SpuriousInv DEF SpuriousWakeup, Counted, BusyOK, Done, slot
<1> QED BY <1>1, <1>2, <1>3 DEF Next, Terminated

LEMMA Invariance == Spec => [](Inv /\ Counted)
<1>1. Init => Inv /\ Counted
  BY InitInv, InitCounted
<1>2. Inv /\ Counted /\ [Next]_vars => (Inv /\ Counted)'
  BY NextInv
<1> QED BY <1>1, <1>2, PTL DEF Spec

\* Type correctness of the channel and of the goroutines that use it.
THEOREM TypeCorrect == Spec => []TypeOK
<1>1. Inv /\ Counted => TypeOK
  BY DEF Inv
<1> QED BY <1>1, Invariance, PTL

\* waiting_receivers is the number of goroutines inside an unbuffered receive,
\* and a value in the slot always has one of them to take it.
THEOREM TakerPresent == Spec => []ValueHasTaker
<1>1. Inv /\ Counted => ValueHasTaker
  BY DEF Counted, Takers, ValueHasTaker
<1> QED BY <1>1, Invariance, PTL

-----------------------------------------------------------------------------
(* No wakeup of a buffered channel is lost *)

SendersAwake == send_cond # {} => Cardinality(Woken("full")) >= Capacity - count
ReceiversAwake == recv_cond # {} => Cardinality(Woken("empty")) >= count

LEMMA WokenFinite ==
    ASSUME NEW p
    PROVE  IsFiniteSet(Woken(p)) /\ Cardinality(Woken(p)) \in Nat
<1>1. IsFiniteSet(Threads)
  BY ChannelAssumption
<1>2. Woken(p) \in SUBSET Threads
  BY DEF Woken
<1> QED BY <1>1, <1>2, FS_Subset, FS_CardinalityType

LEMMA WokenFinite1 ==
    ASSUME NEW p
    PROVE  IsFiniteSet(Woken(p)') /\ Cardinality(Woken(p)') \in Nat
<1>1. IsFiniteSet(Threads)
  BY ChannelAssumption
<1>2. Woken(p)' \in SUBSET Threads
  BY DEF Woken
<1> QED BY <1>1, <1>2, FS_Subset, FS_CardinalityType

\* Losing at most t from the woken goroutines costs at most one, and waking
\* another one makes up for it.
LEMMA WokenLoses ==
    ASSUME NEW p, NEW t, Woken(p) \ {t} \subseteq Woken(p)'
    PROVE  Cardinality(Woken(p)') >= Cardinality(Woken(p)) - 1
<1>0. /\ IsFiniteSet(Woken(p) \ {t})
      /\ Cardinality(Woken(p) \ {t}) =
            IF t \in Woken(p) THEN Cardinality(Woken(p)) - 1 ELSE Cardinality(Woken(p))
  BY WokenFinite, FS_RemoveElement
<1>1. /\ Cardinality(Woken(p) \ {t}) >= Cardinality(Woken(p)) - 1
      /\ Cardinality(Woken(p) \ {t}) \in Nat
  BY <1>0, WokenFinite, FS_CardinalityType
<1>2. Cardinality(Woken(p) \ {t}) <= Cardinality(Woken(p)')
  BY WokenFinite1, FS_Subset
<1> QED BY <1>1, <1>2, WokenFinite, WokenFinite1

LEMMA WokenKept ==
    ASSUME NEW p, Woken(p) \subseteq Woken(p)'
    PROVE  Cardinality(Woken(p)') >= Cardinality(Woken(p))
BY WokenFinite, WokenFinite1, FS_Subset

LEMMA WokenGains ==
    ASSUME NEW p, NEW w, w \notin Woken(p), Woken(p) \cup {w} \subseteq Woken(p)'
    PROVE  Cardinality(Woken(p)') >= Cardinality(Woken(p)) + 1
<1>1. IsFiniteSet(Woken(p) \cup {w})
      /\ Cardinality(Woken(p) \cup {w}) = Cardinality(Woken(p)) + 1
  BY WokenFinite, FS_AddElement
<1>2. Cardinality(Woken(p) \cup {w}) <= Cardinality(Woken(p)')
  BY WokenFinite1, FS_Subset
<1> QED BY <1>1, <1>2, WokenFinite, WokenFinite1

LEMMA SendKeepsAwake ==
    ASSUME Inv, NoLostWakeup, NEW t \in Threads, Send(t)
    PROVE  NoLostWakeup'
<1> USE DEF Finish, Performs, Runs, Parked
<1>0. /\ pc \in [Threads -> Positions] /\ count \in Nat /\ count' = count + 1
      /\ Capacity \in Nat /\ Capacity > 0 /\ ~closed /\ closed' = closed
      /\ send_cond' = send_cond
      /\ send_cond \subseteq Threads /\ recv_cond \subseteq Threads
      /\ \A u \in recv_cond : pc[u] = "empty" /\ u # t /\ u \notin send_cond
  BY CapacityType DEF Send, Inv, TypeOK, PositionOK
<1>1. SendersAwake'
  <2>1. Woken("full") \ {t} \subseteq Woken("full")'
    BY <1>0 DEF Send, Woken, Signal
  <2>2. Cardinality(Woken("full")') >= Cardinality(Woken("full")) - 1
    BY <2>1, WokenLoses
  <2> QED BY <1>0, <2>2, WokenFinite, WokenFinite1 DEF SendersAwake, NoLostWakeup
<1>2. ReceiversAwake'
  <2>1. CASE recv_cond = {}
    BY <2>1 DEF ReceiversAwake, Send, Signal
  <2>2. CASE recv_cond # {}
    <3>1. PICK w \in recv_cond : recv_cond' = recv_cond \ {w}
      BY <2>2 DEF Send, Signal
    <3>2. w \notin Woken("empty") /\ Woken("empty") \cup {w} \subseteq Woken("empty")'
      BY <1>0, <3>1 DEF Send, Woken
    <3>3. Cardinality(Woken("empty")') >= Cardinality(Woken("empty")) + 1
      BY <3>2, WokenGains
    <3> QED BY <1>0, <2>2, <3>3, WokenFinite, WokenFinite1 DEF ReceiversAwake, NoLostWakeup
  <2> QED BY <2>1, <2>2
<1> QED BY <1>1, <1>2 DEF NoLostWakeup, SendersAwake, ReceiversAwake

LEMMA ReceiveKeepsAwake ==
    ASSUME Inv, NoLostWakeup, NEW t \in Threads, Receive(t)
    PROVE  NoLostWakeup'
<1> USE DEF Finish, Performs, Runs, Parked
<1>0. /\ pc \in [Threads -> Positions] /\ count \in Nat /\ count' = count - 1
      /\ Capacity \in Nat /\ Capacity > 0 /\ closed' = closed
      /\ recv_cond' = recv_cond
      /\ send_cond \subseteq Threads /\ recv_cond \subseteq Threads
      /\ \A u \in send_cond : pc[u] = "full" /\ u # t /\ u \notin recv_cond
  BY CapacityType DEF Receive, Inv, TypeOK, PositionOK
<1>1. CASE closed
  BY <1>0, <1>1 DEF NoLostWakeup
<1>2. CASE ~closed
  <2>1. ReceiversAwake'
    <3>1. Woken("empty") \ {t} \subseteq Woken("empty")'
      BY <1>0 DEF Receive, Woken, Signal
    <3>2. Cardinality(Woken("empty")') >= Cardinality(Woken("empty")) - 1
      BY <3>1, WokenLoses
    <3> QED BY <1>0, <1>2, <3>2, WokenFinite, WokenFinite1 DEF ReceiversAwake, NoLostWakeup
  <2>2. SendersAwake'
    <3>1. CASE send_cond = {}
      BY <3>1 DEF SendersAwake, Receive, Signal
    <3>2. CASE send_cond # {}
      <4>1. PICK w \in send_cond : send_cond' = send_cond \ {w}
        BY <3>2 DEF Receive, Signal
      <4>2. w \notin Woken("full") /\ Woken("full") \cup {w} \subseteq Woken("full")'
        BY <1>0, <4>1 DEF Receive, Woken
      <4>3. Cardinality(Woken("full")') >= Cardinality(Woken("full")) + 1
        BY <4>2, WokenGains
      <4> QED BY <1>0, <1>2, <3>2, <4>3, WokenFinite, WokenFinite1
             DEF SendersAwake, NoLostWakeup
    <3> QED BY <3>1, <3>2
  <2> QED BY <2>1, <2>2 DEF NoLostWakeup, SendersAwake, ReceiversAwake
<1> QED BY <1>1, <1>2

\* A goroutine that finds the ring full or empty goes back to sleep: nothing
\* is missing then.  Those of the other kind are as awake as before.
LEMMA WaitKeepsAwake ==
    ASSUME Inv, NoLostWakeup, NEW t \in Threads, FullWait(t) \/ EmptyWait(t)
    PROVE  NoLostWakeup'
<1> USE DEF Goto, Performs, Runs, Parked
<1>0. /\ pc \in [Threads -> Positions] /\ count \in Nat /\ count' = count
      /\ Capacity \in Nat /\ Capacity > 0 /\ ~closed /\ closed' = closed
  BY CapacityType DEF FullWait, EmptyWait, Inv, TypeOK, ring
<1>1. CASE FullWait(t)
  <2>1. SendersAwake'
    BY <1>0, <1>1, WokenFinite1 DEF SendersAwake, FullWait
  <2>2. Woken("empty") \subseteq Woken("empty")' /\ recv_cond' = recv_cond
    BY <1>0, <1>1 DEF FullWait, WaitToSend, Woken
  <2>3. Cardinality(Woken("empty")') >= Cardinality(Woken("empty"))
    BY <2>2, WokenKept
  <2> QED BY <1>0, <2>1, <2>2, <2>3, WokenFinite, WokenFinite1
         DEF NoLostWakeup, SendersAwake, ReceiversAwake
<1>2. CASE EmptyWait(t)
  <2>1. ReceiversAwake'
    BY <1>0, <1>2, WokenFinite1 DEF ReceiversAwake, EmptyWait
  <2>2. Woken("full") \subseteq Woken("full")' /\ send_cond' = send_cond
    BY <1>0, <1>2 DEF EmptyWait, WaitToReceive, Woken
  <2>3. Cardinality(Woken("full")') >= Cardinality(Woken("full"))
    BY <2>2, WokenKept
  <2> QED BY <1>0, <2>1, <2>2, <2>3, WokenFinite, WokenFinite1
         DEF NoLostWakeup, SendersAwake, ReceiversAwake
<1> QED BY <1>1, <1>2

LEMMA SpuriousKeepsAwake ==
    ASSUME Inv, NoLostWakeup, NEW t \in Threads, SpuriousWakeup(t)
    PROVE  NoLostWakeup'
<1>1. CASE Capacity > 0 /\ ~closed
  <2>0. count \in Nat /\ count' = count /\ Capacity \in Nat /\ closed' = closed
        /\ send_cond' \subseteq send_cond /\ recv_cond' \subseteq recv_cond
    BY CapacityType DEF SpuriousWakeup, Inv, TypeOK, ring
  <2>1. /\ Woken("full") \subseteq Woken("full")'
        /\ Woken("empty") \subseteq Woken("empty")'
    BY DEF SpuriousWakeup, Woken, Parked
  <2>2. /\ Cardinality(Woken("full")') >= Cardinality(Woken("full"))
        /\ Cardinality(Woken("empty")') >= Cardinality(Woken("empty"))
    BY <2>1, WokenKept
  <2> QED BY <1>1, <2>0, <2>2, WokenFinite, WokenFinite1 DEF NoLostWakeup
<1>2. CASE ~(Capacity > 0 /\ ~closed)
  BY <1>2 DEF NoLostWakeup, SpuriousWakeup, Capacity
<1> QED BY <1>1, <1>2

LEMMA NextKeepsAwake ==
    ASSUME Inv, NoLostWakeup, [Next]_vars
    PROVE  NoLostWakeup'
<1>1. CASE UNCHANGED vars
  BY <1>1 DEF vars, ring, slot, conds, NoLostWakeup, Woken, Parked, Capacity
<1>2. CASE ~(Capacity > 0)
  BY <1>2 DEF NoLostWakeup, Capacity
<1>3. ASSUME NEW t \in Threads, Step(t), Capacity > 0
      PROVE  NoLostWakeup'
  <2>1. CASE SendClosed(t) \/ ReceiveVoid(t) \/ Close(t)
    BY <2>1 DEF SendClosed, ReceiveVoid, Close, NoLostWakeup
  <2>2. ~(OfferWait(t) \/ Offer(t) \/ Arrive(t) \/ HandoffWait(t) \/ HandoffDone(t)
            \/ TakeWait(t) \/ TakeVoid(t) \/ Take(t))
    BY <1>3, CapacityType DEF OfferWait, Offer, Arrive, HandoffWait, HandoffDone, TakeWait,
       TakeVoid, Take, Inv, PositionOK
  <2> QED
    BY <1>3, <2>1, <2>2, SendKeepsAwake, ReceiveKeepsAwake, WaitKeepsAwake
       DEF Step, SendStep, ReceiveStep
<1> QED BY <1>1, <1>2, <1>3, SpuriousKeepsAwake DEF Next, Terminated

\* While goroutines sleep on a full (or empty) buffer there are at least as
\* many woken ones as there are free places (or values).
THEOREM WakeupsSuffice == Spec => []NoLostWakeup
<1>1. Init => NoLostWakeup
  BY DEF Init, NoLostWakeup
<1>2. Inv /\ Counted /\ NoLostWakeup /\ [Next]_vars => NoLostWakeup'
  BY NextKeepsAwake
<1> QED BY <1>1, <1>2, Invariance, PTL DEF Spec

-----------------------------------------------------------------------------
(* The values come out in the order they went in *)

\* The slot that OP_RECV computes is the one SlotAt names.
LEMMA ModuloSlot ==
    ASSUME NEW c \in Nat \ {0}, NEW h \in 0 .. c - 1, NEW i \in 0 .. c - 1
    PROVE  (h + i) % c = IF h + i < c THEN h + i ELSE h + i - c
OBVIOUS

LEMMA SameSequence ==
    ASSUME NEW S, NEW a \in Seq(S), NEW b \in Seq(S), Len(a) = Len(b),
           \A i \in 1 .. Len(a) : a[i] = b[i]
    PROVE  a = b
OBVIOUS

LEMMA ConcatFacts ==
    ASSUME NEW S, NEW a \in Seq(S), NEW b \in Seq(S)
    PROVE  /\ a \o b \in Seq(S)
           /\ Len(a \o b) = Len(a) + Len(b)
           /\ \A i \in 1 .. Len(a) : (a \o b)[i] = a[i]
           /\ \A i \in 1 .. Len(b) : (a \o b)[Len(a) + i] = b[i]
OBVIOUS

\* The contents of the channel are the part of sent behind received.
LEMMA ContentsAreRest ==
    ASSUME Inv
    PROVE  /\ Contents \in Seq(Messages)
           /\ Len(sent) = Len(received) + Len(Contents)
           /\ \A i \in 1 .. Len(Contents) : Contents[i] = sent[Len(received) + i]
<1> USE CapacityType
<1>0. /\ sent \in Seq(Messages) /\ received \in Seq(Messages)
      /\ Len(sent) \in Nat /\ Len(received) \in Nat
  BY DEF Inv, TypeOK
<1>1. CASE Capacity > 0
  <2>1. /\ count \in 0 .. Capacity /\ head \in 0 .. Capacity - 1
        /\ Len(sent) = Len(received) + count
        /\ \A i \in 0 .. count - 1 : buffer[SlotAt(i)] = sent[Len(received) + i + 1]
    BY <1>1 DEF Inv, TypeOK, RingHolds
  <2>2. Contents = [i \in 1 .. count |-> buffer[(head + i - 1) % Capacity]]
    BY <1>1 DEF Contents
  <2>3. ASSUME NEW i \in 1 .. count
        PROVE  buffer[(head + i - 1) % Capacity] = sent[Len(received) + i]
    <3>1. i - 1 \in 0 .. count - 1 /\ i - 1 \in 0 .. Capacity - 1
      BY <2>1
    <3>2. (head + (i - 1)) % Capacity = SlotAt(i - 1)
      <4>1. Capacity \in Nat \ {0}
        BY <1>1
      <4>2. (head + (i - 1)) % Capacity = IF head + (i - 1) < Capacity
                THEN head + (i - 1) ELSE head + (i - 1) - Capacity
        BY <2>1, <3>1, <4>1, ModuloSlot
      <4> QED BY <4>2 DEF SlotAt
    <3>3. head + (i - 1) = head + i - 1 /\ Len(received) + (i - 1) + 1 = Len(received) + i
      BY <1>0, <2>1
    <3>4. buffer[SlotAt(i - 1)] = sent[Len(received) + (i - 1) + 1]
      BY <2>1, <3>1
    <3> QED BY <3>2, <3>3, <3>4
  <2>4. ASSUME NEW i \in 1 .. count
        PROVE  sent[Len(received) + i] \in Messages
    <3>1. Len(received) + i \in 1 .. Len(sent)
      BY <1>0, <2>1
    <3> QED BY <1>0, <3>1
  <2>5. Contents = [i \in 1 .. count |-> sent[Len(received) + i]]
    BY <2>2, <2>3
  <2> QED BY <2>1, <2>4, <2>5
<1>2. CASE Capacity = 0
  <2>1. CASE has_unbuffered_value
    <3>1. /\ Contents = <<unbuffered_value>>
          /\ Len(sent) = Len(received) + 1 /\ unbuffered_value = sent[Len(sent)]
      BY <1>2, <2>1 DEF Contents, Inv, SlotHolds
    <3>2. unbuffered_value \in Messages
      BY <1>0, <3>1
    <3> QED BY <1>0, <3>1, <3>2
  <2>2. CASE ~has_unbuffered_value
    <3>1. Contents = <<>> /\ Len(sent) = Len(received)
      BY <1>0, <1>2, <2>2 DEF Contents, Inv, SlotHolds
    <3> QED BY <1>0, <3>1
  <2> QED BY <2>1, <2>2
<1> QED BY <1>1, <1>2

\* For every capacity: what was received and what the channel holds is, in
\* order, what was sent.
THEOREM InOrder == Spec => []FirstInFirstOut
<1>1. ASSUME Inv PROVE FirstInFirstOut
  <2> DEFINE all == received \o Contents
  <2>1. /\ sent \in Seq(Messages) /\ received \in Seq(Messages)
        /\ Contents \in Seq(Messages) /\ Len(received) \in Nat
        /\ \A i \in 1 .. Len(received) : received[i] = sent[i]
        /\ Len(sent) = Len(received) + Len(Contents)
        /\ \A i \in 1 .. Len(Contents) : Contents[i] = sent[Len(received) + i]
    BY <1>1, ContentsAreRest DEF Inv, TypeOK, ReceivedIsPrefix
  <2>2. /\ all \in Seq(Messages) /\ Len(all) = Len(received) + Len(Contents)
        /\ \A i \in 1 .. Len(received) : all[i] = received[i]
        /\ \A i \in 1 .. Len(Contents) : all[Len(received) + i] = Contents[i]
    BY <2>1, ConcatFacts
  <2>3. ASSUME NEW i \in 1 .. Len(sent) PROVE sent[i] = all[i]
    <3>1. CASE i \in 1 .. Len(received)
      BY <2>1, <2>2, <3>1
    <3>2. CASE i \notin 1 .. Len(received)
      <4>1. i - Len(received) \in 1 .. Len(Contents)
            /\ Len(received) + (i - Len(received)) = i
        BY <2>1, <3>2
      <4> QED BY <2>1, <2>2, <4>1
    <3> QED BY <3>1, <3>2
  <2>4. sent = all
    BY <2>1, <2>2, <2>3, SameSequence
  <2> QED BY <2>4 DEF FirstInFirstOut
<1>2. Inv /\ Counted => FirstInFirstOut
  BY <1>1
<1> QED BY <1>2, Invariance, PTL

-----------------------------------------------------------------------------
(* Unbuffered sends return after receipt *)

\* A goroutine in the second loop has its value in the slot or received.
HandedOver ==
    \A t \in Threads : pc[t] = "handoff" =>
        \/ has_unbuffered_value /\ unbuffered_value = Message(t, at[t])
        \/ \E i \in 1 .. Len(received) : received[i] = Message(t, at[t])

LEMMA NextHandedOver ==
    ASSUME Inv, HandedOver, [Next]_vars
    PROVE  HandedOver'
<1>0. /\ pc \in [Threads -> Positions] /\ at \in [Threads -> Nat \ {0}]
      /\ received \in Seq(Messages) /\ Len(received) \in Nat
      /\ unbuffered_value \in Messages \cup {Void}
  BY DEF Inv, TypeOK
<1>1. SUFFICES ASSUME NEW u \in Threads, pc'[u] = "handoff"
      PROVE  \/ has_unbuffered_value' /\ unbuffered_value' = Message(u, at'[u])
             \/ \E i \in 1 .. Len(received') : received'[i] = Message(u, at'[u])
  BY DEF HandedOver, Message
\* the steps after which the slot and what was received are as before
<1>2. ASSUME pc[u] = "handoff", at'[u] = at[u],
             UNCHANGED <<has_unbuffered_value, unbuffered_value, received>>
      PROVE  \/ has_unbuffered_value' /\ unbuffered_value' = Message(u, at'[u])
             \/ \E i \in 1 .. Len(received') : received'[i] = Message(u, at'[u])
  BY <1>2 DEF HandedOver
<1>3. CASE UNCHANGED vars
  BY <1>1, <1>2, <1>3 DEF vars, slot
<1>4. ASSUME NEW t \in Threads, SpuriousWakeup(t)
      PROVE  \/ has_unbuffered_value' /\ unbuffered_value' = Message(u, at'[u])
             \/ \E i \in 1 .. Len(received') : received'[i] = Message(u, at'[u])
  BY <1>1, <1>2, <1>4 DEF SpuriousWakeup, slot
<1>5. ASSUME NEW t \in Threads, Step(t)
      PROVE  \/ has_unbuffered_value' /\ unbuffered_value' = Message(u, at'[u])
             \/ \E i \in 1 .. Len(received') : received'[i] = Message(u, at'[u])
  <2>1. CASE Offer(t)
    <3>1. CASE u = t
      BY <2>1, <3>1 DEF Offer, Goto
    <3>2. CASE u # t
      BY <1>0, <1>1, <2>1, <3>2 DEF Offer, Goto, HandedOver
    <3> QED BY <3>1, <3>2
  <2>2. CASE Take(t)
    <3>1. u # t /\ pc[u] = "handoff" /\ at'[u] = at[u] /\ Capacity = 0
      BY <1>0, <1>1, <2>2 DEF Take, Finish, Inv, PositionOK
    <3>2. unbuffered_value \in Messages
      <4>1. Len(sent) = Len(received) + 1 /\ unbuffered_value = sent[Len(sent)]
        BY <2>2, <3>1 DEF Take, Inv, SlotHolds
      <4> QED BY <1>0, <4>1 DEF Inv, TypeOK
    <3>3. /\ Len(received') = Len(received) + 1
          /\ received'[Len(received) + 1] = unbuffered_value
          /\ \A i \in 1 .. Len(received) : received'[i] = received[i]
      BY <1>0, <2>2, <3>2, AppendFacts DEF Take
    <3>4. CASE unbuffered_value = Message(u, at[u])
      BY <1>0, <3>1, <3>3, <3>4
    <3>5. CASE \E i \in 1 .. Len(received) : received[i] = Message(u, at[u])
      BY <1>0, <3>1, <3>3, <3>5
    <3> QED BY <3>1, <3>4, <3>5 DEF HandedOver
  <2>3. CASE Receive(t) \/ Send(t) \/ FullWait(t) \/ EmptyWait(t) \/ ReceiveVoid(t)
    <3>1. Capacity > 0
      BY <2>3 DEF Receive, Send, FullWait, EmptyWait, ReceiveVoid
    <3>2. pc[u] = "handoff"
      BY <1>0, <1>1, <2>3 DEF Receive, Send, FullWait, EmptyWait, ReceiveVoid, Finish, Goto
    <3> QED BY <3>1, <3>2, CapacityType DEF Inv, PositionOK
  <2>4. CASE SendClosed(t) \/ HandoffDone(t) \/ Close(t)
    BY <1>0, <1>1, <1>2, <2>4 DEF SendClosed, HandoffDone, Close, Finish, slot
  <2>5. CASE OfferWait(t) \/ HandoffWait(t) \/ Arrive(t) \/ TakeWait(t)
    BY <1>0, <1>1, <1>2, <2>5 DEF OfferWait, HandoffWait, Arrive, TakeWait, Goto, slot
  <2>6. CASE TakeVoid(t)
    BY <1>0, <1>1, <1>2, <2>6 DEF TakeVoid, Finish
  <2> QED
    BY <1>5, <2>1, <2>2, <2>3, <2>4, <2>5, <2>6 DEF Step, SendStep, ReceiveStep
<1> QED BY <1>3, <1>4, <1>5 DEF Next, Terminated

LEMMA ReturnStep ==
    ASSUME Inv, HandedOver, [Next]_vars, NEW u \in Threads,
           pc[u] = "handoff", pc'[u] = "ready", ~closed
    PROVE  \E i \in 1 .. Len(received) : received[i] = Message(u, at[u])
<1>0. pc \in [Threads -> Positions] /\ Capacity = 0
  BY DEF Inv, TypeOK, PositionOK
<1>1. PICK t \in Threads : Step(t)
  BY DEF Next, Terminated, vars, SpuriousWakeup
<1>2. t = u
  BY <1>0, <1>1 DEF Step, SendStep, ReceiveStep, SendClosed, OfferWait, Offer,
     HandoffWait, HandoffDone, FullWait, Send, Arrive, TakeWait, TakeVoid, Take, EmptyWait,
     ReceiveVoid, Receive, Close, Goto, Finish
<1>3. HandoffDone(u)
  BY <1>0, <1>1, <1>2 DEF Step, SendStep, ReceiveStep, SendClosed, OfferWait, Offer,
     HandoffWait, FullWait, Send, Arrive, TakeWait, TakeVoid, Take, EmptyWait,
     ReceiveVoid, Receive, Close, Performs
<1> QED BY <1>3 DEF HandoffDone, HandedOver

\* A send on an open unbuffered channel returns after its value was received,
\* however many goroutines share the slot.
THEOREM SendsReturnAfterReceipt == Spec => ReturnsAfterReceipt
<1>1. Init => HandedOver
  BY DEF Init, HandedOver
<1>2. Inv /\ Counted /\ HandedOver /\ [Next]_vars => HandedOver'
  BY NextHandedOver
<1>3. Inv /\ HandedOver /\ [Next]_vars =>
        [\A t \in Threads :
          pc[t] = "handoff" /\ pc'[t] = "ready" /\ ~closed
            => \E i \in 1 .. Len(received) : received[i] = Message(t, at[t])]_vars
  BY ReturnStep
<1> QED BY <1>1, <1>2, <1>3, Invariance, PTL DEF Spec, ReturnsAfterReceipt

\* When all goroutines of an unbuffered channel are through, every value it
\* accepted was received.
THEOREM NothingLost == Spec => []AcceptedIsReceived
<1>1. ASSUME Inv, Counted, Capacity = 0, Finished, ~exited
      PROVE  sent = received
  <2>1. Takers = {}
    BY <1>1 DEF Takers, Counted, BusyOK, Finished
  <2>2. ~has_unbuffered_value
    BY <1>1, <2>1 DEF Counted
  <2>3. sent \in Seq(Messages) /\ received \in Seq(Messages) /\ Len(received) \in Nat
    BY <1>1 DEF Inv, TypeOK
  <2>4. Len(sent) = Len(received) /\ \A i \in 1 .. Len(received) : received[i] = sent[i]
    BY <1>1, <2>2, <2>3 DEF Inv, SlotHolds, ReceivedIsPrefix
  <2> QED BY <2>3, <2>4, SameSequence
<1>2. Inv /\ Counted => AcceptedIsReceived
  BY <1>1 DEF AcceptedIsReceived
<1> QED BY <1>2, Invariance, PTL

-----------------------------------------------------------------------------
(* The channel implements the queue of ChannelSpec *)

\* A goroutine in the loop of an unbuffered receive performs a receive.
Receiving == \A t \in Threads : pc[t] = "take" => Program[t][at[t]] = "recv"

LEMMA NextReceiving ==
    ASSUME Inv, Receiving, [Next]_vars
    PROVE  Receiving'
<1>0. pc \in [Threads -> Positions] /\ at \in [Threads -> Nat \ {0}]
  BY DEF Inv, TypeOK
<1>1. SUFFICES ASSUME NEW u \in Threads, pc'[u] = "take"
               PROVE  Program[u][at'[u]] = "recv"
  BY DEF Receiving
<1>2. CASE UNCHANGED vars
  BY <1>1, <1>2 DEF vars, Receiving
<1>3. ASSUME NEW t \in Threads, SpuriousWakeup(t)
      PROVE  Program[u][at'[u]] = "recv"
  BY <1>1, <1>3 DEF SpuriousWakeup, Receiving
<1>4. ASSUME NEW t \in Threads, Step(t)
      PROVE  Program[u][at'[u]] = "recv"
  <2> USE DEF Receiving, Goto, Finish
  <2>1. CASE Arrive(t)
    BY <1>0, <1>1, <2>1 DEF Arrive, Performs
  <2>2. CASE OfferWait(t) \/ Offer(t) \/ HandoffWait(t) \/ FullWait(t) \/ TakeWait(t)
                \/ EmptyWait(t) \/ SendClosed(t)
    BY <1>0, <1>1, <2>2 DEF OfferWait, Offer, HandoffWait, FullWait, TakeWait, EmptyWait,
       SendClosed
  <2>3. CASE HandoffDone(t) \/ Send(t) \/ TakeVoid(t) \/ Take(t) \/ ReceiveVoid(t)
                \/ Receive(t) \/ Close(t)
    BY <1>0, <1>1, <2>3 DEF HandoffDone, Send, TakeVoid, Take, ReceiveVoid, Receive, Close
  <2> QED BY <1>4, <2>1, <2>2, <2>3 DEF Step, SendStep, ReceiveStep
<1> QED BY <1>2, <1>3, <1>4 DEF Next, Terminated

\* What ContentsAreRest says, before and after a step.
Rest ==
    /\ Contents \in Seq(Messages) /\ Len(Contents) \in Nat
    /\ Len(sent) = Len(received) + Len(Contents)
    /\ \A i \in 1 .. Len(Contents) : Contents[i] = sent[Len(received) + i]

LEMMA RestHolds == Inv => Rest
BY ContentsAreRest DEF Rest

\* A value more was sent: the queue has it at its end.
LEMMA QueueGrows ==
    ASSUME Inv, Inv', NEW v \in Messages,
           sent' = Append(sent, v), received' = received
    PROVE  Contents' = Append(Contents, v)
<1>1. /\ sent \in Seq(Messages) /\ received \in Seq(Messages)
      /\ Len(sent) \in Nat /\ Len(received) \in Nat
  BY DEF Inv, TypeOK
<1>2. /\ Contents \in Seq(Messages) /\ Len(Contents) \in Nat
      /\ Len(sent) = Len(received) + Len(Contents)
      /\ \A i \in 1 .. Len(Contents) : Contents[i] = sent[Len(received) + i]
  BY RestHolds DEF Rest
<1>3. /\ Contents' \in Seq(Messages)
      /\ Len(sent') = Len(received') + Len(Contents')
      /\ \A i \in 1 .. Len(Contents') : Contents'[i] = sent'[Len(received') + i]
  <2>1. Rest'
    BY RestHolds, PTL
  <2> QED BY <2>1 DEF Rest
<1>4. /\ Len(sent') = Len(sent) + 1 /\ sent'[Len(sent) + 1] = v
      /\ \A i \in 1 .. Len(sent) : sent'[i] = sent[i]
  BY <1>1, AppendFacts
<1> DEFINE new == Append(Contents, v)
<1>5. /\ new \in Seq(Messages) /\ Len(new) = Len(Contents) + 1
      /\ new[Len(Contents) + 1] = v
      /\ \A i \in 1 .. Len(Contents) : new[i] = Contents[i]
  BY <1>2, AppendFacts
<1>6. Len(Contents') = Len(new)
  BY <1>1, <1>2, <1>3, <1>4, <1>5
<1>7. ASSUME NEW i \in 1 .. Len(new) PROVE Contents'[i] = new[i]
  <2>1. Contents'[i] = sent'[Len(received) + i]
    BY <1>3, <1>6
  <2>2. CASE i = Len(Contents) + 1
    BY <1>2, <1>4, <1>5, <2>1, <2>2
  <2>3. CASE i \in 1 .. Len(Contents)
    <3>1. Len(received) + i \in 1 .. Len(sent)
      BY <1>1, <1>2, <2>3
    <3> QED BY <1>2, <1>4, <1>5, <2>1, <2>3, <3>1
  <2> QED BY <1>2, <1>5, <2>2, <2>3
<1> HIDE DEF new
<1>8. Contents' = new
  BY <1>3, <1>5, <1>6, <1>7, SameSequence
<1> QED BY <1>8 DEF new

\* A value more was received: it was the first of the queue.
LEMMA QueueShrinks ==
    ASSUME Inv, Inv', NEW v,
           sent' = sent, received' = Append(received, v)
    PROVE  Contents # <<>> /\ v = Head(Contents) /\ Contents' = Tail(Contents)
<1>1. /\ sent \in Seq(Messages) /\ received \in Seq(Messages)
      /\ Len(sent) \in Nat /\ Len(received) \in Nat
  BY DEF Inv, TypeOK
<1>2. /\ Contents \in Seq(Messages) /\ Len(Contents) \in Nat
      /\ Len(sent) = Len(received) + Len(Contents)
      /\ \A i \in 1 .. Len(Contents) : Contents[i] = sent[Len(received) + i]
  BY RestHolds DEF Rest
<1>3. /\ Contents' \in Seq(Messages) /\ Len(Contents') \in Nat
      /\ Len(sent') = Len(received') + Len(Contents')
      /\ \A i \in 1 .. Len(Contents') : Contents'[i] = sent'[Len(received') + i]
  <2>1. Rest'
    BY RestHolds, PTL
  <2> QED BY <2>1 DEF Rest
<1>4. Len(received') = Len(received) + 1 /\ received'[Len(received) + 1] = v
  <2>1. received \in Seq(Messages \cup {v}) /\ v \in Messages \cup {v}
    BY <1>1
  <2> QED BY <2>1, AppendFacts
<1>5. Len(Contents') = Len(Contents) - 1 /\ Len(Contents) >= 1
  BY <1>1, <1>2, <1>3, <1>4
<1>6. v = Contents[1]
  <2>1. received'[Len(received) + 1] = sent'[Len(received) + 1]
    BY <1>1, <1>4 DEF Inv, ReceivedIsPrefix
  <2>2. Contents[1] = sent[Len(received) + 1]
    BY <1>2, <1>5
  <2> QED BY <1>4, <2>1, <2>2
<1> DEFINE rest == Tail(Contents)
<1>7. /\ rest \in Seq(Messages) /\ Len(rest) = Len(Contents) - 1
      /\ \A i \in 1 .. Len(rest) : rest[i] = Contents[i + 1]
  BY <1>2, <1>5
<1>8. ASSUME NEW i \in 1 .. Len(Contents') PROVE Contents'[i] = rest[i]
  <2>1. Contents'[i] = sent[Len(received) + 1 + i]
    BY <1>3, <1>4
  <2>2. Contents[i + 1] = sent[Len(received) + (i + 1)]
    BY <1>2, <1>5
  <2>3. Len(received) + 1 + i = Len(received) + (i + 1)
    BY <1>1, <1>3
  <2> QED BY <1>5, <1>7, <2>1, <2>2, <2>3
<1> HIDE DEF rest
<1>9. Contents' = rest
  BY <1>3, <1>5, <1>7, <1>8, SameSequence
<1> QED BY <1>2, <1>5, <1>6, <1>9 DEF rest

\* Nothing sent and nothing received: the queue is as it was.
LEMMA QueueStays ==
    ASSUME Inv, UNCHANGED <<ring, has_unbuffered_value, unbuffered_value>>
    PROVE  Contents' = Contents
BY DEF Contents, ring, Capacity

-----------------------------------------------------------------------------
(* One lemma per action that changes the queue *)

LEMMA InitMaps == Init => Abstract!Init
<1> SUFFICES ASSUME Init PROVE Abstract!Init
  OBVIOUS
<1>1. Contents = <<>>
  BY CapacityType DEF Init, Contents
<1>2. {t \in Threads : pc[t] = "take"} = {} /\ {t \in Threads : pc[t] = "handoff"} = {}
  BY DEF Init
<1> QED BY <1>1, <1>2 DEF Init, Abstract!Init

\* An operation that goroutine t performs now, in the terms of ChannelSpec.
LEMMA PerformsMaps ==
    ASSUME Inv, NEW t \in Threads, NEW op,
           ~exited, ~Done(t), Program[t][at[t]] = op, pc[t] # "handoff"
    PROVE  Abstract!Performs(t, op)
<1>1. Program[t] \in Seq(Ops) /\ at[t] \in Nat
  BY ChannelAssumption DEF Inv, TypeOK
<1>2. at[t] <= Len(Program[t])
  BY <1>1 DEF Done
<1> QED BY <1>2 DEF Abstract!Performs

LEMMA SendMaps ==
    ASSUME Inv, Inv', NEW t \in Threads, Send(t)
    PROVE  Abstract!Send(t)
<1>0. /\ pc \in [Threads -> Positions] /\ at \in [Threads -> Nat \ {0}]
      /\ Capacity > 0 /\ Message(t, at[t]) \in Messages
  BY DEF Inv, TypeOK, Send, Message, Messages
<1>1. Contents' = Append(Contents, <<t, at[t]>>)
  BY <1>0, QueueGrows DEF Send, Message
<1>2. Abstract!Performs(t, "send")
  BY PerformsMaps DEF Send, Performs, Runs
<1>3. Len(Contents) < Capacity
  BY <1>0, CapacityType DEF Contents, Send, Inv, TypeOK
<1>4. Abstract!CanSend(t)
  BY <1>0, <1>2, <1>3 DEF Abstract!CanSend, Abstract!Room, Send
<1>5. /\ {u \in Threads : pc[u] = "take"}' = {u \in Threads : pc[u] = "take"}
      /\ {u \in Threads : pc[u] = "handoff"}' = {u \in Threads : pc[u] = "handoff"}
  BY <1>0 DEF Send, Finish, Performs
<1>6. at' = [at EXCEPT ![t] = @ + 1] /\ UNCHANGED <<closed, received, exited>>
  BY DEF Send, Finish
<1> QED BY <1>0, <1>1, <1>4, <1>5, <1>6 DEF Abstract!Send, Abstract!Advance

LEMMA OfferMaps ==
    ASSUME Inv, Inv', Counted, NEW t \in Threads, Offer(t)
    PROVE  Abstract!Send(t)
<1>0. /\ pc \in [Threads -> Positions] /\ at \in [Threads -> Nat \ {0}]
      /\ Capacity = 0 /\ Message(t, at[t]) \in Messages
  BY DEF Inv, TypeOK, Offer, Message, Messages
<1>1. Contents' = Append(Contents, <<t, at[t]>>)
  BY <1>0, QueueGrows DEF Offer, Message
<1>2. Abstract!Performs(t, "send")
  BY PerformsMaps DEF Offer, Performs, Runs
<1>3. Contents = <<>> /\ {u \in Threads : pc[u] = "take"} # {}
  <2>1. Takers # {}
    BY FS_EmptySet DEF Offer, Counted
  <2> QED BY <1>0, <2>1 DEF Contents, Offer, Takers
<1>4. Abstract!CanSend(t)
  BY <1>0, <1>2, <1>3 DEF Abstract!CanSend, Abstract!Room, Offer
<1>5. /\ {u \in Threads : pc[u] = "take"}' = {u \in Threads : pc[u] = "take"}
      /\ {u \in Threads : pc[u] = "handoff"}' = {u \in Threads : pc[u] = "handoff"} \cup {t}
  BY <1>0 DEF Offer, Goto, Performs
<1>6. UNCHANGED <<at, closed, received, exited>>
  BY DEF Offer, Goto
<1> QED BY <1>0, <1>1, <1>4, <1>5, <1>6 DEF Abstract!Send

LEMMA SendClosedMaps ==
    ASSUME Inv, NEW t \in Threads, SendClosed(t)
    PROVE  Abstract!Fail(t)
<1>0. pc \in [Threads -> Positions] /\ at \in [Threads -> Nat \ {0}]
  BY DEF Inv, TypeOK
<1>1. pc[t] \notin {"handoff", "take"}
  BY DEF SendClosed, Performs
<1>2. Abstract!Performs(t, "send")
  BY <1>1, PerformsMaps DEF SendClosed, Performs, Runs
<1>3. Contents' = Contents
  BY QueueStays DEF SendClosed, slot
<1>4. /\ {u \in Threads : pc[u] = "take"}' = {u \in Threads : pc[u] = "take"}
      /\ {u \in Threads : pc[u] = "handoff"}' = {u \in Threads : pc[u] = "handoff"}
  BY <1>0, <1>1 DEF SendClosed, Finish
<1>5. /\ closed /\ UNCHANGED <<closed, received>>
      /\ IF t \in Guarded
           THEN at' = [at EXCEPT ![t] = @ + 1] /\ UNCHANGED exited
           ELSE exited' = TRUE /\ UNCHANGED at
  BY DEF SendClosed, Finish
<1> QED BY <1>2, <1>3, <1>4, <1>5 DEF Abstract!Fail, Abstract!Advance

LEMMA HandoffDoneMaps ==
    ASSUME Inv, NEW t \in Threads, HandoffDone(t)
    PROVE  Abstract!Return(t)
<1>0. pc \in [Threads -> Positions] /\ Capacity = 0
  BY DEF Inv, TypeOK, PositionOK, HandoffDone
<1>1. Contents' = Contents
  BY QueueStays DEF HandoffDone, slot
<1>2. ~has_unbuffered_value => Contents = <<>>
  BY <1>0 DEF Contents
<1>3. Abstract!CanReturn(t)
  BY <1>2 DEF Abstract!CanReturn, HandoffDone, Runs
<1>4. /\ {u \in Threads : pc[u] = "take"}' = {u \in Threads : pc[u] = "take"}
      /\ {u \in Threads : pc[u] = "handoff"}' = {u \in Threads : pc[u] = "handoff"} \ {t}
  BY <1>0 DEF HandoffDone, Finish
<1>5. at' = [at EXCEPT ![t] = @ + 1] /\ UNCHANGED <<closed, received, exited>>
  BY DEF HandoffDone, Finish
<1> QED BY <1>1, <1>3, <1>4, <1>5 DEF Abstract!Return, Abstract!Advance

LEMMA ArriveMaps ==
    ASSUME Inv, NEW t \in Threads, Arrive(t)
    PROVE  Abstract!Arrive(t)
<1>0. pc \in [Threads -> Positions] /\ Capacity = 0 /\ pc[t] = "ready"
  BY DEF Inv, TypeOK, Arrive, Performs
<1>1. Contents' = Contents
  BY QueueStays DEF Arrive
<1>2. Abstract!Performs(t, "recv")
  BY <1>0, PerformsMaps DEF Arrive, Performs, Runs
<1>3. /\ {u \in Threads : pc[u] = "take"}' = {u \in Threads : pc[u] = "take"} \cup {t}
      /\ {u \in Threads : pc[u] = "handoff"}' = {u \in Threads : pc[u] = "handoff"}
  BY <1>0 DEF Arrive, Goto
<1>4. UNCHANGED <<at, closed, received, exited>>
  BY DEF Arrive, Goto
<1> QED BY <1>0, <1>1, <1>2, <1>3, <1>4 DEF Abstract!Arrive

\* Both kinds of channels, with a value and without.
LEMMA ReceiveMaps ==
    ASSUME Inv, Inv', Counted, Receiving, NEW t \in Threads,
           Take(t) \/ TakeVoid(t) \/ Receive(t) \/ ReceiveVoid(t)
    PROVE  Abstract!Receive(t)
<1>0. pc \in [Threads -> Positions] /\ at \in [Threads -> Nat \ {0}]
  BY DEF Inv, TypeOK
<1>1. /\ pc[t] # "handoff" /\ ~exited /\ ~Done(t) /\ Program[t][at[t]] = "recv"
      /\ Capacity = 0 => pc[t] = "take"
  <2>1. CASE Take(t) \/ TakeVoid(t)
    BY <2>1 DEF Take, TakeVoid, Runs, Counted, BusyOK, Receiving
  <2>2. CASE Receive(t) \/ ReceiveVoid(t)
    BY <2>2 DEF Receive, ReceiveVoid, Performs, Runs
  <2> QED BY <2>1, <2>2
<1>2. Abstract!Performs(t, "recv")
  BY <1>1, PerformsMaps
<1>3. IF Contents # <<>>
        THEN /\ received' = Append(received, Head(Contents))
             /\ Contents' = Tail(Contents)
        ELSE closed /\ UNCHANGED received /\ Contents' = Contents
  <2>1. CASE Take(t)
    <3>1. sent' = sent /\ received' = Append(received, unbuffered_value)
      BY <2>1 DEF Take
    <3> QED BY <3>1, QueueShrinks
  <2>2. CASE Receive(t)
    <3>1. sent' = sent /\ received' = Append(received, buffer[head])
      BY <2>2 DEF Receive
    <3> QED BY <3>1, QueueShrinks
  <2>3. CASE TakeVoid(t)
    <3>1. Contents = <<>>
      BY <2>3, CapacityType DEF TakeVoid, Contents, Inv, PositionOK
    <3>2. Contents' = Contents
      BY <2>3, QueueStays DEF TakeVoid
    <3> QED BY <2>3, <3>1, <3>2 DEF TakeVoid
  <2>4. CASE ReceiveVoid(t)
    <3>1. Contents = <<>>
      BY <2>4 DEF ReceiveVoid, Contents
    <3>2. Contents' = Contents
      BY <2>4, QueueStays DEF ReceiveVoid, slot
    <3> QED BY <2>4, <3>1, <3>2 DEF ReceiveVoid
  <2> QED BY <2>1, <2>2, <2>3, <2>4
<1>4. /\ pc' = [pc EXCEPT ![t] = "ready"] /\ at' = [at EXCEPT ![t] = @ + 1]
      /\ UNCHANGED <<closed, exited>>
  BY DEF Take, TakeVoid, Receive, ReceiveVoid, Finish
<1>5. /\ {u \in Threads : pc[u] = "take"}' = {u \in Threads : pc[u] = "take"} \ {t}
      /\ {u \in Threads : pc[u] = "handoff"}' = {u \in Threads : pc[u] = "handoff"}
  BY <1>0, <1>1, <1>4
<1>6. Abstract!CanReceive(t)
  BY <1>2, <1>3 DEF Abstract!CanReceive
<1> QED BY <1>1, <1>3, <1>4, <1>5, <1>6 DEF Abstract!Receive, Abstract!Advance

LEMMA CloseMaps ==
    ASSUME Inv, NEW t \in Threads, Close(t)
    PROVE  Abstract!Close(t)
<1>0. pc \in [Threads -> Positions] /\ pc[t] = "ready"
  BY DEF Inv, TypeOK, Close, Performs
<1>1. Contents' = Contents
  BY QueueStays DEF Close, slot
<1>2. Abstract!Performs(t, "close")
  BY <1>0, PerformsMaps DEF Close, Performs, Runs
<1>3. /\ {u \in Threads : pc[u] = "take"}' = {u \in Threads : pc[u] = "take"}
      /\ {u \in Threads : pc[u] = "handoff"}' = {u \in Threads : pc[u] = "handoff"}
  BY <1>0 DEF Close, Finish
<1>4. closed' = TRUE /\ at' = [at EXCEPT ![t] = @ + 1] /\ UNCHANGED <<received, exited>>
  BY DEF Close, Finish
<1> QED BY <1>1, <1>2, <1>3, <1>4 DEF Abstract!Close, Abstract!Advance

\* Falling asleep and waking up is nothing to the queue.
LEMMA SleepMaps ==
    ASSUME Inv, NEW t \in Threads,
           OfferWait(t) \/ HandoffWait(t) \/ FullWait(t) \/ TakeWait(t) \/ EmptyWait(t)
             \/ SpuriousWakeup(t)
    PROVE  UNCHANGED Abstract!vars
<1> USE DEF OfferWait, HandoffWait, FullWait, TakeWait, EmptyWait, SpuriousWakeup
<1>0. pc \in [Threads -> Positions]
  BY DEF Inv, TypeOK
<1>1. Contents' = Contents
  BY QueueStays DEF slot
<1>2. UNCHANGED <<closed, at, received, exited>>
  BY DEF Goto
<1>3. /\ {u \in Threads : pc[u] = "take"}' = {u \in Threads : pc[u] = "take"}
      /\ {u \in Threads : pc[u] = "handoff"}' = {u \in Threads : pc[u] = "handoff"}
  BY <1>0 DEF Goto, Performs
<1> QED BY <1>1, <1>2, <1>3 DEF Abstract!vars

LEMMA NextMaps ==
    ASSUME Inv, Inv', Counted, Receiving, [Next]_vars
    PROVE  [Abstract!Next]_(Abstract!vars)
<1>1. CASE UNCHANGED vars
  <2>1. Contents' = Contents
    BY <1>1, QueueStays DEF vars, slot
  <2> QED BY <1>1, <2>1 DEF vars, Abstract!vars
<1>2. ASSUME NEW t \in Threads, Step(t) \/ SpuriousWakeup(t)
      PROVE  [Abstract!Next]_(Abstract!vars)
  <2>1. CASE OfferWait(t) \/ HandoffWait(t) \/ FullWait(t) \/ TakeWait(t) \/ EmptyWait(t)
               \/ SpuriousWakeup(t)
    BY <2>1, SleepMaps
  <2>2. CASE Take(t) \/ TakeVoid(t) \/ Receive(t) \/ ReceiveVoid(t)
    BY <2>2, ReceiveMaps DEF Abstract!Next
  <2>3. CASE Send(t) \/ Offer(t)
    BY <2>3, SendMaps, OfferMaps DEF Abstract!Next
  <2>4. CASE SendClosed(t) \/ HandoffDone(t)
    BY <2>4, SendClosedMaps, HandoffDoneMaps DEF Abstract!Next
  <2>5. CASE Arrive(t) \/ Close(t)
    BY <2>5, ArriveMaps, CloseMaps DEF Abstract!Next
  <2> QED BY <1>2, <2>1, <2>2, <2>3, <2>4, <2>5 DEF Step, SendStep, ReceiveStep
<1> QED BY <1>1, <1>2 DEF Next, Terminated

\* The ring with its indices, the slot with its flag and the two condition
\* variables implement the queue of ChannelSpec: every step of a goroutine is a
\* step of the queue, or falls asleep or wakes up and changes nothing in it.
THEOREM ChannelIsQueue == Spec => ImplementsQueue
<1>1. Init => Receiving
  BY DEF Init, Receiving
<1>2. Inv /\ Counted /\ Receiving /\ [Next]_vars => Receiving'
  BY NextReceiving
<1>3. Inv /\ Inv' /\ Counted /\ Receiving /\ [Next]_vars => [Abstract!Next]_(Abstract!vars)
  BY NextMaps
<1>4. Spec => Abstract!Init /\ [][Abstract!Next]_(Abstract!vars)
  BY <1>1, <1>2, <1>3, InitMaps, Invariance, PTL DEF Spec
<1> QED BY <1>4 DEF ImplementsQueue, Abstract!Spec
=============================================================================
