---------------------------- MODULE MCOpoChannel ----------------------------
(* Small programs of channel operations for OpoChannel. *)
EXTENDS OpoChannel, TLC

CONSTANTS s1, s2, r1, r2, c1

Repeat(op, n) == [i \in 1 .. n |-> op]

\* two producers, two consumers, and a goroutine that closes the channel
WithCloser == {s1, s2, r1, r2, c1}
Closing ==
    s1 :> Repeat("send", 3) @@ s2 :> Repeat("send", 2) @@
    r1 :> Repeat("recv", 3) @@ r2 :> Repeat("recv", 2) @@ c1 :> <<"close">>

\* a value more than the consumers ask for
Surplus ==
    s1 :> Repeat("send", 2) @@ s2 :> Repeat("send", 2) @@
    r1 :> Repeat("recv", 2) @@ r2 :> <<"recv">> @@ c1 :> <<"close">>

\* one producer, which may close when it is done, and two consumers
\* (docs/02-language/concurrency.md)
OneSender == {s1, r1, r2}
ProducerCloses ==
    s1 :> <<"send", "send", "send", "close">> @@
    r1 :> Repeat("recv", 2) @@ r2 :> <<"recv">>

\* two goroutines with one value each, one receiver of both
TwoSenders == {s1, s2, r1}
TwoSendsTwoReceives ==
    s1 :> <<"send">> @@ s2 :> <<"send">> @@ r1 :> <<"recv", "recv">>
\* a capacity below 0 is taken as 0
Negative == -1
=============================================================================
