-------------------------- MODULE MCProducerConsumer --------------------------
(***************************************************************************)
(* Two processes with a producer and a consumer each, as in main.cpp, or   *)
(* with the producer on one and the consumer on the other.                 *)
(***************************************************************************)
EXTENDS ProducerConsumer, TLC

CONSTANTS p1, p2, prod1, cons1, prod2, cons2

TwoProcesses == {p1, p2}
BothOnEach == prod1 :> p1 @@ cons1 :> p1 @@ prod2 :> p2 @@ cons2 :> p2
OneOnEach == prod1 :> p1 @@ cons2 :> p2

Vector == 0 .. Capacity

\* Endless threads are not counted.
Unbounded == [t \in Thread |-> 1]

=============================================================================
