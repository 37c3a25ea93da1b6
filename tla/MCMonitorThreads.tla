--------------------------- MODULE MCMonitorThreads ---------------------------
(***************************************************************************)
(* Small sets of threads for TLC: two on process p1, one on process p2.    *)
(***************************************************************************)
EXTENDS MonitorThreads, TLC

CONSTANTS p1, p2, t1, t2, t3

TwoProcesses == {p1, p2}
TwoAndOne == t1 :> p1 @@ t2 :> p1 @@ t3 :> p2

Two == [t \in Thread |-> 2]
Three == [t \in Thread |-> 3]

=============================================================================
