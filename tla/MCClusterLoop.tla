---------------------------- MODULE MCClusterLoop ----------------------------
(***************************************************************************)
(* Small clusters for TLC.                                                 *)
(***************************************************************************)
EXTENDS ClusterLoop

\* Every window in which an application may call lock.
AnyTime == {"booting", "creating", "settled"}

\* Applications that never call lock while the monitor is being created.
NotCreating == {"booting", "settled"}

\* Applications that call lock only when the cluster runs and has the monitor.
Settled == {"settled"}

AnyOutcome == {"next", "skip", "crash"}
Intended == {"next"}

\* Lock calls per node: the bound MaxLocks of the runs.
Once == [n \in Node |-> 1]
Twice == [n \in Node |-> 2]

\* Node 0 makes a second request, with which its number wraps if U32 is 2.
TwiceFirst == [n \in Node |-> IF n = 0 THEN 2 ELSE 1]

\* Nodes 0 and 1 can overtake the request of node 2.
TwiceButLast == [n \in Node |-> IF n = 2 THEN 1 ELSE 2]

\* Second calls and broken connections are explored apart: request numbers that
\* wrap need no broken connection, and a broken connection no second call.
OneHardship ==
    cut = {} \/ \A n \in Node : \A m \in Monitor : locks[n][m] =< 1

=============================================================================
