--------------------------- MODULE DistributedMonitor ---------------------------
(***************************************************************************)
(* What tdmonitor promises to the applications of a cluster, whatever the  *)
(* nodes send each other: between lock and unlock a process is alone with  *)
(* the monitor's properties, and the properties it finds are those the     *)
(* process before it left.  The value of the properties is the number of   *)
(* updates made so far; a process makes one when it enters.                *)
(***************************************************************************)
EXTENDS Naturals

CONSTANTS Process, Monitor

VARIABLES
    state,  \* what each process does with each monitor
    value   \* the properties of each monitor

vars == <<state, value>>

Init ==
    /\ state = [p \in Process |-> [m \in Monitor |-> "outside"]]
    /\ value = [m \in Monitor |-> 0]

Ask(p, m) ==
    /\ state[p][m] = "outside"
    /\ state' = [state EXCEPT ![p][m] = "waiting"]
    /\ UNCHANGED value

Enter(p, m) ==
    /\ state[p][m] = "waiting"
    /\ \A q \in Process : state[q][m] # "inside"
    /\ state' = [state EXCEPT ![p][m] = "inside"]
    /\ value' = [value EXCEPT ![m] = @ + 1]

Leave(p, m) ==
    /\ state[p][m] = "inside"
    /\ state' = [state EXCEPT ![p][m] = "outside"]
    /\ UNCHANGED value

Next == \E p \in Process, m \in Monitor : Ask(p, m) \/ Enter(p, m) \/ Leave(p, m)

Spec == Init /\ [][Next]_vars

=============================================================================
