---------------------------- MODULE ConditionMonitor ----------------------------
(***************************************************************************)
(* What a tdmonitor monitor with condition variables promises to the       *)
(* threads of all processes of a cluster: the threads between lock and     *)
(* unlock exclude each other, wait leaves the monitor and comes back into  *)
(* it, and the properties a thread finds are those the last one left.      *)
(* As with any condition variable, a thread may wake without a signal.     *)
(***************************************************************************)

CONSTANTS Thread, Value, InitialValue

VARIABLES
    state,  \* what each thread does
    value   \* the properties of the monitor

vars == <<state, value>>

State == {"outside", "waiting", "inside", "asleep"}

Init ==
    /\ state = [t \in Thread |-> "outside"]
    /\ value = InitialValue

Becomes(t, s) == state' = [state EXCEPT ![t] = s]

Ask(t) == state[t] = "outside" /\ Becomes(t, "waiting") /\ UNCHANGED value

Enter(t) ==
    /\ state[t] = "waiting"
    /\ \A u \in Thread : state[u] # "inside"
    /\ Becomes(t, "inside")
    /\ UNCHANGED value

\* The thread writes a property, having seen the value it replaces.
Write(t) == state[t] = "inside" /\ value' \in Value /\ UNCHANGED state

Leave(t) == state[t] = "inside" /\ Becomes(t, "outside") /\ UNCHANGED value

Wait(t) == state[t] = "inside" /\ Becomes(t, "asleep") /\ UNCHANGED value

Wake(t) == state[t] = "asleep" /\ Becomes(t, "waiting") /\ UNCHANGED value

Next == \E t \in Thread : Ask(t) \/ Enter(t) \/ Write(t) \/ Leave(t) \/ Wait(t) \/ Wake(t)

Spec == Init /\ [][Next]_vars

=============================================================================
