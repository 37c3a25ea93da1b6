--------------------------- MODULE ProducerConsumer ---------------------------
(***************************************************************************)
(* The application that comes with the library (src/prodconsumer/main.cpp) *)
(* on top of MonitorThreads: threads that call produce or consume for ever.*)
(* The monitor's property is the vector of messages; only its length       *)
(* matters here, and it is the value of the monitor.                       *)
(***************************************************************************)
EXTENDS MonitorThreads, Integers

CONSTANTS
    Producer,   \* the threads that call produce; the others call consume
    Capacity    \* the length at which producers wait

ASSUME ApplicationAssumption ==
    /\ Producer \subseteq Thread
    /\ Capacity \in Nat \ {0}
    /\ Value = 0 .. Capacity
    /\ InitialValue = 0
    /\ Condition = {"free", "data"}

VARIABLES
    step,     \* what each thread does next inside the monitor
    balance   \* messages ever produced less messages ever consumed

allVars == <<vars, step, balance>>

AppInit ==
    /\ Init
    /\ step = [t \in Thread |-> "check"]
    /\ balance = 0

\* The while loops of produce and consume: when they wait, on which condition, and
\* which condition is signalled afterwards.
Blocked(t) == copy[Home[t]] = IF t \in Producer THEN Capacity ELSE 0
Awaits(t) == IF t \in Producer THEN "free" ELSE "data"
Signals(t) == IF t \in Producer THEN "data" ELSE "free"

At(t, here) == pc[t] = "inside" /\ step[t] = here
Proceeds(t, there) == step' = [step EXCEPT ![t] = there]

Begin(t) ==
    /\ Lock(t)
    /\ UNCHANGED <<step, balance>>

\* Mutant: the loop polls, it leaves and locks again.
AwaitPolling(t) ==
    /\ At(t, "check") /\ Blocked(t)
    /\ Unlock(t)
    /\ UNCHANGED <<step, balance>>

\* Checks again when it wakes.
Await(t) ==
    /\ At(t, "check") /\ Blocked(t)
    /\ Wait(t, Awaits(t))
    /\ UNCHANGED <<step, balance>>

\* push_back or pop_back.
Change(t) ==
    /\ At(t, "check") /\ ~ Blocked(t)
    /\ LET change == IF t \in Producer THEN 1 ELSE -1
       IN  /\ Write(t, copy[Home[t]] + change)
           /\ balance' = balance + change
    /\ Proceeds(t, "signal")

Tell(t) ==
    /\ At(t, "signal")
    /\ Signal(t, Signals(t))
    /\ Proceeds(t, "unlock")
    /\ UNCHANGED balance

End(t) ==
    /\ At(t, "unlock")
    /\ Unlock(t)
    /\ Proceeds(t, "check")
    /\ UNCHANGED balance

Act(t) ==
    \/ Begin(t) \/ Await(t) \/ Change(t) \/ Tell(t) \/ End(t)
    \/ Step(t) /\ UNCHANGED <<step, balance>>

Run(p) == Loop(p) /\ UNCHANGED <<step, balance>>

\* A thread wakes though nobody signalled, and checks again.
Stir(t) == WakeSpuriously(t) /\ UNCHANGED <<step, balance>>

AppNext ==
    \/ \E t \in Thread : Act(t) \/ Stir(t)
    \/ \E p \in Process : Run(p)

\* Every thread and every event loop goes on while it can.  As in MonitorThreads a
\* thread may lose every race for m_mutex, so threads that woke unnotified again and
\* again could keep it from the others for ever: from some time on none does.
AppSpec ==
    /\ AppInit /\ [][AppNext]_allVars
    /\ <>[][\A t \in Thread : ~ Stir(t)]_allVars
    /\ \A t \in Thread : WF_allVars(Act(t))
    /\ \A p \in Process : WF_allVars(Run(p))

-----------------------------------------------------------------------------
\* The vector holds what was produced and not yet consumed, on whichever process and
\* in whichever packet it is, and no consumer takes from an empty one (pop_back of an
\* empty vector) nor a producer adds to a full one: each checks, wakes and checks
\* again on the copy of its own process.
MessagesAddUp ==
    /\ balance \in 0 .. Capacity
    /\ Properties = {balance}
    /\ \A t \in Thread : At(t, "check") /\ ~ Blocked(t) =>
           balance # IF t \in Producer THEN Capacity ELSE 0

Quiet ==
    /\ \A p \in Process : events[p] = <<>>
    /\ \A p, q \in Process : net[p][q] = <<>>

\* The threads never all wait for a signal that nobody is left to give.
NeverStuck == ~ (Quiet /\ \A t \in Thread : pc[t] = "sleeping")

\* Messages flow for ever: again and again some thread produces and some thread
\* consumes, whoever wins the races for the mutex and the token.
MessagesFlow ==
    /\ []<>(\E t \in Producer : step[t] = "signal")
    /\ []<>(\E t \in Thread \ Producer : step[t] = "signal")

=============================================================================
