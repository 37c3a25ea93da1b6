----------------------------- MODULE MonitorThreads -----------------------------
(***************************************************************************)
(* The threads that use one monitor: class Monitor (src/lib/monitor.cpp)   *)
(* with its mutex and condition variables, the requests it puts into the   *)
(* event queue of its process, and the handlers of ClusterLoop and Token   *)
(* that answer them.                                                       *)
(*                                                                         *)
(* The cluster runs and the monitor exists on every process.  How requests *)
(* reach the owner of the token and in what order it serves them is the    *)
(* matter of ClusterLoop; here a request is a member of "asked", and an    *)
(* owner that is not inside may learn of it at any time.                   *)
(***************************************************************************)
EXTENDS Naturals, Sequences, FiniteSets

CONSTANTS
    Process,      \* the processes of the cluster
    First,        \* the one that created the monitor
    Thread,       \* all threads that use the monitor
    Home,         \* the process of each thread
    Condition,    \* ids of condition variables
    Value,        \* values of the monitor's properties
    InitialValue,
    Endless,      \* threads whose calls are not counted
    MaxCalls,     \* bound: lock, wait and signal calls of each other thread
    MaxSignals    \* bound: a thread signals only while fewer than this many signals
                  \* of its process are under way

ASSUME ProcessAssumption == First \in Process
ASSUME HomeAssumption == Home \in [Thread -> Process]
ASSUME ValueAssumption == InitialValue \in Value
ASSUME CallsAssumption == MaxCalls \in [Thread -> Nat] /\ Endless \subseteq Thread

VARIABLES
    pc,       \* where each thread is
    cond,     \* the condition of its last wait or signal call
    calls,    \* calls it made so far (for MaxCalls)
    mutex,    \* m_mutex of each process: the threads that hold it
    events,   \* m_evq of each process: the requests of its threads
    owned,    \* processes with m_owned
    locked,   \* processes with m_locked
    pending,  \* processes with the monitor in m_pendingGrants
    asked,    \* processes with a request for the token under way
    granted,  \* processes with m_granted
    copy,     \* each process's properties
    net       \* net[p][q]: packets from p to q

threadVars == <<pc, cond, calls>>
loopVars == <<owned, locked, pending, asked, net>>
vars == <<threadVars, mutex, events, loopVars, granted, copy>>

\* Lines of monitor.cpp at which a thread can be:
\*   acquiring   in lock, blocked on m_mutex (196)
\*   locked      has m_mutex, about to ask for the token (197, 232)
\*   granting    in takeGrant (198, 233)
\*   inside      between lock and unlock
\*   signalling  has notified its own process, about to tell the others (216)
\*   leaving     has posted the unlock, still has m_mutex (204)
\*   yielding    in wait, has posted the unlock, still has m_mutex (229)
\*   sleeping    blocked on the condition variable (230)
\*   waking      notified, blocked on m_mutex (230)
Place == {"outside", "acquiring", "locked", "granting", "inside", "signalling",
          "leaving", "yielding", "sleeping", "waking"}

LockRequest == [type |-> "Lock"]
UnlockRequest == [type |-> "Unlock"]
SignalRequest(c) == [type |-> "Signal", cond |-> c]

Request == {LockRequest, UnlockRequest} \cup [type : {"Signal"}, cond : Condition]

\* Mutant: a packet that does not name the condition.
SignalMsgBare(c) == [type |-> "Signal"]

SignalMsg(c) == [type |-> "Signal", cond |-> c]
GiveTokenMsg(v) == [type |-> "GiveToken", value |-> v]

Message == [type : {"Signal"}, cond : Condition] \cup [type : {"GiveToken"}, value : Value]

TypeOK ==
    /\ pc \in [Thread -> Place]
    /\ cond \in [Thread -> Condition]
    /\ calls \in [Thread -> Nat]
    /\ mutex \in [Process -> SUBSET Thread]
    /\ events \in [Process -> Seq(Request)]
    /\ owned \in SUBSET Process
    /\ locked \in SUBSET Process
    /\ pending \in SUBSET Process
    /\ asked \in SUBSET Process
    /\ granted \in SUBSET Process
    /\ copy \in [Process -> Value]
    /\ net \in [Process -> [Process -> Seq(Message)]]

Init ==
    /\ pc = [t \in Thread |-> "outside"]
    /\ cond \in {[t \in Thread |-> c] : c \in Condition}
    /\ calls = [t \in Thread |-> 0]
    /\ mutex = [p \in Process |-> {}]
    /\ events = [p \in Process |-> <<>>]
    /\ owned = {First}
    /\ locked = {}
    /\ pending = {}
    /\ asked = {}
    /\ granted = {}
    /\ copy = [p \in Process |-> InitialValue]
    /\ net = [p \in Process |-> [q \in Process |-> <<>>]]

-----------------------------------------------------------------------------
(* Threads.                                                                 *)

Moves(t, from, to) == pc[t] \in from /\ pc' = [pc EXCEPT ![t] = to]

\* EventQueue::append on the process of t.
Posts(t, request) == events' = [events EXCEPT ![Home[t]] = Append(@, request)]

MutexFree(p) == mutex[p] = {}
TakesMutex(t) == mutex' = [mutex EXCEPT ![Home[t]] = {t}]
DropsMutex(t) == mutex' = [mutex EXCEPT ![Home[t]] = @ \ {t}]

Calls(t) ==
    /\ calls[t] < MaxCalls[t]
    /\ calls' = IF t \in Endless THEN calls ELSE [calls EXCEPT ![t] = @ + 1]

\* notify_all on the condition c of process p: the threads it wakes.
Sleepers(p, c) == {t \in Thread : Home[t] = p /\ pc[t] = "sleeping" /\ cond[t] = c}

Woken(places, p, c) == [t \in Thread |-> IF t \in Sleepers(p, c) THEN "waking" ELSE places[t]]

\* lock() is called.
Lock(t) ==
    /\ Moves(t, {"outside"}, "acquiring")
    /\ Calls(t)
    /\ UNCHANGED <<cond, mutex, events, loopVars, granted, copy>>

\* m_mutex is taken, by lock or by the condition variable when it wakes up.
Acquire(t) ==
    /\ Moves(t, {"acquiring", "waking"}, "locked")
    /\ MutexFree(Home[t])
    /\ TakesMutex(t)
    /\ UNCHANGED <<cond, calls, events, loopVars, granted, copy>>

SendLockRequest(t) ==
    /\ Moves(t, {"locked"}, "granting")
    /\ Posts(t, LockRequest)
    /\ UNCHANGED <<cond, calls, mutex, loopVars, granted, copy>>

TakeGrant(t) ==
    /\ Moves(t, {"granting"}, "inside")
    /\ Home[t] \in granted
    /\ granted' = granted \ {Home[t]}
    /\ UNCHANGED <<cond, calls, mutex, events, loopVars, copy>>

\* A thread that is inside writes a property.
Write(t, v) ==
    /\ pc[t] = "inside"
    /\ copy' = [copy EXCEPT ![Home[t]] = v]
    /\ UNCHANGED <<threadVars, mutex, events, loopVars, granted>>

\* unlock(), first half: the request is posted before m_mutex is given up.
Unlock(t) ==
    /\ Moves(t, {"inside"}, "leaving")
    /\ Posts(t, UnlockRequest)
    /\ UNCHANGED <<cond, calls, mutex, loopVars, granted, copy>>

ReleaseMutex(t) ==
    /\ Moves(t, {"leaving"}, "outside")
    /\ DropsMutex(t)
    /\ UNCHANGED <<cond, calls, events, loopVars, granted, copy>>

\* Mutant: wait keeps the token.
WaitHoldingToken(t, c) ==
    /\ Moves(t, {"inside"}, "yielding")
    /\ Calls(t)
    /\ cond' = [cond EXCEPT ![t] = c]
    /\ UNCHANGED <<mutex, events, loopVars, granted, copy>>

\* wait(c), up to the condition variable: the token is given back first.
Wait(t, c) ==
    /\ Moves(t, {"inside"}, "yielding")
    /\ Calls(t)
    /\ cond' = [cond EXCEPT ![t] = c]
    /\ Posts(t, UnlockRequest)
    /\ UNCHANGED <<mutex, loopVars, granted, copy>>

\* The condition variable gives up m_mutex and sleeps, in one step.
Sleep(t) ==
    /\ Moves(t, {"yielding"}, "sleeping")
    /\ DropsMutex(t)
    /\ UNCHANGED <<cond, calls, events, loopVars, granted, copy>>

\* A condition variable may wake without being notified.
WakeSpuriously(t) ==
    /\ Moves(t, {"sleeping"}, "waking")
    /\ UNCHANGED <<cond, calls, mutex, events, loopVars, granted, copy>>

IsSignal(item) == item.type = "Signal"

\* Signals of p that some event loop has still to handle.
SignalsUnderWay(p) ==
    Len(SelectSeq(events[p], IsSignal))
    + Cardinality({x \in Process \X (1 .. MaxSignals) :
                     x[2] <= Len(SelectSeq(net[p][x[1]], IsSignal))})

\* Mutant: the own process is left to the event loop, which tells only the others.
SignalOthers(t, c) ==
    /\ Moves(t, {"inside"}, "signalling")
    /\ Calls(t)
    /\ SignalsUnderWay(Home[t]) < MaxSignals
    /\ cond' = [cond EXCEPT ![t] = c]
    /\ UNCHANGED <<mutex, events, loopVars, granted, copy>>

\* signal(c): the threads of the own process are notified at once...
Signal(t, c) ==
    /\ pc[t] = "inside"
    /\ Calls(t)
    /\ SignalsUnderWay(Home[t]) < MaxSignals
    /\ pc' = Woken([pc EXCEPT ![t] = "signalling"], Home[t], c)
    /\ cond' = [cond EXCEPT ![t] = c]
    /\ UNCHANGED <<mutex, events, loopVars, granted, copy>>

\* ... and the other processes by a request to the event loop.
SendSignalRequest(t) ==
    /\ Moves(t, {"signalling"}, "inside")
    /\ Posts(t, SignalRequest(cond[t]))
    /\ UNCHANGED <<cond, calls, mutex, loopVars, granted, copy>>

-----------------------------------------------------------------------------
(* The event loop of each process.                                          *)

Requested(p, type) ==
    /\ events[p] # <<>>
    /\ Head(events[p]).type = type
    /\ events' = [events EXCEPT ![p] = Tail(@)]

Received(p, q) == [net EXCEPT ![q][p] = Tail(@)]

Arrives(p, q, type) == net[q][p] # <<>> /\ Head(net[q][p]).type = type

\* requestLock
RequestLock(p) ==
    /\ Requested(p, "Lock")
    /\ IF p \in locked
       THEN UNCHANGED <<pending, locked, granted, asked>>
       ELSE IF p \in owned
       THEN /\ pending' = pending \ {p}
            /\ locked' = locked \cup {p}
            /\ granted' = granted \cup {p}
            /\ UNCHANGED asked
       ELSE /\ pending' = pending \cup {p}
            /\ asked' = asked \cup {p}
            /\ UNCHANGED <<locked, granted>>
    /\ UNCHANGED <<threadVars, mutex, owned, copy, net>>

\* Mutant: the properties are not saved into the token.
SendTokenUnsaved(p, q) ==
    /\ owned' = owned \ {p}
    /\ net' = [net EXCEPT ![p][q] = Append(@, GiveTokenMsg(InitialValue))]

\* sendToken: the properties are saved and leave with the token.
SendToken(p, q) ==
    /\ owned' = owned \ {p}
    /\ net' = [net EXCEPT ![p][q] = Append(@, GiveTokenMsg(copy[p]))]

\* requestUnlock; the queue may hold a process that asked, or no request is known yet.
RequestUnlock(p) ==
    /\ Requested(p, "Unlock")
    /\ IF p \notin locked
       THEN UNCHANGED <<locked, owned, net>>
       ELSE /\ locked' = locked \ {p}
            /\ \/ UNCHANGED <<owned, net>>
               \/ \E q \in asked \ {p} : SendToken(p, q)
    /\ UNCHANGED <<threadVars, mutex, pending, asked, granted, copy>>

\* Mutant: the request is not passed on.
RequestSignalLocal(p) ==
    /\ Requested(p, "Signal")
    /\ UNCHANGED <<threadVars, mutex, owned, locked, pending, asked, granted, copy, net>>

\* requestSignal: a broadcast.
RequestSignal(p) ==
    /\ Requested(p, "Signal")
    /\ net' = [net EXCEPT ![p] = [q \in Process |->
                  IF q = p THEN @[q] ELSE Append(@[q], SignalMsg(Head(events[p]).cond))]]
    /\ UNCHANGED <<threadVars, mutex, owned, locked, pending, asked, granted, copy>>

\* Mutant: the token leaves while a thread is inside.
PacketRequestTokenLocked(p, q) ==
    /\ q \in asked \ {p}
    /\ p \in owned
    /\ SendToken(p, q)
    /\ UNCHANGED <<threadVars, mutex, events, locked, pending, asked, granted, copy>>

\* packetRequestToken of q's request at the owner.
PacketRequestToken(p, q) ==
    /\ q \in asked \ {p}
    /\ p \in owned \ locked
    /\ SendToken(p, q)
    /\ UNCHANGED <<threadVars, mutex, events, locked, pending, asked, granted, copy>>

LoadProperties(p, msg) == copy' = [copy EXCEPT ![p] = msg.value]

\* Mutant: the token is taken, and nobody is told.
PacketGiveTokenUngranted(p, q) ==
    /\ Arrives(p, q, "GiveToken")
    /\ net' = Received(p, q)
    /\ owned' = owned \cup {p}
    /\ asked' = asked \ {p}
    /\ LoadProperties(p, Head(net[q][p]))
    /\ UNCHANGED <<threadVars, mutex, events, pending, locked, granted>>

\* packetGiveToken: the properties are loaded, and the waiting thread is granted.
PacketGiveToken(p, q) ==
    /\ Arrives(p, q, "GiveToken")
    /\ net' = Received(p, q)
    /\ owned' = owned \cup {p}
    /\ asked' = asked \ {p}
    /\ LoadProperties(p, Head(net[q][p]))
    /\ pending' = pending \ {p}
    /\ IF p \in pending
       THEN locked' = locked \cup {p} /\ granted' = granted \cup {p}
       ELSE UNCHANGED <<locked, granted>>
    /\ UNCHANGED <<threadVars, mutex, events>>

\* packetSignal: callSignal notifies the threads that sleep now; m_mutex is not taken.
PacketSignal(p, q) ==
    /\ Arrives(p, q, "Signal")
    /\ net' = Received(p, q)
    /\ pc' = Woken(pc, p, Head(net[q][p]).cond)
    /\ UNCHANGED <<cond, calls, mutex, events, owned, locked, pending, asked, granted, copy>>

-----------------------------------------------------------------------------
\* What the threads do on their own, and what applications make them do.
Step(t) ==
    Acquire(t) \/ SendLockRequest(t) \/ TakeGrant(t) \/ ReleaseMutex(t) \/ Sleep(t)
    \/ SendSignalRequest(t)

Call(t) ==
    \/ Lock(t)
    \/ Unlock(t)
    \/ \E c \in Condition : Wait(t, c) \/ Signal(t, c)
    \/ \E v \in Value : Write(t, v)

Loop(p) ==
    \/ RequestLock(p) \/ RequestUnlock(p) \/ RequestSignal(p)
    \/ \E q \in Process : PacketRequestToken(p, q) \/ PacketGiveToken(p, q) \/ PacketSignal(p, q)

Next ==
    \/ \E t \in Thread : Step(t) \/ Call(t) \/ WakeSpuriously(t)
    \/ \E p \in Process : Loop(p)

Spec == Init /\ [][Next]_vars

\* Threads and loops run, and a thread that is inside unlocks or waits at some time.
\* Nobody has to lock, to signal or to write, and nobody wakes by chance.  A thread
\* may lose every race for m_mutex as long as others keep locking it.
Fairness ==
    /\ \A t \in Thread : WF_vars(Step(t))
    /\ \A t \in Thread : WF_vars(Unlock(t) \/ \E c \in Condition : Wait(t, c))
    /\ \A p \in Process : WF_vars(RequestLock(p) \/ RequestUnlock(p) \/ RequestSignal(p))
    /\ \A p, q \in Process :
          WF_vars(PacketRequestToken(p, q)) /\ WF_vars(PacketGiveToken(p, q) \/ PacketSignal(p, q))

FairSpec == Spec /\ Fairness

-----------------------------------------------------------------------------
(* Where the token and the monitor's properties are.                        *)

Tokens(p, q) == {i \in DOMAIN net[p][q] : net[p][q][i].type = "GiveToken"}

\* The properties that the next thread to enter will see.
Properties ==
    {copy[p] : p \in owned}
    \cup UNION {{net[p][q][i].value : i \in Tokens(p, q)} : p \in Process, q \in Process}

\* The threads between lock and unlock.
Inside == {t \in Thread : pc[t] \in {"inside", "signalling"}}

-----------------------------------------------------------------------------
(* Safety.                                                                  *)

\* requestLock never finds the monitor locked, and requestUnlock never finds it
\* unlocked: their early returns would leave a thread in takeGrant for ever, or the
\* token with a process that does not use it.  Every thread posts its unlock
\* before it gives up m_mutex, so the requests alternate.
CallsAnswered ==
    \A p \in Process : events[p] # <<>> =>
        /\ Head(events[p]) = LockRequest => p \notin locked
        /\ Head(events[p]) = UnlockRequest => p \in locked

\* While a thread is inside, the event loop of its process neither saves nor loads
\* the properties (it does so from its own thread and without m_mutex): the token is
\* here, stays here, and no second one is on its way.
LoopKeepsOff ==
    \A t \in Inside :
        /\ owned = {Home[t]} /\ Home[t] \in locked
        /\ UnlockRequest \notin {events[Home[t]][i] : i \in DOMAIN events[Home[t]]}
        /\ \A p, q \in Process : Tokens(p, q) = {}

\* The threads of all processes see one monitor with condition variables.
AbstractState(t) ==
    CASE pc[t] \in {"outside", "acquiring", "leaving"} -> "outside"
      [] pc[t] \in {"locked", "granting"} -> "waiting"
      [] pc[t] \in {"inside", "signalling"} -> "inside"
      [] pc[t] \in {"yielding", "sleeping", "waking"} -> "asleep"

Promise == INSTANCE ConditionMonitor
    WITH state <- [t \in Thread |-> AbstractState(t)],
         value <- CHOOSE v \in Value : Properties = {v}

\* Whatever the interleaving of threads, loops and packets, a thread enters
\* (takeGrant returns from lock or wait) only while no other thread of the cluster is
\* inside, the properties change only under a thread that is inside, and they move
\* unchanged with the token.
ImplementsPromise == Promise!Spec

-----------------------------------------------------------------------------
(* Liveness.                                                                *)

\* lock returns, and so does wait once it was notified.
LockReturns ==
    \A t \in Thread : pc[t] \in {"acquiring", "waking"} ~> pc[t] = "inside"

Signalled(t) ==
    \E u \in Thread \ {t} : pc[u] = "signalling" /\ cond[u] = cond[t]

\* A signal wakes every thread of the cluster that sleeps on the condition variable.
SleeperWakes ==
    \A t \in Thread : pc[t] = "sleeping" /\ Signalled(t) ~> pc[t] = "waking"

=============================================================================
