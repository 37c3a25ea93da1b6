------------------------ MODULE ProducerConsumerProofs ------------------------
(***************************************************************************)
(* Proofs about ProducerConsumer, for any processes, threads and capacity: *)
(* its threads use the monitor as MonitorThreads lets them, the vector has *)
(* what was produced and not yet consumed, and with both kinds of threads  *)
(* on every process they never all wait.                                   *)
(***************************************************************************)
EXTENDS ProducerConsumer, MonitorThreadsProofs

-----------------------------------------------------------------------------
(* The inductive invariant.                                                 *)

Limit(t) == IF t \in Producer THEN Capacity ELSE 0

\* The vector lets t do its work, wherever the token is.
CanGo(t) == balance # Limit(t)

Alike(t, u) == Home[t] = Home[u] /\ (t \in Producer <=> u \in Producer)
Opposite(t, u) == Home[t] = Home[u] /\ (t \in Producer <=> u \notin Producer)

\* Every thread of the application has one of the other kind on its process.
Mixed == Thread # {} /\ \A t \in Thread : \E u \in Thread : Opposite(t, u)

\* What the vector holds travels with the token, and a thread sleeps on the condition of
\* its kind.
AddsUp ==
    /\ step \in [Thread -> {"check", "signal", "unlock"}]
    /\ Current = balance
    /\ \A t \in Thread : pc[t] \in {"yielding", "sleeping"} => cond[t] = Awaits(t)

\* The threads like t are awake, or one of their process is about to wake them.
Cared(t) ==
    \/ \E u \in Thread : Opposite(t, u) /\ At(u, "signal")
    \/ \A u \in Thread : Alike(t, u) => pc[u] \notin {"yielding", "sleeping"}

\* Somewhere there are threads that can go on and that are not forgotten.
Moving == \E t \in Thread : CanGo(t) /\ Cared(t)

AppInv == IInv /\ AddsUp /\ (Mixed => Moving)

-----------------------------------------------------------------------------
(* The token's value, as a number.                                          *)

\* The properties are one value, in the token.
LEMMA OneValue == IInv => Properties = {Current} /\ Current \in Value
<1> SUFFICES ASSUME IInv PROVE Properties = {Current} /\ Current \in Value
  OBVIOUS
<1>1. CASE owned # {}
  BY <1>1, OwnedProperties
<1>2. CASE owned = {}
  <2>1. PICK a \in Process, b \in Process : Tokens(a, b) # {}
    BY <1>2 DEF IInv, OneToken
  <2>2. PICK i \in Tokens(a, b) : TRUE
    BY <2>1
  <2> QED
    BY <2>2, SentProperties
<1> QED
  BY <1>1, <1>2

\* The vector's length is within its capacity, and a thread that is inside sees it.
LEMMA InsideSees ==
    ASSUME IInv, AddsUp
    PROVE  /\ balance \in 0 .. Capacity
           /\ \A t \in Inside : copy[Home[t]] = balance
<1>1. balance \in 0 .. Capacity
  BY OneValue, ApplicationAssumption DEF AddsUp
<1>2. ASSUME NEW t \in Inside PROVE copy[Home[t]] = balance
  <2>1. Home[t] \in owned
    BY InsideAlone
  <2> QED
    BY <2>1, Sees DEF OwnerSees, AddsUp
<1> QED
  BY <1>1, <1>2

LEMMA BlockedIs ==
    ASSUME IInv, AddsUp, NEW t \in Thread, At(t, "check")
    PROVE  t \in Inside /\ copy[Home[t]] = balance /\ (Blocked(t) <=> ~ CanGo(t))
<1>1. t \in Inside
  BY DEF At, Inside
<1> QED
  BY <1>1, InsideSees DEF Blocked, CanGo, Limit

-----------------------------------------------------------------------------
(* A step of the application is a step of MonitorThreads.                   *)

\* What a change leaves in the vector, and in the copy of the process.
LEMMA ChangeAdds ==
    ASSUME IInv, AddsUp, NEW t \in Thread, Change(t)
    PROVE  /\ balance' = balance + (IF t \in Producer THEN 1 ELSE -1)
           /\ balance' \in Value /\ balance \in Nat
           /\ Write(t, balance') /\ t \in Inside
           /\ step' = [step EXCEPT ![t] = "signal"]
<1>1. /\ At(t, "check") /\ ~ Blocked(t)
      /\ Write(t, copy[Home[t]] + (IF t \in Producer THEN 1 ELSE -1))
      /\ balance' = balance + (IF t \in Producer THEN 1 ELSE -1)
      /\ step' = [step EXCEPT ![t] = "signal"]
  BY DEF Change, Proceeds
<1>2. t \in Inside /\ copy[Home[t]] = balance /\ balance # Limit(t)
  BY <1>1, BlockedIs DEF CanGo
<1>3. balance \in 0 .. Capacity /\ Capacity \in Nat /\ Value = 0 .. Capacity
  BY InsideSees, ApplicationAssumption
<1>4. CASE t \in Producer
  BY <1>1, <1>2, <1>3, <1>4 DEF Limit
<1>5. CASE t \notin Producer
  BY <1>1, <1>2, <1>3, <1>5 DEF Limit
<1> QED
  BY <1>4, <1>5

LEMMA ActIs ==
    ASSUME IInv, AddsUp, NEW t \in Thread, Act(t)
    PROVE  Step(t) \/ Call(t)
<1>1. Awaits(t) \in Condition /\ Signals(t) \in Condition
  BY ApplicationAssumption DEF Awaits, Signals
<1>2. Begin(t) => Call(t)
  BY DEF Begin, Call
<1>3. Await(t) => Call(t)
  BY <1>1 DEF Await, Call
<1>4. Change(t) => Call(t)
  BY ChangeAdds DEF Call
<1>5. Tell(t) => Call(t)
  BY <1>1 DEF Tell, Call
<1>6. End(t) => Call(t)
  BY DEF End, Call
<1> QED
  BY <1>2, <1>3, <1>4, <1>5, <1>6 DEF Act

LEMMA AppNextIs == IInv /\ AddsUp /\ [AppNext]_allVars => [Next]_vars
<1> SUFFICES ASSUME IInv, AddsUp, [AppNext]_allVars PROVE [Next]_vars
  OBVIOUS
<1>1. ASSUME NEW t \in Thread, Act(t) PROVE Next
  BY <1>1, ActIs DEF Next
<1>2. ASSUME NEW p \in Process, Run(p) PROVE Next
  BY <1>2 DEF Run, Next
<1>3. UNCHANGED allVars => UNCHANGED vars
  BY DEF allVars
<1>4. ASSUME NEW t \in Thread, Stir(t) PROVE Next
  BY <1>4 DEF Stir, Next
<1> QED
  BY <1>1, <1>2, <1>3, <1>4 DEF AppNext

-----------------------------------------------------------------------------
(* The sum.                                                                 *)

\* The conditions of a process's threads: each keeps its own.
LEMMA CondKept ==
    ASSUME IInv, AddsUp, NEW t \in Thread, Act(t)
    PROVE  \A u \in Thread : pc'[u] \in {"yielding", "sleeping"} => cond'[u] = Awaits(u)
<1> SUFFICES ASSUME NEW u \in Thread, pc'[u] \in {"yielding", "sleeping"}
             PROVE  cond'[u] = Awaits(u)
  OBVIOUS
<1>1. TypeOK /\ (Step(t) \/ Call(t)) /\ pc \in [Thread -> Place] /\ cond \in [Thread -> Condition]
  BY ActIs DEF IInv, TypeOK
<1>2. u # t => pc[u] \in {"yielding", "sleeping"}
  BY <1>1, OthersUndisturbed DEF Undisturbed
<1>3. pc[u] \in {"yielding", "sleeping"} => cond[u] = Awaits(u)
  BY DEF AddsUp
<1>4. CASE Await(t)
  <2>1. pc[t] = "inside" /\ cond' = [cond EXCEPT ![t] = Awaits(t)]
    BY <1>4 DEF Await, Wait, At
  <2> QED
    BY <1>1, <1>2, <1>3, <2>1
<1>5. CASE Tell(t)
  <2>1. pc[t] = "inside" /\ cond' = [cond EXCEPT ![t] = Signals(t)]
    BY <1>5 DEF Tell, Signal, At
  <2>2. pc'[t] = "signalling"
    BY <1>1, <1>5, <2>1 DEF Tell, Signal, Woken, Sleepers
  <2> QED
    BY <1>1, <1>2, <1>3, <2>1, <2>2
<1>6. CASE Begin(t) \/ Change(t) \/ End(t) \/ Acquire(t) \/ SendLockRequest(t) \/ TakeGrant(t)
           \/ ReleaseMutex(t) \/ SendSignalRequest(t)
  <2>1. cond' = cond
    BY <1>6 DEF Begin, Change, End, Lock, Write, Unlock, Acquire, SendLockRequest, TakeGrant,
       ReleaseMutex, SendSignalRequest, threadVars
  <2>2. pc'[t] \notin {"yielding", "sleeping"}
    BY <1>1, <1>6 DEF Begin, Change, End, Lock, Write, Unlock, Acquire, SendLockRequest, TakeGrant,
       ReleaseMutex, SendSignalRequest, Moves, At, threadVars
  <2> QED
    BY <1>2, <1>3, <2>1, <2>2
<1>7. CASE Sleep(t)
  <2>1. cond' = cond /\ pc[t] = "yielding"
    BY <1>7 DEF Sleep, Moves
  <2> QED
    BY <1>2, <1>3, <2>1
<1> QED
  BY <1>4, <1>5, <1>6, <1>7 DEF Act, Step

LEMMA ActAdds ==
    ASSUME IInv, IInv', AddsUp, NEW t \in Thread, Act(t)
    PROVE  AddsUp'
<1>1. step' \in [Thread -> {"check", "signal", "unlock"}]
  BY DEF AddsUp, Act, Begin, Await, Change, Tell, End, Proceeds
<1>2. \A u \in Thread : pc'[u] \in {"yielding", "sleeping"} => cond'[u] = Awaits(u)
  BY CondKept
<1>3. CASE Change(t)
  <2>1. Write(t, balance') /\ t \in Inside
    BY <1>3, ChangeAdds
  <2>2. Home[t] \in owned /\ Home[t] \in Process
    BY <2>1, InsideAlone, HomeAssumption DEF Inside
  <2>3. owned' = owned /\ copy'[Home[t]] = balance'
    BY <2>1, <2>2 DEF Write, loopVars, IInv, TypeOK
  <2>4. OwnerSees'
    BY Sees, PTL
  <2>5. Current' = balance'
    BY <2>2, <2>3, <2>4 DEF OwnerSees
  <2> QED
    BY <1>1, <1>2, <2>5 DEF AddsUp, Awaits
<1>4. CASE ~ Change(t)
  <2>1. balance' = balance /\ owned' = owned /\ net' = net /\ copy' = copy
    BY <1>4 DEF Act, Begin, Await, Tell, End, Lock, Wait, Signal, Unlock, Step, Acquire,
       SendLockRequest, TakeGrant, ReleaseMutex, Sleep, SendSignalRequest, loopVars
  <2>2. Current' = balance'
    BY <2>1, SameProperties DEF AddsUp
  <2> QED
    BY <1>1, <1>2, <2>2 DEF AddsUp, Awaits
<1> QED
  BY <1>3, <1>4

LEMMA RunAdds ==
    ASSUME IInv, IInv', AddsUp, NEW p \in Process, Run(p)
    PROVE  AddsUp'
<1>1. Loop(p) /\ step' = step /\ balance' = balance /\ TypeOK
  BY DEF Run, IInv
<1>2. Current' = Current
  BY <1>1, LoopPromise DEF Promise!vars, Current
<1>3. cond' = cond
  BY <1>1 DEF Loop, RequestLock, RequestUnlock, RequestSignal, PacketRequestToken,
     PacketGiveToken, PacketSignal, threadVars
<1>4. \A u \in Thread : pc'[u] \in {"yielding", "sleeping"} => pc[u] \in {"yielding", "sleeping"}
  BY <1>1, LoopUndisturbed DEF Undisturbed
<1> QED
  BY <1>1, <1>2, <1>3, <1>4 DEF AddsUp, Awaits

-----------------------------------------------------------------------------
(* Somebody can always go on.                                               *)

\* A step after which nobody else sleeps and whoever was about to signal still is.
LEMMA CalmStep ==
    ASSUME Moving, balance' = balance,
           \A u \in Thread : pc'[u] \in {"yielding", "sleeping"} => pc[u] \in {"yielding", "sleeping"},
           \A u \in Thread : At(u, "signal") => At(u, "signal")'
    PROVE  Moving'
<1>1. PICK t \in Thread : CanGo(t) /\ Cared(t)
  BY DEF Moving
<1>2. CanGo(t)'
  BY <1>1 DEF CanGo, Limit
<1>3. Cared(t)'
  <2>1. CASE \E u \in Thread : Opposite(t, u) /\ At(u, "signal")
    <3>1. PICK u \in Thread : Opposite(t, u) /\ At(u, "signal")'
      BY <2>1
    <3> QED
      BY <3>1 DEF Cared, Opposite
  <2>2. CASE \A u \in Thread : Alike(t, u) => pc[u] \notin {"yielding", "sleeping"}
    BY <2>2 DEF Cared, Alike
  <2> QED
    BY <1>1, <2>1, <2>2 DEF Cared
<1> QED
  BY <1>2, <1>3 DEF Moving

\* One thread changes the vector: those of the other kind can go on, and it is about to
\* tell them.
LEMMA ChangeMoves ==
    ASSUME IInv, AddsUp, Mixed, NEW t \in Thread, Change(t)
    PROVE  Moving'
<1>1. PICK u \in Thread : Opposite(t, u)
  BY DEF Mixed
<1>2. /\ balance' = balance + (IF t \in Producer THEN 1 ELSE -1)
      /\ balance' \in 0 .. Capacity /\ balance \in Nat /\ Capacity \in Nat
      /\ Write(t, balance') /\ t \in Inside /\ step' = [step EXCEPT ![t] = "signal"]
  BY ChangeAdds, ApplicationAssumption
<1>3. balance \in 0 .. Capacity
  BY InsideSees
<1>4. CanGo(u)'
  <2>1. CASE t \in Producer
    <3>1. balance' = balance + 1 /\ u \notin Producer
      BY <1>1, <1>2, <2>1 DEF Opposite
    <3> QED
      BY <1>2, <3>1 DEF CanGo, Limit
  <2>2. CASE t \notin Producer
    <3>1. balance' = balance - 1 /\ u \in Producer
      BY <1>1, <1>2, <2>2 DEF Opposite
    <3> QED
      BY <1>2, <1>3, <3>1 DEF CanGo, Limit
  <2> QED
    BY <2>1, <2>2
<1>5. At(t, "signal")'
  <2>1. pc' = pc /\ pc[t] = "inside"
    BY <1>2 DEF Write, threadVars
  <2> QED
    BY <1>2, <2>1 DEF At, AddsUp
<1>6. Opposite(u, t)
  BY <1>1 DEF Opposite
<1> QED
  BY <1>4, <1>5, <1>6 DEF Moving, Cared, Opposite

\* Who goes to sleep cannot go on; whoever could is of the other kind.
LEMMA AwaitMoves ==
    ASSUME IInv, AddsUp, Moving, NEW t \in Thread, Await(t)
    PROVE  Moving'
<1>1. PICK m \in Thread : CanGo(m) /\ Cared(m)
  BY DEF Moving
<1>2. ~ CanGo(t) /\ At(t, "check") /\ balance' = balance /\ step' = step
  BY BlockedIs DEF Await
<1>3. ~ Alike(m, t)
  BY <1>1, <1>2 DEF Alike, CanGo, Limit
<1>4. \A u \in Thread : u # t => pc'[u] = pc[u]
  BY DEF Await, Wait, Moves, IInv, TypeOK
<1>5. CanGo(m)'
  BY <1>1, <1>2 DEF CanGo, Limit
<1>6. CASE \E u \in Thread : Opposite(m, u) /\ At(u, "signal")
  <2>1. PICK u \in Thread : Opposite(m, u) /\ At(u, "signal")
    BY <1>6
  <2>2. u # t
    BY <1>2, <2>1 DEF At
  <2>3. At(u, "signal")'
    BY <1>2, <1>4, <2>1, <2>2 DEF At
  <2> QED
    BY <1>5, <2>1, <2>3 DEF Moving, Cared, Opposite
<1>7. CASE \A u \in Thread : Alike(m, u) => pc[u] \notin {"yielding", "sleeping"}
  <2>1. \A u \in Thread : Alike(m, u) => pc'[u] \notin {"yielding", "sleeping"}
    BY <1>3, <1>4, <1>7
  <2> QED
    BY <1>5, <2>1 DEF Moving, Cared, Alike
<1> QED
  BY <1>1, <1>6, <1>7 DEF Cared

\* A signal wakes the sleepers of the other kind; none is on its way to sleep, because the
\* thread that signals has m_mutex.
LEMMA TellMoves ==
    ASSUME IInv, AddsUp, Moving, NEW t \in Thread, Tell(t)
    PROVE  Moving'
<1>1. PICK m \in Thread : CanGo(m) /\ Cared(m)
  BY DEF Moving
<1>2. /\ pc[t] = "inside" /\ balance' = balance /\ step' = [step EXCEPT ![t] = "unlock"]
      /\ pc' = Woken([pc EXCEPT ![t] = "signalling"], Home[t], Signals(t))
  BY DEF Tell, Signal, Proceeds
<1>3. pc \in [Thread -> Place] /\ MutexHeld /\ step \in [Thread -> {"check", "signal", "unlock"}]
  BY DEF IInv, TypeOK, AddsUp
<1>4. /\ pc'[t] = "signalling"
      /\ \A u \in Thread : u # t => pc'[u] = IF u \in Sleepers(Home[t], Signals(t)) THEN "waking" ELSE pc[u]
  BY <1>2, <1>3 DEF Woken, Sleepers
<1>5. CanGo(m)'
  BY <1>1, <1>2 DEF CanGo, Limit
<1>6. CASE \A u \in Thread : Alike(m, u) => pc[u] \notin {"yielding", "sleeping"}
  <2>1. \A u \in Thread : Alike(m, u) => pc'[u] \notin {"yielding", "sleeping"}
    BY <1>4, <1>6
  <2> QED
    BY <1>5, <2>1 DEF Moving, Cared, Alike
<1>7. ASSUME NEW u \in Thread, Opposite(m, u), At(u, "signal") PROVE Moving'
  <2>1. CASE u = t
    <3>1. ASSUME NEW v \in Thread, Alike(m, v) PROVE pc'[v] \notin {"yielding", "sleeping"}
      <4>1. Home[v] = Home[t] /\ v # t /\ Awaits(v) = Signals(t)
        BY <1>7, <2>1, <3>1 DEF Opposite, Alike, Awaits, Signals
      <4>2. pc[v] # "yielding"
        BY <1>2, <1>3, <4>1, Alone DEF Holding
      <4>3. pc[v] = "sleeping" => v \in Sleepers(Home[t], Signals(t))
        BY <4>1 DEF Sleepers, AddsUp
      <4> QED
        BY <1>4, <4>1, <4>2, <4>3
    <3> QED
      BY <1>5, <3>1 DEF Moving, Cared, Alike
  <2>2. CASE u # t
    <3>1. pc[u] = "inside" /\ step[u] = "signal"
      BY <1>7 DEF At
    <3>2. u \notin Sleepers(Home[t], Signals(t))
      BY <3>1 DEF Sleepers
    <3>3. At(u, "signal")'
      BY <1>2, <1>3, <1>4, <2>2, <3>1, <3>2 DEF At
    <3> QED
      BY <1>5, <1>7, <3>3 DEF Moving, Cared, Opposite
  <2> QED
    BY <2>1, <2>2
<1> QED
  BY <1>1, <1>6, <1>7 DEF Cared

LEMMA ActMoves ==
    ASSUME IInv, AddsUp, Mixed, Moving, NEW t \in Thread, Act(t)
    PROVE  Moving'
<1>1. TypeOK /\ pc \in [Thread -> Place] /\ step \in [Thread -> {"check", "signal", "unlock"}]
  BY DEF IInv, TypeOK, AddsUp
<1>2. ASSUME NEW u \in Thread, u # t PROVE Undisturbed(u)
  BY <1>1, <1>2, ActIs, OthersUndisturbed
<1>3. ASSUME balance' = balance, \A u \in Thread \ {t} : step'[u] = step[u], ~ At(t, "signal"),
             pc'[t] \in {"yielding", "sleeping"} => pc[t] \in {"yielding", "sleeping"}
      PROVE  Moving'
  <2>1. \A u \in Thread : pc'[u] \in {"yielding", "sleeping"} => pc[u] \in {"yielding", "sleeping"}
    BY <1>2, <1>3 DEF Undisturbed
  <2>2. \A u \in Thread : At(u, "signal") => At(u, "signal")'
    BY <1>2, <1>3 DEF Undisturbed, At
  <2> QED
    BY <1>3, <2>1, <2>2, CalmStep
<1>4. CASE Begin(t) \/ End(t)
  <2>1. balance' = balance /\ \A u \in Thread \ {t} : step'[u] = step[u]
    BY <1>1, <1>4 DEF Begin, End, Proceeds
  <2>2. ~ At(t, "signal") /\ pc'[t] \notin {"yielding", "sleeping"}
    BY <1>1, <1>4 DEF Begin, End, Lock, Unlock, Moves, At
  <2> QED
    BY <1>3, <2>1, <2>2
<1>5. CASE Step(t) /\ UNCHANGED <<step, balance>>
  <2>1. ~ At(t, "signal")
    BY <1>5 DEF Step, Acquire, SendLockRequest, TakeGrant, ReleaseMutex, Sleep, SendSignalRequest,
       Moves, At
  <2>2. pc'[t] \in {"yielding", "sleeping"} => pc[t] \in {"yielding", "sleeping"}
    BY <1>1, <1>5 DEF Step, Acquire, SendLockRequest, TakeGrant, ReleaseMutex, Sleep,
       SendSignalRequest, Moves
  <2> QED
    BY <1>3, <1>5, <2>1, <2>2
<1> QED
  BY <1>4, <1>5, AwaitMoves, ChangeMoves, TellMoves DEF Act

LEMMA RunMoves ==
    ASSUME IInv, AddsUp, Moving, NEW p \in Process, Run(p)
    PROVE  Moving'
<1>1. Loop(p) /\ step' = step /\ balance' = balance /\ TypeOK
  BY DEF Run, IInv
<1>2. \A u \in Thread : Undisturbed(u)
  BY <1>1, LoopUndisturbed
<1>3. \A u \in Thread : pc'[u] \in {"yielding", "sleeping"} => pc[u] \in {"yielding", "sleeping"}
  BY <1>2 DEF Undisturbed
<1>4. \A u \in Thread : At(u, "signal") => At(u, "signal")'
  BY <1>1, <1>2 DEF Undisturbed, At
<1> QED
  BY <1>1, <1>3, <1>4, CalmStep

\* Who wakes unnotified can do no harm.
LEMMA StirKeeps ==
    ASSUME IInv, AddsUp, NEW t \in Thread, Stir(t)
    PROVE  AddsUp' /\ (Moving => Moving')
<1>1. /\ Moves(t, {"sleeping"}, "waking")
      /\ UNCHANGED <<cond, owned, net, copy, step, balance>>
  BY DEF Stir, WakeSpuriously, loopVars
<1>2. \A u \in Thread : pc'[u] \in {"yielding", "sleeping"} => pc[u] \in {"yielding", "sleeping"}
  BY <1>1 DEF Moves, IInv, TypeOK
<1>3. AddsUp'
  <2>1. Current' = Current
    BY <1>1, SameProperties
  <2> QED
    BY <1>1, <1>2, <2>1 DEF AddsUp, Awaits
<1>4. \A u \in Thread : At(u, "signal") => At(u, "signal")'
  BY <1>1 DEF At, Moves, IInv, TypeOK
<1> QED
  BY <1>1, <1>2, <1>3, <1>4, CalmStep

-----------------------------------------------------------------------------
(* Every state.                                                             *)

LEMMA AppInitInv == AppInit => AppInv
<1> SUFFICES ASSUME AppInit PROVE AppInv
  OBVIOUS
<1>1. Init /\ balance = 0 /\ step = [t \in Thread |-> "check"]
  BY DEF AppInit
<1>2. IInv /\ \A t \in Thread : pc[t] = "outside"
  BY <1>1, InitIInv DEF Init
<1>3. Current = balance
  <2>1. First \in owned /\ copy[First] = 0
    BY <1>1, ProcessAssumption, ApplicationAssumption DEF Init
  <2> QED
    BY <1>1, <1>2, <2>1, Sees DEF OwnerSees
<1>4. AddsUp
  BY <1>1, <1>2, <1>3 DEF AddsUp
<1>5. ASSUME Mixed PROVE Moving
  <2>1. PICK t \in Thread : t \in Producer
    BY <1>5 DEF Mixed, Opposite
  <2>2. CanGo(t)
    BY <1>1, <2>1, ApplicationAssumption DEF CanGo, Limit
  <2>3. Cared(t)
    BY <1>2 DEF Cared
  <2> QED
    BY <2>2, <2>3 DEF Moving
<1> QED
  BY <1>2, <1>4, <1>5 DEF AppInv

LEMMA AppNextInv == AppInv /\ [AppNext]_allVars => AppInv'
<1> SUFFICES ASSUME AppInv, [AppNext]_allVars PROVE AppInv'
  OBVIOUS
<1>1. IInv /\ AddsUp /\ (Mixed => Moving)
  BY DEF AppInv
<1>2. IInv'
  BY <1>1, AppNextIs, NextIInv
<1>3. ASSUME NEW t \in Thread, Act(t) PROVE AddsUp' /\ (Mixed => Moving')
  BY <1>1, <1>2, <1>3, ActAdds, ActMoves
<1>4. ASSUME NEW p \in Process, Run(p) PROVE AddsUp' /\ (Mixed => Moving')
  BY <1>1, <1>2, <1>4, RunAdds, RunMoves
<1>5. ASSUME UNCHANGED allVars PROVE AddsUp' /\ (Mixed => Moving')
  <2>1. UNCHANGED <<pc, cond, owned, net, copy, step, balance>>
    BY <1>5 DEF allVars, vars, threadVars, loopVars
  <2>2. Current' = Current
    BY <2>1, SameProperties
  <2>3. AddsUp'
    BY <1>1, <2>1, <2>2 DEF AddsUp, Awaits
  <2>4. ASSUME Moving PROVE Moving'
    <3>1. balance' = balance /\ pc' = pc /\ step' = step
      BY <2>1
    <3> QED
      BY <2>4, <3>1, CalmStep DEF At
  <2> QED
    BY <1>1, <2>3, <2>4
<1>6. ASSUME NEW t \in Thread, Stir(t) PROVE AddsUp' /\ (Mixed => Moving')
  BY <1>1, <1>6, StirKeeps
<1>7. Mixed' <=> Mixed
  BY DEF Mixed, Opposite
<1> QED
  BY <1>2, <1>3, <1>4, <1>5, <1>6, <1>7 DEF AppNext, AppInv

THEOREM AppInvariance == AppSpec => []AppInv
<1>1. AppSpec => AppInit /\ [][AppNext]_allVars
  BY PTL DEF AppSpec
<1> QED
  BY <1>1, AppInitInv, AppNextInv, PTL

\* The application calls the monitor only in ways MonitorThreads allows, so that all that
\* is proved of any application holds for this one.
THEOREM UsesMonitor == AppSpec => Spec
<1>1. AppSpec => AppInit /\ [][AppNext]_allVars
  BY PTL DEF AppSpec
<1>2. AppInit => Init
  BY DEF AppInit
<1>3. AppInv /\ [AppNext]_allVars => [Next]_vars
  BY AppNextIs DEF AppInv
<1> QED
  BY <1>1, <1>2, <1>3, AppInvariance, PTL DEF Spec

\* MessagesAddUp: the vector holds what was produced and not yet consumed, wherever it is,
\* and neither push_back nor pop_back goes beyond its ends.
THEOREM MessagesAddUpHolds == AppSpec => []MessagesAddUp
<1>1. AppInv => MessagesAddUp
  <2> SUFFICES ASSUME AppInv PROVE MessagesAddUp
    OBVIOUS
  <2>1. IInv /\ AddsUp
    BY DEF AppInv
  <2>2. balance \in 0 .. Capacity /\ Properties = {balance}
    BY <2>1, InsideSees, OneValue DEF AddsUp
  <2>3. \A t \in Thread : At(t, "check") /\ ~ Blocked(t) =>
           balance # IF t \in Producer THEN Capacity ELSE 0
    BY <2>1, BlockedIs DEF CanGo, Limit
  <2> QED
    BY <2>2, <2>3 DEF MessagesAddUp
<1> QED
  BY <1>1, AppInvariance, PTL

\* NeverStuck: with a producer and a consumer on each process that has threads, as in
\* main.cpp, they never all sleep.  A signal reaches at least the own process at once, so
\* a broadcast that comes too late for a thread that was about to sleep stops nobody for
\* ever.  Without the hypothesis it is false: run lost_signal.
THEOREM NeverStuckHolds == ASSUME Mixed PROVE AppSpec => []NeverStuck
<1>1. AppInv => NeverStuck
  <2> SUFFICES ASSUME AppInv, \A t \in Thread : pc[t] = "sleeping" PROVE FALSE
    BY DEF NeverStuck
  <2>1. PICK t \in Thread : Cared(t)
    BY DEF AppInv, Moving
  <2>2. pc[t] = "sleeping" /\ Alike(t, t)
    BY DEF Alike
  <2> QED
    BY <2>1, <2>2 DEF Cared, At
<1> QED
  BY <1>1, AppInvariance, PTL

=============================================================================
