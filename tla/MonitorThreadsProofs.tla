-------------------------- MODULE MonitorThreadsProofs --------------------------
(***************************************************************************)
(* Proofs about MonitorThreads, for any processes and threads: its types,  *)
(* that the requests of a process alternate, that the event loop keeps off *)
(* the properties while a thread is inside, and that all of it implements  *)
(* the one monitor of ConditionMonitor.                                    *)
(***************************************************************************)
EXTENDS MonitorThreads, TLAPS

-----------------------------------------------------------------------------
(* The inductive invariant.                                                 *)

Has(e, r) == \E i \in DOMAIN e : e[i] = r

\* A lock and an unlock request at most, the unlock first: the thread that posts
\* the next lock does so after the last one has posted its unlock.
Ordered(e) ==
    /\ \A i, j \in DOMAIN e : e[i] = LockRequest /\ e[j] = LockRequest => i = j
    /\ \A i, j \in DOMAIN e : e[i] = UnlockRequest /\ e[j] = UnlockRequest => i = j
    /\ \A i, j \in DOMAIN e : e[i] = UnlockRequest /\ e[j] = LockRequest => i < j

Asks(p) == Has(events[p], LockRequest)
Leaves(p) == Has(events[p], UnlockRequest)

\* A thread of p is in takeGrant, or between lock and unlock.
Granting(p) == \E t \in Thread : Home[t] = p /\ pc[t] = "granting"
Entered(p) == \E t \in Inside : Home[t] = p

\* The places of a thread that has m_mutex.
Holding == {"locked", "granting", "inside", "signalling", "leaving", "yielding"}

MutexHeld == \A t \in Thread : pc[t] \in Holding => mutex[Home[t]] = {t}

\* What the queue, the flags and the threads of one process say about each other:
\* a thread in takeGrant has a request in the queue, or in m_pendingGrants, or its
\* grant; m_locked means a grant, a thread inside, or an unlock that is not handled.
OneCall(p) ==
    /\ Ordered(events[p])
    /\ Asks(p) => Granting(p) /\ p \notin pending /\ p \notin granted
    /\ Leaves(p) => p \in locked /\ p \notin granted
    /\ p \in pending => Granting(p) /\ p \notin owned
    /\ p \in granted => p \in locked /\ Granting(p)
    /\ p \in locked => p \in owned /\ (p \in granted \/ Entered(p) \/ Leaves(p))
    /\ Entered(p) => p \in locked /\ ~Leaves(p)

\* The token is owned by one process or in one packet, which is on its way to a
\* process that waits for it.
OneToken ==
    /\ \A p, q \in owned : p = q
    /\ owned # {} => \A a, b \in Process : Tokens(a, b) = {}
    /\ owned = {} => \E a, b \in Process : Tokens(a, b) # {}
    /\ \A a, b, c, d \in Process : \A i \in Tokens(a, b), j \in Tokens(c, d) :
          a = c /\ b = d /\ i = j
    /\ \A a, b \in Process : Tokens(a, b) # {} => b \in pending

IInv ==
    /\ TypeOK
    /\ MutexHeld
    /\ \A p \in Process : OneCall(p)
    /\ OneToken
    /\ asked = pending

-----------------------------------------------------------------------------
(* Requests in a queue.                                                     *)

LEMMA RequestKinds ==
    /\ LockRequest \in Request /\ UnlockRequest \in Request
    /\ LockRequest # UnlockRequest
    /\ \A c \in Condition : /\ SignalRequest(c) \in Request
                            /\ SignalRequest(c) # LockRequest
                            /\ SignalRequest(c) # UnlockRequest
    /\ \A r \in Request : /\ r.type = "Lock" <=> r = LockRequest
                          /\ r.type = "Unlock" <=> r = UnlockRequest
                          /\ r.type = "Signal" => r.cond \in Condition
  BY DEF Request, LockRequest, UnlockRequest, SignalRequest

LEMMA AppendHas ==
    ASSUME NEW e \in Seq(Request), NEW x \in Request, NEW r
    PROVE  /\ Append(e, x) \in Seq(Request)
           /\ Has(Append(e, x), r) <=> Has(e, r) \/ x = r
<1>1. /\ Append(e, x) \in Seq(Request) /\ DOMAIN Append(e, x) = 1 .. Len(e) + 1
      /\ DOMAIN e = 1 .. Len(e) /\ Len(e) \in Nat
      /\ Append(e, x)[Len(e) + 1] = x
      /\ \A i \in 1 .. Len(e) : Append(e, x)[i] = e[i]
  OBVIOUS
<1>2. Has(e, r) \/ x = r => Has(Append(e, x), r)
  BY <1>1 DEF Has
<1>3. ASSUME NEW i \in 1 .. Len(e) + 1, Append(e, x)[i] = r
      PROVE  Has(e, r) \/ x = r
  <2>1. CASE i \in 1 .. Len(e)
    BY <1>1, <1>3, <2>1 DEF Has
  <2>2. CASE i = Len(e) + 1
    BY <1>1, <1>3, <2>2
  <2> QED
    BY <1>1, <2>1, <2>2
<1> QED
  BY <1>1, <1>2, <1>3 DEF Has

\* A lock may follow an unlock, an unlock nothing but signals.
LEMMA AppendOrdered ==
    ASSUME NEW e \in Seq(Request), NEW x \in Request, Ordered(e),
           x = LockRequest => ~Has(e, LockRequest),
           x = UnlockRequest => ~Has(e, UnlockRequest) /\ ~Has(e, LockRequest)
    PROVE  Ordered(Append(e, x))
<1>1. /\ DOMAIN Append(e, x) = 1 .. Len(e) + 1
      /\ DOMAIN e = 1 .. Len(e) /\ Len(e) \in Nat
      /\ Append(e, x)[Len(e) + 1] = x
      /\ \A i \in 1 .. Len(e) : Append(e, x)[i] = e[i]
  OBVIOUS
<1>2. LockRequest # UnlockRequest
  BY RequestKinds
<1>3. ASSUME NEW i \in DOMAIN Append(e, x), NEW j \in DOMAIN Append(e, x)
      PROVE  /\ Append(e, x)[i] = LockRequest /\ Append(e, x)[j] = LockRequest => i = j
             /\ Append(e, x)[i] = UnlockRequest /\ Append(e, x)[j] = UnlockRequest => i = j
             /\ Append(e, x)[i] = UnlockRequest /\ Append(e, x)[j] = LockRequest => i < j
  <2>1. CASE i \in 1 .. Len(e) /\ j \in 1 .. Len(e)
    BY <1>1, <2>1 DEF Ordered
  <2>2. CASE i = Len(e) + 1 /\ j \in 1 .. Len(e)
    BY <1>1, <1>2, <2>2 DEF Has
  <2>3. CASE i \in 1 .. Len(e) /\ j = Len(e) + 1
    BY <1>1, <1>2, <2>3 DEF Has
  <2>4. CASE i = Len(e) + 1 /\ j = Len(e) + 1
    BY <1>1, <1>2, <2>4
  <2> QED
    BY <1>1, <2>1, <2>2, <2>3, <2>4
<1> QED
  BY <1>3 DEF Ordered

\* Taking the first request of a queue in which the lock and the unlock occur once.
LEMMA TailRequests ==
    ASSUME NEW e \in Seq(Request), e # <<>>, Ordered(e)
    PROVE  /\ Head(e) \in Request /\ Tail(e) \in Seq(Request)
           /\ Ordered(Tail(e))
           /\ \A r \in {LockRequest, UnlockRequest} :
                 /\ Head(e) = r => Has(e, r)
                 /\ Has(Tail(e), r) <=> Has(e, r) /\ Head(e) # r
           /\ Head(e) = LockRequest => ~Has(e, UnlockRequest)
<1>1. /\ Head(e) \in Request /\ Head(e) = e[1] /\ Tail(e) \in Seq(Request)
      /\ DOMAIN Tail(e) = 1 .. Len(e) - 1
      /\ DOMAIN e = 1 .. Len(e) /\ Len(e) \in Nat \ {0}
      /\ \A i \in 1 .. Len(e) - 1 : Tail(e)[i] = e[i + 1]
  OBVIOUS
<1>2. Ordered(Tail(e))
  <2> SUFFICES ASSUME NEW i \in DOMAIN Tail(e), NEW j \in DOMAIN Tail(e)
               PROVE  /\ Tail(e)[i] = LockRequest /\ Tail(e)[j] = LockRequest => i = j
                      /\ Tail(e)[i] = UnlockRequest /\ Tail(e)[j] = UnlockRequest => i = j
                      /\ Tail(e)[i] = UnlockRequest /\ Tail(e)[j] = LockRequest => i < j
    BY DEF Ordered
  <2>1. i + 1 \in DOMAIN e /\ j + 1 \in DOMAIN e /\ i \in Nat /\ j \in Nat
        /\ Tail(e)[i] = e[i + 1] /\ Tail(e)[j] = e[j + 1]
    BY <1>1
  <2>2. /\ e[i + 1] = LockRequest /\ e[j + 1] = LockRequest => i + 1 = j + 1
        /\ e[i + 1] = UnlockRequest /\ e[j + 1] = UnlockRequest => i + 1 = j + 1
        /\ e[i + 1] = UnlockRequest /\ e[j + 1] = LockRequest => i + 1 < j + 1
    BY <2>1 DEF Ordered
  <2> QED
    BY <2>1, <2>2
<1>3. ASSUME NEW r \in {LockRequest, UnlockRequest}
      PROVE  /\ Head(e) = r => Has(e, r)
             /\ Has(Tail(e), r) <=> Has(e, r) /\ Head(e) # r
  <2>1. Head(e) = r => Has(e, r)
    BY <1>1 DEF Has
  <2>2. ASSUME NEW i \in DOMAIN Tail(e), Tail(e)[i] = r
        PROVE  Has(e, r) /\ Head(e) # r
    <3>1. i + 1 \in DOMAIN e /\ e[i + 1] = r /\ 1 \in DOMAIN e /\ i + 1 # 1
      BY <1>1, <2>2
    <3> QED
      BY <1>1, <3>1 DEF Has, Ordered
  <2>3. ASSUME NEW i \in DOMAIN e, e[i] = r, Head(e) # r
        PROVE  Has(Tail(e), r)
    <3>1. i - 1 \in DOMAIN Tail(e) /\ Tail(e)[i - 1] = r
      BY <1>1, <2>3
    <3> QED
      BY <3>1 DEF Has
  <2> QED
    BY <2>1, <2>2, <2>3 DEF Has
<1>4. ASSUME Head(e) = LockRequest PROVE ~Has(e, UnlockRequest)
  <2> SUFFICES ASSUME NEW i \in DOMAIN e, e[i] = UnlockRequest PROVE FALSE
    BY DEF Has
  <2>1. i < 1
    BY <1>1, <1>4 DEF Ordered
  <2> QED
    BY <1>1, <2>1
<1> QED
  BY <1>1, <1>2, <1>3, <1>4

-----------------------------------------------------------------------------
(* Types.                                                                   *)

LEMMA InitType == Init => TypeOK
  BY ProcessAssumption, ValueAssumption DEF Init, TypeOK, Place

LEMMA MessageKinds ==
    /\ \A c \in Condition : SignalMsg(c) \in Message /\ SignalMsg(c).type = "Signal"
    /\ \A v \in Value : /\ GiveTokenMsg(v) \in Message
                        /\ GiveTokenMsg(v).type = "GiveToken" /\ GiveTokenMsg(v).value = v
    /\ \A m \in Message : /\ m.type = "Signal" => m.cond \in Condition
                          /\ m.type = "GiveToken" => m.value \in Value
  BY DEF Message, SignalMsg, GiveTokenMsg

LEMMA PostsType ==
    ASSUME TypeOK, NEW t \in Thread, NEW r \in Request, Posts(t, r)
    PROVE  events' \in [Process -> Seq(Request)]
  BY HomeAssumption DEF TypeOK, Posts

LEMMA ThreadsType ==
    ASSUME TypeOK, NEW t \in Thread, Step(t) \/ Call(t) \/ WakeSpuriously(t)
    PROVE  TypeOK'
<1>1. Home[t] \in Process /\ MaxCalls[t] \in Nat
  BY HomeAssumption, CallsAssumption
<1>2. CASE Lock(t) \/ Acquire(t) \/ ReleaseMutex(t) \/ Sleep(t) \/ WakeSpuriously(t) \/ TakeGrant(t)
  <2>1. pc' \in [Thread -> Place]
    BY <1>2 DEF TypeOK, Lock, Acquire, ReleaseMutex, Sleep, WakeSpuriously, TakeGrant, Moves, Place
  <2>2. calls' \in [Thread -> Nat]
    BY <1>1, <1>2 DEF TypeOK, Lock, Acquire, ReleaseMutex, Sleep, WakeSpuriously, TakeGrant, Calls
  <2>3. mutex' \in [Process -> SUBSET Thread]
    <3>1. mutex \in [Process -> SUBSET Thread] /\ mutex[Home[t]] \ {t} \in SUBSET Thread
      BY <1>1 DEF TypeOK
    <3>2. mutex' = mutex \/ TakesMutex(t) \/ DropsMutex(t)
      BY <1>2 DEF Lock, Acquire, ReleaseMutex, Sleep, WakeSpuriously, TakeGrant
    <3> QED
      BY <1>1, <3>1, <3>2 DEF TakesMutex, DropsMutex
  <2>5. granted' \in SUBSET Process
    BY <1>2 DEF TypeOK, Lock, Acquire, ReleaseMutex, Sleep, WakeSpuriously, TakeGrant
  <2>4. UNCHANGED <<cond, events, loopVars, copy>>
    BY <1>2 DEF Lock, Acquire, ReleaseMutex, Sleep, WakeSpuriously, TakeGrant
  <2> QED
    BY <2>1, <2>2, <2>3, <2>4, <2>5 DEF TypeOK, loopVars
<1>3. CASE SendLockRequest(t) \/ Unlock(t) \/ SendSignalRequest(t)
  <2>1. pc' \in [Thread -> Place]
    BY <1>3 DEF TypeOK, SendLockRequest, Unlock, SendSignalRequest, Moves, Place
  <2>2. cond[t] \in Condition
    BY DEF TypeOK
  <2>3. events' \in [Process -> Seq(Request)]
    BY <1>3, <2>2, PostsType, RequestKinds DEF SendLockRequest, Unlock, SendSignalRequest
  <2>4. UNCHANGED <<cond, calls, mutex, loopVars, granted, copy>>
    BY <1>3 DEF SendLockRequest, Unlock, SendSignalRequest
  <2> QED
    BY <2>1, <2>3, <2>4 DEF TypeOK, loopVars
<1>4. ASSUME NEW c \in Condition, Wait(t, c) PROVE TypeOK'
  <2>1. /\ pc' \in [Thread -> Place] /\ cond' \in [Thread -> Condition]
        /\ calls' \in [Thread -> Nat]
    BY <1>1, <1>4 DEF TypeOK, Wait, Moves, Calls, Place
  <2>2. events' \in [Process -> Seq(Request)]
    BY <1>4, PostsType, RequestKinds DEF Wait
  <2> QED
    BY <1>4, <2>1, <2>2 DEF TypeOK, Wait, loopVars
<1>5. ASSUME NEW c \in Condition, Signal(t, c) PROVE TypeOK'
  <2>1. /\ pc' \in [Thread -> Place] /\ cond' \in [Thread -> Condition]
        /\ calls' \in [Thread -> Nat]
    BY <1>1, <1>5 DEF TypeOK, Signal, Calls, Woken, Place
  <2> QED
    BY <1>5, <2>1 DEF TypeOK, Signal, loopVars
<1>6. CASE \E v \in Value : Write(t, v)
  BY <1>1, <1>6 DEF TypeOK, Write, threadVars, loopVars
<1> QED
  BY <1>2, <1>3, <1>4, <1>5, <1>6 DEF Step, Call

LEMMA SendTokenType ==
    ASSUME TypeOK, NEW p \in Process, NEW q \in Process, SendToken(p, q)
    PROVE  owned' \in SUBSET Process /\ net' \in [Process -> [Process -> Seq(Message)]]
  BY MessageKinds DEF TypeOK, SendToken

LEMMA ReceivedType ==
    ASSUME TypeOK, NEW p \in Process, NEW q \in Process, NEW type, Arrives(p, q, type)
    PROVE  /\ Received(p, q) \in [Process -> [Process -> Seq(Message)]]
           /\ Head(net[q][p]) \in Message
  BY DEF TypeOK, Received, Arrives

LEMMA RequestedType ==
    ASSUME TypeOK, NEW p \in Process, NEW type, Requested(p, type)
    PROVE  events' \in [Process -> Seq(Request)] /\ Head(events[p]) \in Request
  BY DEF TypeOK, Requested

LEMMA LoopType == ASSUME TypeOK, NEW p \in Process, Loop(p) PROVE TypeOK'
<1>1. CASE RequestLock(p)
  BY <1>1, RequestedType DEF TypeOK, RequestLock, threadVars
<1>2. CASE RequestUnlock(p)
  <2>1. /\ events' \in [Process -> Seq(Request)]
        /\ UNCHANGED <<threadVars, mutex, pending, asked, granted, copy>>
        /\ locked' \in SUBSET Process
    BY <1>2, RequestedType DEF RequestUnlock, TypeOK
  <2>2. owned' \in SUBSET Process /\ net' \in [Process -> [Process -> Seq(Message)]]
    BY <1>2, SendTokenType DEF RequestUnlock, TypeOK
  <2> QED
    BY <2>1, <2>2 DEF TypeOK, threadVars
<1>3. CASE RequestSignal(p)
  <2>1. Head(events[p]).cond \in Condition /\ events' \in [Process -> Seq(Request)]
    BY <1>3, RequestedType, RequestKinds DEF RequestSignal, Requested
  <2>2. SignalMsg(Head(events[p]).cond) \in Message
    BY <2>1, MessageKinds
  <2>3. net' \in [Process -> [Process -> Seq(Message)]]
    BY <1>3, <2>2 DEF RequestSignal, TypeOK
  <2> QED
    BY <1>3, <2>1, <2>3 DEF RequestSignal, TypeOK, threadVars
<1>4. CASE \E q \in Process : PacketRequestToken(p, q)
  BY <1>4, SendTokenType DEF TypeOK, PacketRequestToken, threadVars
<1>5. ASSUME NEW q \in Process, PacketGiveToken(p, q) PROVE TypeOK'
  <2>1. net' \in [Process -> [Process -> Seq(Message)]]
    BY <1>5, ReceivedType DEF PacketGiveToken
  <2>2. Head(net[q][p]).value \in Value
    BY <1>5, ReceivedType, MessageKinds DEF PacketGiveToken, Arrives
  <2> QED
    BY <1>5, <2>1, <2>2 DEF TypeOK, PacketGiveToken, LoadProperties, threadVars
<1>6. ASSUME NEW q \in Process, PacketSignal(p, q) PROVE TypeOK'
  <2>1. net' \in [Process -> [Process -> Seq(Message)]]
    BY <1>6, ReceivedType DEF PacketSignal
  <2>2. pc' \in [Thread -> Place]
    BY <1>6 DEF PacketSignal, Woken, TypeOK, Place
  <2> QED
    BY <1>6, <2>1, <2>2 DEF TypeOK, PacketSignal
<1> QED
  BY <1>1, <1>2, <1>3, <1>4, <1>5, <1>6 DEF Loop

LEMMA NextType == TypeOK /\ [Next]_vars => TypeOK'
<1>1. TypeOK /\ UNCHANGED vars => TypeOK'
  BY DEF TypeOK, vars, threadVars, loopVars
<1> QED
  BY <1>1, ThreadsType, LoopType DEF Next

\* Every variable has its type, for any processes, threads and bounds.
THEOREM TypeCorrect == Spec => []TypeOK
  BY InitType, NextType, PTL DEF Spec

-----------------------------------------------------------------------------
(* Threads and their mutex.                                                 *)

Undisturbed(t) == pc'[t] = pc[t] \/ (pc[t] = "sleeping" /\ pc'[t] = "waking")

LEMMA OthersUndisturbed ==
    ASSUME TypeOK, NEW t \in Thread, Step(t) \/ Call(t) \/ WakeSpuriously(t),
           NEW u \in Thread, u # t
    PROVE  Undisturbed(u)
<1>1. CASE \E from, to : Moves(t, from, to)
  BY <1>1 DEF Moves, TypeOK, Undisturbed
<1>2. CASE \E c \in Condition : Signal(t, c)
  BY <1>2 DEF Signal, Woken, Sleepers, TypeOK, Undisturbed
<1>3. CASE \E v \in Value : Write(t, v)
  BY <1>3 DEF Write, threadVars, Undisturbed
<1> QED
  BY <1>1, <1>2, <1>3 DEF Step, Call, Acquire, SendLockRequest, TakeGrant, ReleaseMutex, Sleep,
     SendSignalRequest, Lock, Unlock, Wait, WakeSpuriously

LEMMA LoopUndisturbed ==
    ASSUME TypeOK, NEW p \in Process, Loop(p), NEW t \in Thread
    PROVE  Undisturbed(t)
<1>1. CASE \E q \in Process : PacketSignal(p, q)
  BY <1>1 DEF PacketSignal, Woken, Sleepers, TypeOK, Undisturbed
<1>2. CASE pc' = pc
  BY <1>2 DEF Undisturbed
<1> QED
  BY <1>1, <1>2 DEF Loop, RequestLock, RequestUnlock, RequestSignal, PacketRequestToken,
     PacketGiveToken, threadVars

\* At most one thread of a process has m_mutex.
LEMMA Alone ==
    ASSUME MutexHeld, NEW t \in Thread, NEW u \in Thread, Home[t] = Home[u],
           pc[t] \in Holding, pc[u] \in Holding
    PROVE  t = u
  BY DEF MutexHeld

LEMMA ThreadsMutex ==
    ASSUME TypeOK, MutexHeld, NEW t \in Thread, Step(t) \/ Call(t) \/ WakeSpuriously(t)
    PROVE  MutexHeld'
<1> SUFFICES ASSUME NEW u \in Thread, pc'[u] \in Holding
             PROVE  mutex'[Home[u]] = {u}
  BY DEF MutexHeld
<1>1. mutex \in [Process -> SUBSET Thread] /\ Home[t] \in Process /\ Home[u] \in Process
  BY HomeAssumption DEF TypeOK
<1>2. u # t => pc[u] \in Holding /\ mutex[Home[u]] = {u}
  BY OthersUndisturbed DEF Undisturbed, Holding, MutexHeld
<1>3. CASE Acquire(t)
  <2>1. mutex[Home[t]] = {} /\ mutex' = [mutex EXCEPT ![Home[t]] = {t}]
    BY <1>3 DEF Acquire, MutexFree, TakesMutex
  <2> QED
    BY <1>1, <1>2, <2>1
<1>4. CASE ReleaseMutex(t) \/ Sleep(t)
  <2>1. /\ pc[t] \in Holding /\ pc'[t] \notin Holding
        /\ mutex' = [mutex EXCEPT ![Home[t]] = @ \ {t}]
    BY <1>4 DEF ReleaseMutex, Sleep, Moves, DropsMutex, Holding, TypeOK
  <2>2. u # t /\ Home[u] # Home[t]
    BY <1>2, <2>1, Alone
  <2> QED
    BY <1>1, <1>2, <2>1, <2>2
<1>5. CASE mutex' = mutex /\ (pc'[t] \in Holding => pc[t] \in Holding)
  BY <1>2, <1>5 DEF MutexHeld
<1>6. Lock(t) \/ WakeSpuriously(t) => mutex' = mutex /\ pc'[t] \notin Holding
  BY DEF Lock, WakeSpuriously, Moves, Holding, TypeOK
<1>7. SendLockRequest(t) \/ TakeGrant(t) \/ SendSignalRequest(t) \/ Unlock(t)
        => mutex' = mutex /\ pc[t] \in Holding
  BY DEF SendLockRequest, TakeGrant, SendSignalRequest, Unlock, Moves, Holding
<1>8. ASSUME NEW c \in Condition, Wait(t, c) \/ Signal(t, c)
      PROVE  mutex' = mutex /\ pc[t] \in Holding
  BY <1>8 DEF Wait, Signal, Moves, Holding
<1>9. ASSUME NEW v \in Value, Write(t, v)
      PROVE  mutex' = mutex /\ pc[t] \in Holding
  BY <1>9 DEF Write, Holding
<1> QED
  BY <1>3, <1>4, <1>5, <1>6, <1>7, <1>8, <1>9 DEF Step, Call

LEMMA LoopMutex == ASSUME TypeOK, MutexHeld, NEW p \in Process, Loop(p) PROVE MutexHeld'
<1>1. mutex' = mutex
  BY DEF Loop, RequestLock, RequestUnlock, RequestSignal, PacketRequestToken, PacketGiveToken,
     PacketSignal
<1> QED
  BY <1>1, LoopUndisturbed DEF MutexHeld, Undisturbed, Holding

-----------------------------------------------------------------------------
(* The requests of one process.                                             *)

\* Steps that other places and processes do not notice.
LEMMA SameCall ==
    ASSUME NEW p \in Process, OneCall(p), Ordered(events'[p]),
           Asks(p)' <=> Asks(p), Leaves(p)' <=> Leaves(p),
           Granting(p)' <=> Granting(p), Entered(p)' <=> Entered(p),
           p \in locked' <=> p \in locked, p \in granted' <=> p \in granted,
           p \in pending' <=> p \in pending, p \in owned' <=> p \in owned
    PROVE  OneCall(p)'
  BY DEF OneCall

LEMMA SameQueue ==
    ASSUME NEW p \in Process, events'[p] = events[p]
    PROVE  /\ Ordered(events[p]) => Ordered(events'[p])
           /\ Asks(p)' <=> Asks(p)
           /\ Leaves(p)' <=> Leaves(p)
  BY DEF Asks, Leaves

LEMMA SamePlaces ==
    ASSUME NEW p \in Process, \A t \in Thread : Home[t] = p => Undisturbed(t)
    PROVE  (Granting(p)' <=> Granting(p)) /\ (Entered(p)' <=> Entered(p))
  BY DEF Granting, Entered, Inside, Undisturbed

\* A request is posted that is neither lock nor unlock, or one of them.
LEMMA PostsCall ==
    ASSUME TypeOK, NEW t \in Thread, NEW r \in Request, Posts(t, r), OneCall(Home[t]),
           r = LockRequest => ~Asks(Home[t]),
           r = UnlockRequest => ~Leaves(Home[t]) /\ ~Asks(Home[t])
    PROVE  /\ Ordered(events'[Home[t]])
           /\ Asks(Home[t])' <=> Asks(Home[t]) \/ r = LockRequest
           /\ Leaves(Home[t])' <=> Leaves(Home[t]) \/ r = UnlockRequest
<1>1. Home[t] \in Process /\ events[Home[t]] \in Seq(Request)
  BY HomeAssumption DEF TypeOK
<1>2. events'[Home[t]] = Append(events[Home[t]], r)
  BY <1>1 DEF Posts, TypeOK
<1>3. Ordered(Append(events[Home[t]], r))
  BY <1>1, AppendOrdered DEF OneCall, Asks, Leaves
<1>4. \A x : Has(Append(events[Home[t]], r), x) <=> Has(events[Home[t]], x) \/ r = x
  BY <1>1, AppendHas
<1> QED
  BY <1>2, <1>3, <1>4 DEF Asks, Leaves

\* A thread disturbs no process but its own.
LEMMA ThreadsElsewhere ==
    ASSUME TypeOK, NEW t \in Thread, Step(t) \/ Call(t) \/ WakeSpuriously(t),
           NEW p \in Process, p # Home[t], OneCall(p)
    PROVE  OneCall(p)'
<1>1. \A u \in Thread : Home[u] = p => Undisturbed(u)
  BY OthersUndisturbed
<1>2. events'[p] = events[p]
  <2>1. events' = events \/ \E r : Posts(t, r)
    BY DEF Step, Call, Acquire, SendLockRequest, TakeGrant, ReleaseMutex, Sleep,
       SendSignalRequest, Lock, Unlock, Wait, Signal, Write, WakeSpuriously
  <2> QED
    BY <2>1 DEF Posts, TypeOK
<1>3. UNCHANGED <<owned, locked, pending>> /\ (p \in granted' <=> p \in granted)
  BY DEF Step, Call, Acquire, SendLockRequest, TakeGrant, ReleaseMutex, Sleep,
     SendSignalRequest, Lock, Unlock, Wait, Signal, Write, WakeSpuriously, loopVars
<1>4. Ordered(events'[p])
  BY <1>2, SameQueue DEF OneCall
<1> QED
  BY <1>1, <1>2, <1>3, <1>4, SameQueue, SamePlaces, SameCall

LEMMA ThreadsCall ==
    ASSUME TypeOK, MutexHeld, NEW t \in Thread, Step(t) \/ Call(t) \/ WakeSpuriously(t),
           OneCall(Home[t])
    PROVE  OneCall(Home[t])'
<1> DEFINE p == Home[t]
<1>1. p \in Process /\ pc \in [Thread -> Place]
  BY HomeAssumption DEF TypeOK
<1>2. \A u \in Thread : u # t => Undisturbed(u)
  BY OthersUndisturbed
\* A thread that has the mutex is the only one of p in takeGrant or inside.
<1>3. ASSUME pc[t] \in Holding
      PROVE  /\ Granting(p) <=> pc[t] = "granting"
             /\ Entered(p) <=> pc[t] \in {"inside", "signalling"}
             /\ Granting(p)' <=> pc'[t] = "granting"
             /\ Entered(p)' <=> pc'[t] \in {"inside", "signalling"}
  <2>1. \A u \in Thread : u # t /\ Home[u] = p =>
            pc[u] \notin Holding /\ pc'[u] \notin Holding
    BY <1>2, <1>3, Alone DEF Undisturbed, Holding
  <2> QED
    BY <2>1 DEF Granting, Entered, Inside, Holding
<1> HIDE DEF p
<1>4. CASE Lock(t) \/ Acquire(t) \/ WakeSpuriously(t)
  <2>1. UNCHANGED <<events, granted, owned, locked, pending>>
    BY <1>4 DEF Lock, Acquire, WakeSpuriously, loopVars
  <2>2. /\ pc[t] \notin {"granting", "inside", "signalling"}
        /\ pc'[t] \notin {"granting", "inside", "signalling"}
    BY <1>1, <1>4 DEF Lock, Acquire, WakeSpuriously, Moves
  <2>3. (Granting(p)' <=> Granting(p)) /\ (Entered(p)' <=> Entered(p))
    BY <1>2, <2>2 DEF Granting, Entered, Inside, Undisturbed
  <2>4. Ordered(events'[p])
    BY <2>1 DEF OneCall, p
  <2> QED
    BY <1>1, <2>1, <2>3, <2>4, SameQueue, SameCall DEF p
<1>5. CASE SendLockRequest(t)
  <2>1. /\ pc[t] = "locked" /\ pc'[t] = "granting" /\ Posts(t, LockRequest)
        /\ UNCHANGED <<granted, owned, locked, pending>>
    BY <1>1, <1>5 DEF SendLockRequest, Moves, loopVars
  <2>2. ~Granting(p) /\ Granting(p)' /\ ~Entered(p) /\ ~Entered(p)'
    BY <1>3, <2>1 DEF Holding
  <2>3. ~Asks(p)
    BY <2>2 DEF OneCall, p
  <2>4. /\ Ordered(events'[p]) /\ Asks(p)'
        /\ Leaves(p)' <=> Leaves(p)
    BY <2>1, <2>3, PostsCall, RequestKinds DEF p
  <2> QED
    BY <2>1, <2>2, <2>4 DEF OneCall, p
<1>6. CASE TakeGrant(t)
  <2>1. /\ pc[t] = "granting" /\ pc'[t] = "inside" /\ p \in granted
        /\ granted' = granted \ {p}
        /\ UNCHANGED <<events, owned, locked, pending>>
    BY <1>1, <1>6 DEF TakeGrant, Moves, loopVars, p
  <2>2. Granting(p) /\ ~Granting(p)' /\ ~Entered(p) /\ Entered(p)'
    BY <1>3, <2>1 DEF Holding
  <2>3. /\ Ordered(events[p]) => Ordered(events'[p])
        /\ Asks(p)' <=> Asks(p)
        /\ Leaves(p)' <=> Leaves(p)
    BY <1>1, <2>1, SameQueue
  <2>4. p \notin pending
    BY <2>1 DEF OneCall, p
  <2> QED
    BY <2>1, <2>2, <2>3, <2>4 DEF OneCall, p
<1>7. CASE Unlock(t) \/ \E c \in Condition : Wait(t, c)
  <2>1. /\ pc[t] = "inside" /\ pc'[t] \in {"leaving", "yielding"} /\ Posts(t, UnlockRequest)
        /\ UNCHANGED <<granted, owned, locked, pending>>
    BY <1>1, <1>7 DEF Unlock, Wait, Moves, loopVars
  <2>2. ~Granting(p) /\ ~Granting(p)' /\ Entered(p) /\ ~Entered(p)'
    BY <1>3, <2>1 DEF Holding
  <2>3. ~Asks(p) /\ ~Leaves(p)
    BY <2>2 DEF OneCall, p
  <2>4. Ordered(events'[p]) /\ ~Asks(p)' /\ Leaves(p)'
    BY <2>1, <2>3, PostsCall, RequestKinds DEF p
  <2> QED
    BY <2>1, <2>2, <2>4 DEF OneCall, p
<1>8. CASE ReleaseMutex(t) \/ Sleep(t) \/ (\E v \in Value : Write(t, v))
           \/ (\E c \in Condition : Signal(t, c))
  <2>1. UNCHANGED <<events, granted, owned, locked, pending>>
    BY <1>8 DEF ReleaseMutex, Sleep, Write, Signal, loopVars
  <2>2. /\ pc[t] \in Holding /\ pc[t] # "granting" /\ pc'[t] # "granting"
        /\ pc[t] \in {"inside", "signalling"} <=> pc'[t] \in {"inside", "signalling"}
    BY <1>1, <1>8 DEF ReleaseMutex, Sleep, Write, Signal, Moves, Holding, threadVars, Woken, Sleepers
  <2>3. (Granting(p)' <=> Granting(p)) /\ (Entered(p)' <=> Entered(p))
    BY <1>3, <2>2
  <2>4. Ordered(events'[p])
    BY <2>1 DEF OneCall, p
  <2> QED
    BY <1>1, <2>1, <2>3, <2>4, SameQueue, SameCall DEF p
<1>9. CASE SendSignalRequest(t)
  <2>1. /\ pc[t] = "signalling" /\ pc'[t] = "inside" /\ Posts(t, SignalRequest(cond[t]))
        /\ cond[t] \in Condition
        /\ UNCHANGED <<granted, owned, locked, pending>>
    BY <1>1, <1>9 DEF SendSignalRequest, Moves, loopVars, TypeOK
  <2>2. (Granting(p)' <=> Granting(p)) /\ (Entered(p)' <=> Entered(p))
    BY <1>3, <2>1 DEF Holding
  <2>3. /\ Ordered(events'[p])
        /\ Asks(p)' <=> Asks(p)
        /\ Leaves(p)' <=> Leaves(p)
    BY <2>1, PostsCall, RequestKinds DEF p
  <2> QED
    BY <1>1, <2>1, <2>2, <2>3, SameCall DEF p
<1> QED
  BY <1>4, <1>5, <1>6, <1>7, <1>8, <1>9 DEF Step, Call, p

-----------------------------------------------------------------------------
(* Tokens in a channel.                                                     *)

TokensIn(w) == {i \in DOMAIN w : w[i].type = "GiveToken"}

LEMMA TokensAppend ==
    ASSUME NEW w \in Seq(Message), NEW m \in Message
    PROVE  /\ m.type = "GiveToken" => TokensIn(Append(w, m)) = TokensIn(w) \cup {Len(w) + 1}
           /\ m.type # "GiveToken" => TokensIn(Append(w, m)) = TokensIn(w)
           /\ \A i \in TokensIn(w) : Append(w, m)[i] = w[i]
           /\ Append(w, m)[Len(w) + 1] = m
           /\ Len(w) + 1 \notin TokensIn(w)
<1>1. /\ DOMAIN Append(w, m) = 1 .. Len(w) + 1 /\ DOMAIN w = 1 .. Len(w) /\ Len(w) \in Nat
      /\ Append(w, m)[Len(w) + 1] = m
      /\ \A i \in 1 .. Len(w) : Append(w, m)[i] = w[i]
  OBVIOUS
<1>2. ASSUME NEW i
      PROVE  i \in TokensIn(Append(w, m))
                <=> i \in TokensIn(w) \/ (m.type = "GiveToken" /\ i = Len(w) + 1)
  <2>1. CASE i \in 1 .. Len(w)
    BY <1>1, <2>1 DEF TokensIn
  <2>2. CASE i = Len(w) + 1
    BY <1>1, <2>2 DEF TokensIn
  <2>3. CASE i \notin 1 .. Len(w) + 1
    BY <1>1, <2>3 DEF TokensIn
  <2> QED
    BY <1>1, <2>1, <2>2, <2>3
<1>3. /\ \A i \in TokensIn(w) : i \in 1 .. Len(w)
      /\ Len(w) + 1 \notin 1 .. Len(w)
  BY <1>1 DEF TokensIn
<1>4. m.type = "GiveToken" => TokensIn(Append(w, m)) = TokensIn(w) \cup {Len(w) + 1}
  BY <1>2
<1>5. m.type # "GiveToken" => TokensIn(Append(w, m)) = TokensIn(w)
  BY <1>2 DEF TokensIn
<1> QED
  BY <1>1, <1>3, <1>4, <1>5

LEMMA TokensTail ==
    ASSUME NEW w \in Seq(Message), w # <<>>
    PROVE  /\ \A i : i \in TokensIn(Tail(w)) => i + 1 \in TokensIn(w) /\ Tail(w)[i] = w[i + 1]
           /\ \A i \in TokensIn(w) : i # 1 => i - 1 \in TokensIn(Tail(w)) /\ Tail(w)[i - 1] = w[i]
           /\ 1 \in TokensIn(w) <=> Head(w).type = "GiveToken"
           /\ \A i \in TokensIn(w) : i \in Nat
           /\ \A i \in TokensIn(Tail(w)) : i \in Nat \ {0}
<1>1. /\ DOMAIN Tail(w) = 1 .. Len(w) - 1 /\ DOMAIN w = 1 .. Len(w) /\ Len(w) \in Nat \ {0}
      /\ Head(w) = w[1]
      /\ \A i \in 1 .. Len(w) - 1 : Tail(w)[i] = w[i + 1]
  OBVIOUS
<1> QED
  BY <1>1 DEF TokensIn

LEMMA TokensAreThose ==
    ASSUME NEW a, NEW b
    PROVE  Tokens(a, b) = TokensIn(net[a][b]) /\ Tokens(a, b)' = TokensIn(net'[a][b])
  BY DEF Tokens, TokensIn

\* What an event loop does to the tokens in the channels: nothing, it sends the one
\* it owns, or it takes the first packet of a channel.
LEMMA SendTokenNet ==
    ASSUME TypeOK, NEW p \in Process, NEW q \in Process, SendToken(p, q)
    PROVE  /\ \A a, b \in Process : ~(a = p /\ b = q) => net'[a][b] = net[a][b]
           /\ net'[p][q] = Append(net[p][q], GiveTokenMsg(copy[p]))
           /\ net[p][q] \in Seq(Message) /\ GiveTokenMsg(copy[p]) \in Message
           /\ GiveTokenMsg(copy[p]).type = "GiveToken" /\ GiveTokenMsg(copy[p]).value = copy[p]
<1>1. copy[p] \in Value /\ net[p][q] \in Seq(Message)
  BY DEF TypeOK
<1> QED
  BY <1>1, MessageKinds DEF SendToken, TypeOK

LEMMA ReceivedNet ==
    ASSUME TypeOK, NEW p \in Process, NEW q \in Process, net[q][p] # <<>>, net' = Received(p, q)
    PROVE  /\ \A a, b \in Process : ~(a = q /\ b = p) => net'[a][b] = net[a][b]
           /\ net'[q][p] = Tail(net[q][p])
           /\ net[q][p] \in Seq(Message)
  BY DEF Received, TypeOK

LEMMA SignalNet ==
    ASSUME TypeOK, NEW p \in Process, RequestSignal(p), NEW a \in Process, NEW b \in Process
    PROVE  /\ Tokens(a, b)' = Tokens(a, b)
           /\ \A i \in Tokens(a, b) : net'[a][b][i] = net[a][b][i]
<1> DEFINE m == SignalMsg(Head(events[p]).cond)
<1>1. m \in Message /\ m.type = "Signal"
  BY RequestedType, RequestKinds, MessageKinds DEF RequestSignal, Requested
<1>2. net'[a][b] = IF a = p /\ b # p THEN Append(net[a][b], m) ELSE net[a][b]
  BY DEF RequestSignal, TypeOK
<1>3. net[a][b] \in Seq(Message)
  BY DEF TypeOK
<1> HIDE DEF m
<1>4. CASE a = p /\ b # p
  <2>1. net'[a][b] = Append(net[a][b], m)
    BY <1>2, <1>4
  <2>2. TokensIn(Append(net[a][b], m)) = TokensIn(net[a][b])
    <3>1. m.type # "GiveToken"
      BY <1>1
    <3> QED
      BY <1>1, <1>3, <3>1, TokensAppend
  <2>3. \A i \in TokensIn(net[a][b]) : Append(net[a][b], m)[i] = net[a][b][i]
    BY <1>1, <1>3, TokensAppend
  <2> QED
    BY <2>1, <2>2, <2>3, TokensAreThose
<1>5. CASE ~(a = p /\ b # p)
  BY <1>2, <1>5, TokensAreThose
<1> QED
  BY <1>4, <1>5

-----------------------------------------------------------------------------
(* The event loop and the requests of its process.                          *)

\* An event loop disturbs no process but its own.
LEMMA LoopElsewhere ==
    ASSUME TypeOK, NEW p \in Process, Loop(p), NEW r \in Process, r # p, OneCall(r)
    PROVE  OneCall(r)'
<1>1. \A t \in Thread : Undisturbed(t)
  BY LoopUndisturbed
<1>2. events'[r] = events[r]
  BY DEF Loop, RequestLock, RequestUnlock, RequestSignal, PacketRequestToken, PacketGiveToken,
     PacketSignal, Requested, TypeOK
<1>3. /\ r \in locked' <=> r \in locked
      /\ r \in granted' <=> r \in granted
      /\ r \in pending' <=> r \in pending
      /\ r \in owned' <=> r \in owned
  BY DEF Loop, RequestLock, RequestUnlock, RequestSignal, PacketRequestToken, PacketGiveToken,
     PacketSignal, SendToken
<1>4. Ordered(events'[r])
  BY <1>2 DEF OneCall
<1> QED
  BY <1>1, <1>2, <1>3, <1>4, SameQueue, SamePlaces, SameCall

\* The first request of the queue is taken.
LEMMA RequestedCall ==
    ASSUME TypeOK, NEW p \in Process, NEW type, Requested(p, type), OneCall(p)
    PROVE  /\ Ordered(events'[p])
           /\ Asks(p)' <=> Asks(p) /\ type # "Lock"
           /\ Leaves(p)' <=> Leaves(p) /\ type # "Unlock"
           /\ type = "Lock" => Asks(p) /\ ~Leaves(p)
           /\ type = "Unlock" => Leaves(p)
<1>1. /\ events[p] \in Seq(Request) /\ events[p] # <<>> /\ Head(events[p]).type = type
      /\ events'[p] = Tail(events[p]) /\ Ordered(events[p])
  BY DEF TypeOK, Requested, OneCall
<1>2. /\ Head(events[p]) \in Request
      /\ type = "Lock" <=> Head(events[p]) = LockRequest
      /\ type = "Unlock" <=> Head(events[p]) = UnlockRequest
  BY <1>1, RequestKinds
<1> QED
  BY <1>1, <1>2, TailRequests DEF Asks, Leaves

\* Granting and Entered exclude each other.
LEMMA OneInMonitor ==
    ASSUME MutexHeld, NEW p \in Process
    PROVE  ~(Granting(p) /\ Entered(p))
  BY Alone DEF Granting, Entered, Inside, Holding

LEMMA LoopCall ==
    ASSUME IInv, NEW p \in Process, Loop(p)
    PROVE  OneCall(p)'
<1> USE DEF IInv
<1>1. /\ TypeOK /\ OneCall(p) /\ ~(Granting(p) /\ Entered(p))
  BY OneInMonitor
<1>2. (Granting(p)' <=> Granting(p)) /\ (Entered(p)' <=> Entered(p))
  BY LoopUndisturbed, SamePlaces
<1>3. CASE RequestLock(p)
  <2>1. /\ Ordered(events'[p]) /\ ~Asks(p)' /\ ~Leaves(p)' /\ Asks(p) /\ ~Leaves(p)
    BY <1>1, <1>3, RequestedCall DEF RequestLock
  <2>2. p \notin locked /\ Granting(p) /\ ~Entered(p)
    BY <1>1, <2>1 DEF OneCall
  <2>3. CASE p \in owned
    BY <1>1, <1>2, <1>3, <2>1, <2>2, <2>3 DEF RequestLock, OneCall
  <2>4. CASE p \notin owned
    BY <1>1, <1>2, <1>3, <2>1, <2>2, <2>4 DEF RequestLock, OneCall
  <2> QED
    BY <2>3, <2>4
<1>4. CASE RequestUnlock(p)
  <2>1. Ordered(events'[p]) /\ Leaves(p) /\ ~Leaves(p)' /\ (Asks(p)' <=> Asks(p))
    BY <1>1, <1>4, RequestedCall DEF RequestUnlock
  <2>2. p \in locked /\ p \in owned /\ p \notin granted /\ ~Entered(p) /\ p \notin pending
    BY <1>1, <2>1 DEF OneCall
  <2>3. p \notin locked' /\ UNCHANGED <<granted, pending>>
    BY <1>4, <2>2 DEF RequestUnlock
  <2> QED
    BY <1>1, <1>2, <2>1, <2>2, <2>3 DEF OneCall
<1>5. CASE RequestSignal(p)
  <2>1. Ordered(events'[p]) /\ (Leaves(p)' <=> Leaves(p)) /\ (Asks(p)' <=> Asks(p))
    BY <1>1, <1>5, RequestedCall DEF RequestSignal
  <2>2. UNCHANGED <<locked, granted, pending, owned>>
    BY <1>5 DEF RequestSignal
  <2> QED
    BY <1>1, <1>2, <2>1, <2>2, SameCall
<1>6. ASSUME NEW q \in Process, PacketRequestToken(p, q) PROVE OneCall(p)'
  <2>1. UNCHANGED <<events, locked, granted, pending>> /\ p \notin locked /\ p \notin owned'
    BY <1>6 DEF PacketRequestToken, SendToken
  <2>2. Ordered(events'[p]) /\ (Leaves(p)' <=> Leaves(p)) /\ (Asks(p)' <=> Asks(p))
    BY <1>1, <2>1, SameQueue DEF OneCall
  <2> QED
    BY <1>1, <1>2, <2>1, <2>2 DEF OneCall
<1>7. ASSUME NEW q \in Process, PacketGiveToken(p, q) PROVE OneCall(p)'
  <2>1. 1 \in Tokens(q, p)
    <3>1. net[q][p] \in Seq(Message) /\ net[q][p] # <<>> /\ Head(net[q][p]).type = "GiveToken"
      BY <1>1, <1>7 DEF PacketGiveToken, Arrives, TypeOK
    <3> QED
      BY <3>1, TokensTail, TokensAreThose
  <2>2. owned = {} /\ p \in pending
    BY <2>1 DEF OneToken
  <2>3. /\ p \notin locked /\ ~Asks(p) /\ ~Leaves(p) /\ Granting(p) /\ ~Entered(p)
    BY <1>1, <2>2 DEF OneCall
  <2>4. UNCHANGED events /\ p \in locked' /\ p \in granted' /\ p \notin pending' /\ p \in owned'
    BY <1>7, <2>2 DEF PacketGiveToken
  <2>5. Ordered(events'[p]) /\ ~Leaves(p)' /\ ~Asks(p)'
    BY <1>1, <2>3, <2>4, SameQueue DEF OneCall
  <2> QED
    BY <1>2, <2>3, <2>4, <2>5 DEF OneCall
<1>8. ASSUME NEW q \in Process, PacketSignal(p, q) PROVE OneCall(p)'
  <2>1. UNCHANGED <<events, locked, granted, pending, owned>>
    BY <1>8 DEF PacketSignal
  <2>2. Ordered(events'[p]) /\ (Leaves(p)' <=> Leaves(p)) /\ (Asks(p)' <=> Asks(p))
    BY <1>1, <2>1, SameQueue DEF OneCall
  <2> QED
    BY <1>1, <1>2, <2>1, <2>2, SameCall
<1> QED
  BY <1>3, <1>4, <1>5, <1>6, <1>7, <1>8 DEF Loop

-----------------------------------------------------------------------------
(* The token.                                                               *)

\* A step that moves no token, and forgets no request.
LEMMA SameToken ==
    ASSUME OneToken, owned' = owned, pending \subseteq pending',
           \A a, b \in Process : Tokens(a, b)' = Tokens(a, b)
    PROVE  OneToken'
  BY DEF OneToken

\* The token is owned: there is no packet with one.
LEMMA OwnedToken ==
    ASSUME OneToken, NEW p \in owned
    PROVE  owned = {p} /\ \A a, b \in Process : Tokens(a, b) = {}
<1>1. \A q \in owned : q = p
  BY DEF OneToken
<1> QED
  BY <1>1 DEF OneToken

\* The owner sends it to a process that waits.
LEMMA SentToken ==
    ASSUME TypeOK, OneToken, NEW p \in Process, NEW q \in Process, p \in owned,
           SendToken(p, q), pending' = pending, q \in pending
    PROVE  /\ OneToken'
           /\ owned' = {} /\ Len(net[p][q]) + 1 \in Tokens(p, q)'
           /\ net'[p][q][Len(net[p][q]) + 1].value = copy[p]
<1>1. owned = {p} /\ \A a, b \in Process : Tokens(a, b) = {}
  BY OwnedToken
<1>2. owned' = {}
  BY <1>1 DEF SendToken
<1>3. ASSUME NEW a \in Process, NEW b \in Process, ~(a = p /\ b = q)
      PROVE  Tokens(a, b)' = {}
  BY <1>1, <1>3, SendTokenNet, TokensAreThose
<1>4. Tokens(p, q)' = {Len(net[p][q]) + 1}
  <2>1. TokensIn(net[p][q]) = {}
    BY <1>1, TokensAreThose
  <2>2. TokensIn(net'[p][q]) = TokensIn(net[p][q]) \cup {Len(net[p][q]) + 1}
    <3>1. /\ net'[p][q] = Append(net[p][q], GiveTokenMsg(copy[p]))
          /\ net[p][q] \in Seq(Message) /\ GiveTokenMsg(copy[p]) \in Message
          /\ GiveTokenMsg(copy[p]).type = "GiveToken"
      BY SendTokenNet
    <3> QED
      BY <3>1, TokensAppend
  <2> QED
    BY <2>1, <2>2, TokensAreThose
<1>5. net'[p][q][Len(net[p][q]) + 1].value = copy[p]
  BY SendTokenNet, TokensAppend
<1>6. ASSUME NEW a \in Process, NEW b \in Process, NEW i \in Tokens(a, b)'
      PROVE  a = p /\ b = q /\ i = Len(net[p][q]) + 1
  BY <1>3, <1>4, <1>6
<1>7. OneToken'
  BY ZenonT(60), <1>2, <1>3, <1>4, <1>6 DEF OneToken
<1> QED
  BY <1>2, <1>4, <1>5, <1>7

\* The packet with the token is the first of its channel, and the only one.
LEMMA ArrivedToken ==
    ASSUME TypeOK, OneToken, NEW p \in Process, NEW q \in Process, Arrives(p, q, "GiveToken")
    PROVE  /\ owned = {} /\ p \in pending
           /\ Tokens(q, p) = {1} /\ Head(net[q][p]) = net[q][p][1]
           /\ \A a, b \in Process : ~(a = q /\ b = p) => Tokens(a, b) = {}
<1>1. net[q][p] \in Seq(Message) /\ net[q][p] # <<>> /\ Head(net[q][p]).type = "GiveToken"
  BY DEF Arrives, TypeOK
<1>2. 1 \in Tokens(q, p)
  BY <1>1, TokensTail, TokensAreThose
<1>3. \A a, b \in Process : \A i \in Tokens(a, b) : a = q /\ b = p /\ i = 1
  BY <1>2 DEF OneToken
<1>4. owned = {} /\ p \in pending
  BY <1>2 DEF OneToken
<1> QED
  BY <1>1, <1>2, <1>3, <1>4

LEMMA GivenToken ==
    ASSUME TypeOK, OneToken, NEW p \in Process, NEW q \in Process, PacketGiveToken(p, q)
    PROVE  /\ OneToken'
           /\ owned' = {p}
           /\ \A a, b \in Process : Tokens(a, b)' = {}
<1>1. /\ Arrives(p, q, "GiveToken") /\ net' = Received(p, q) /\ owned' = owned \cup {p}
      /\ net[q][p] # <<>>
  BY DEF PacketGiveToken, Arrives
<1>2. owned' = {p}
  BY <1>1, ArrivedToken
<1>3. ASSUME NEW a \in Process, NEW b \in Process, ~(a = q /\ b = p)
      PROVE  Tokens(a, b)' = {}
  <2>1. net'[a][b] = net[a][b]
    BY <1>1, <1>3, ReceivedNet
  <2>2. Tokens(a, b) = {}
    BY <1>1, <1>3, ArrivedToken
  <2> QED
    BY <2>1, <2>2, TokensAreThose
<1>4. Tokens(q, p)' = {}
  <2>1. /\ net'[q][p] = Tail(net[q][p]) /\ net[q][p] \in Seq(Message)
        /\ TokensIn(net[q][p]) = {1}
    BY <1>1, ReceivedNet, ArrivedToken, TokensAreThose
  <2>2. \A i \in TokensIn(Tail(net[q][p])) : i + 1 = 1 /\ i \in Nat \ {0}
    BY <1>1, <2>1, TokensTail
  <2>3. TokensIn(Tail(net[q][p])) = {}
    BY <2>2
  <2> QED
    BY <2>1, <2>3, TokensAreThose
<1>5. \A a, b \in Process : Tokens(a, b)' = {}
  BY <1>3, <1>4
<1> QED
  BY <1>2, <1>5 DEF OneToken

\* A packet with a signal is taken: the token behind it moves up.
LEMMA SignalTaken ==
    ASSUME TypeOK, NEW p \in Process, NEW q \in Process, PacketSignal(p, q)
    PROVE  /\ \A a, b \in Process : ~(a = q /\ b = p) =>
                 Tokens(a, b)' = Tokens(a, b) /\ net'[a][b] = net[a][b]
           /\ \A i \in Tokens(q, p) :
                 i - 1 \in Tokens(q, p)' /\ net'[q][p][i - 1] = net[q][p][i]
           /\ \A i \in Tokens(q, p)' : i + 1 \in Tokens(q, p)
           /\ Tokens(q, p) \subseteq Nat /\ Tokens(q, p)' \subseteq Nat
<1>1. /\ net[q][p] # <<>> /\ net' = Received(p, q) /\ Head(net[q][p]).type = "Signal"
      /\ net[q][p] \in Seq(Message)
  BY DEF PacketSignal, Arrives, TypeOK
<1>2. /\ \A a, b \in Process : ~(a = q /\ b = p) => net'[a][b] = net[a][b]
      /\ net'[q][p] = Tail(net[q][p])
  BY <1>1, ReceivedNet
<1>3. 1 \notin TokensIn(net[q][p])
  BY <1>1, TokensTail
<1>4. /\ \A i \in TokensIn(Tail(net[q][p])) : i + 1 \in TokensIn(net[q][p]) /\ i \in Nat
      /\ \A i \in TokensIn(net[q][p]) : i # 1 =>
            i - 1 \in TokensIn(Tail(net[q][p])) /\ Tail(net[q][p])[i - 1] = net[q][p][i]
      /\ \A i \in TokensIn(net[q][p]) : i \in Nat
  BY <1>1, TokensTail
<1>5. /\ Tokens(q, p) = TokensIn(net[q][p])
      /\ Tokens(q, p)' = TokensIn(Tail(net[q][p]))
  BY <1>2, TokensAreThose
<1>6. ASSUME NEW a \in Process, NEW b \in Process, ~(a = q /\ b = p)
      PROVE  Tokens(a, b)' = Tokens(a, b) /\ net'[a][b] = net[a][b]
  BY <1>2, <1>6, TokensAreThose
<1>7. ASSUME NEW i \in Tokens(q, p)
      PROVE  i - 1 \in Tokens(q, p)' /\ net'[q][p][i - 1] = net[q][p][i]
  BY <1>2, <1>3, <1>4, <1>5, <1>7
<1>8. /\ \A i \in Tokens(q, p)' : i + 1 \in Tokens(q, p)
      /\ Tokens(q, p) \subseteq Nat /\ Tokens(q, p)' \subseteq Nat
  BY <1>4, <1>5
<1> QED
  BY <1>6, <1>7, <1>8

LEMMA SignalToken ==
    ASSUME TypeOK, OneToken, NEW p \in Process, NEW q \in Process, PacketSignal(p, q)
    PROVE  OneToken'
<1>1. owned' = owned /\ pending' = pending
  BY DEF PacketSignal
<1>2. ASSUME NEW a \in Process, NEW b \in Process
      PROVE  Tokens(a, b)' = {} <=> Tokens(a, b) = {}
  BY SignalTaken
<1>3. ASSUME NEW a \in Process, NEW b \in Process, NEW c \in Process, NEW d \in Process,
             NEW i \in Tokens(a, b)', NEW j \in Tokens(c, d)'
      PROVE  a = c /\ b = d /\ i = j
  <2>1. a = c /\ b = d
    <3>1. Tokens(a, b) # {} /\ Tokens(c, d) # {}
      BY <1>2, <1>3
    <3> QED
      BY <3>1 DEF OneToken
  <2>2. CASE a = q /\ b = p
    <3>1. i + 1 \in Tokens(q, p) /\ j + 1 \in Tokens(q, p) /\ i \in Nat /\ j \in Nat
      BY <1>3, <2>1, <2>2, SignalTaken
    <3>2. i + 1 = j + 1
      BY <3>1 DEF OneToken
    <3> QED
      BY <2>1, <3>1, <3>2
  <2>3. CASE ~(a = q /\ b = p)
    <3>1. i \in Tokens(a, b) /\ j \in Tokens(a, b)
      BY <1>3, <2>1, <2>3, SignalTaken
    <3> QED
      BY <2>1, <3>1 DEF OneToken
  <2> QED
    BY <2>2, <2>3
<1> QED
  BY <1>1, <1>2, <1>3 DEF OneToken

LEMMA ThreadsToken ==
    ASSUME IInv, NEW t \in Thread, Step(t) \/ Call(t) \/ WakeSpuriously(t)
    PROVE  OneToken' /\ asked' = pending'
<1>1. UNCHANGED loopVars
  BY DEF Step, Call, Acquire, SendLockRequest, TakeGrant, ReleaseMutex, Sleep,
     SendSignalRequest, Lock, Unlock, Wait, Signal, Write, WakeSpuriously
<1>2. UNCHANGED <<owned, pending, asked, net>>
  BY <1>1 DEF loopVars
<1>3. \A a, b \in Process : Tokens(a, b)' = Tokens(a, b)
  BY <1>2 DEF Tokens
<1> QED
  BY <1>2, <1>3, SameToken DEF IInv

LEMMA LoopToken ==
    ASSUME IInv, NEW p \in Process, Loop(p)
    PROVE  OneToken' /\ asked' = pending'
<1>1. TypeOK /\ OneCall(p) /\ OneToken /\ asked = pending
  BY DEF IInv
<1>2. CASE RequestLock(p)
  <2>1. net' = net /\ owned' = owned
    BY <1>2 DEF RequestLock
  <2>2. pending \subseteq pending' /\ asked' = pending'
    <3>1. p \in owned => p \notin pending
      BY <1>1 DEF OneCall
    <3> QED
      BY <1>1, <1>2, <3>1 DEF RequestLock
  <2>3. \A a, b \in Process : Tokens(a, b)' = Tokens(a, b)
    BY <2>1 DEF Tokens
  <2> QED
    BY <1>1, <2>1, <2>2, <2>3, SameToken
<1>3. CASE RequestUnlock(p)
  <2>1. p \in owned /\ p \in locked
    <3>1. Leaves(p)
      BY <1>1, <1>3, RequestedCall DEF RequestUnlock
    <3> QED
      BY <1>1, <3>1 DEF OneCall
  <2>2. pending' = pending /\ asked' = asked
    BY <1>3 DEF RequestUnlock
  <2>3. CASE owned' = owned /\ net' = net
    <3>1. \A a, b \in Process : Tokens(a, b)' = Tokens(a, b)
      BY <2>3 DEF Tokens
    <3> QED
      BY <1>1, <2>2, <2>3, <3>1, SameToken
  <2>4. CASE \E q \in asked \ {p} : SendToken(p, q)
    BY <1>1, <2>1, <2>2, <2>4, SentToken DEF TypeOK
  <2> QED
    BY <1>3, <2>1, <2>3, <2>4 DEF RequestUnlock
<1>4. CASE RequestSignal(p)
  <2>1. UNCHANGED <<owned, pending, asked>>
    BY <1>4 DEF RequestSignal
  <2> QED
    BY <1>1, <1>4, <2>1, SignalNet, SameToken
<1>5. ASSUME NEW q \in Process, PacketRequestToken(p, q)
      PROVE  OneToken' /\ asked' = pending'
  BY <1>1, <1>5, SentToken DEF PacketRequestToken
<1>6. ASSUME NEW q \in Process, PacketGiveToken(p, q)
      PROVE  OneToken' /\ asked' = pending'
  BY <1>1, <1>6, GivenToken DEF PacketGiveToken
<1>7. ASSUME NEW q \in Process, PacketSignal(p, q)
      PROVE  OneToken' /\ asked' = pending'
  BY <1>1, <1>7, SignalToken DEF PacketSignal
<1> QED
  BY <1>2, <1>3, <1>4, <1>5, <1>6, <1>7 DEF Loop

-----------------------------------------------------------------------------
(* The invariant.                                                           *)

LEMMA InitIInv == Init => IInv
<1> SUFFICES ASSUME Init PROVE IInv
  OBVIOUS
<1>1. TypeOK
  BY InitType
<1>2. MutexHeld
  BY DEF Init, MutexHeld, Holding
<1>3. ASSUME NEW p \in Process PROVE OneCall(p)
  BY <1>3 DEF Init, OneCall, Ordered, Asks, Leaves, Has, Granting, Entered, Inside
<1>4. OneToken
  <2>1. \A a, b \in Process : Tokens(a, b) = {}
    BY DEF Init, Tokens
  <2>2. owned = {First}
    BY DEF Init
  <2> QED
    BY <2>1, <2>2 DEF OneToken
<1>5. asked = pending
  BY DEF Init
<1> QED
  BY <1>1, <1>2, <1>3, <1>4, <1>5 DEF IInv

LEMMA NextIInv == IInv /\ [Next]_vars => IInv'
<1> SUFFICES ASSUME IInv, [Next]_vars PROVE IInv'
  OBVIOUS
<1>1. TypeOK /\ MutexHeld /\ (\A p \in Process : OneCall(p)) /\ OneToken
  BY DEF IInv
<1>2. TypeOK'
  BY <1>1, NextType
<1>3. ASSUME NEW t \in Thread, Step(t) \/ Call(t) \/ WakeSpuriously(t) PROVE IInv'
  <2>1. MutexHeld'
    BY <1>1, <1>3, ThreadsMutex
  <2>2. ASSUME NEW p \in Process PROVE OneCall(p)'
    BY <1>1, <1>3, ThreadsElsewhere, ThreadsCall
  <2>3. OneToken' /\ asked' = pending'
    BY <1>3, ThreadsToken
  <2> QED
    BY <1>2, <2>1, <2>2, <2>3 DEF IInv
<1>4. ASSUME NEW p \in Process, Loop(p) PROVE IInv'
  <2>1. MutexHeld'
    BY <1>1, <1>4, LoopMutex
  <2>2. ASSUME NEW r \in Process PROVE OneCall(r)'
    BY <1>1, <1>4, LoopElsewhere, LoopCall
  <2>3. OneToken' /\ asked' = pending'
    BY <1>4, LoopToken
  <2> QED
    BY <1>2, <2>1, <2>2, <2>3 DEF IInv
<1>5. CASE UNCHANGED vars
  <2>1. UNCHANGED <<pc, mutex, events, owned, locked, pending, asked, granted, net>>
    BY <1>5 DEF vars, threadVars, loopVars
  <2>2. MutexHeld'
    BY <1>1, <2>1 DEF MutexHeld
  <2>3. ASSUME NEW p \in Process PROVE OneCall(p)'
    <3>1. (Granting(p)' <=> Granting(p)) /\ (Entered(p)' <=> Entered(p))
      BY <2>1 DEF Granting, Entered, Inside
    <3>2. Ordered(events'[p]) /\ OneCall(p)
      BY <1>1, <2>1 DEF OneCall
    <3> QED
      BY <2>1, <3>1, <3>2, SameQueue, SameCall
  <2>4. OneToken'
    <3>1. \A a, b \in Process : Tokens(a, b)' = Tokens(a, b)
      BY <2>1 DEF Tokens
    <3> QED
      BY <1>1, <2>1, <3>1, SameToken
  <2> QED
    BY <1>2, <2>1, <2>2, <2>3, <2>4 DEF IInv
<1> QED
  BY <1>3, <1>4, <1>5 DEF Next

\* The invariant holds in every state, whatever threads, event loops and packets do
\* in whatever order.
THEOREM Invariance == Spec => []IInv
  BY InitIInv, NextIInv, PTL DEF Spec

-----------------------------------------------------------------------------
(* What follows from it.                                                    *)

\* A thread that is inside has the token, and nobody else in the cluster is inside
\* or about to be.
LEMMA InsideAlone ==
    ASSUME IInv, NEW t \in Inside
    PROVE  /\ owned = {Home[t]} /\ Home[t] \in locked /\ ~Leaves(Home[t])
           /\ \A p, q \in Process : Tokens(p, q) = {}
           /\ \A u \in Inside : u = t
<1>1. t \in Thread /\ Home[t] \in Process /\ Entered(Home[t]) /\ OneCall(Home[t]) /\ OneToken
  BY HomeAssumption DEF Inside, Entered, IInv
<1>2. Home[t] \in owned /\ Home[t] \in locked /\ ~Leaves(Home[t])
  BY <1>1 DEF OneCall
<1>3. owned = {Home[t]} /\ \A p, q \in Process : Tokens(p, q) = {}
  BY <1>1, <1>2, OwnedToken
<1>4. ASSUME NEW u \in Inside PROVE u = t
  <2>1. Home[u] \in Process /\ Entered(Home[u]) /\ u \in Thread
    BY HomeAssumption DEF Inside, Entered
  <2>2. Home[u] \in owned
    BY <2>1 DEF OneCall, IInv
  <2> QED
    BY <1>1, <1>3, <2>1, <2>2, Alone DEF IInv, Inside, Holding
<1> QED
  BY <1>2, <1>3, <1>4

\* At most one thread of the cluster is inside.
LEMMA OneInside == IInv => \A r, s \in Inside : r = s
  BY InsideAlone

\* CallsAnswered: requestLock never finds the monitor locked and requestUnlock never
\* finds it unlocked, so neither of their early returns loses a thread's call.
THEOREM CallsAnsweredHolds == Spec => []CallsAnswered
<1>1. IInv => CallsAnswered
  <2> SUFFICES ASSUME IInv, NEW p \in Process, events[p] # <<>>
               PROVE  /\ Head(events[p]) = LockRequest => p \notin locked
                      /\ Head(events[p]) = UnlockRequest => p \in locked
    BY DEF CallsAnswered
  <2>1. /\ OneCall(p) /\ events[p] \in Seq(Request) /\ Ordered(events[p])
        /\ ~(Granting(p) /\ Entered(p))
    BY OneInMonitor DEF IInv, OneCall, TypeOK
  <2>2. ASSUME Head(events[p]) = LockRequest PROVE p \notin locked
    <3>1. Asks(p) /\ ~Leaves(p)
      BY <2>1, <2>2, TailRequests DEF Asks, Leaves
    <3> QED
      BY <2>1, <3>1 DEF OneCall
  <2>3. ASSUME Head(events[p]) = UnlockRequest PROVE p \in locked
    <3>1. Leaves(p)
      BY <2>1, <2>3, TailRequests DEF Leaves
    <3> QED
      BY <2>1, <3>1 DEF OneCall
  <2> QED
    BY <2>2, <2>3
<1> QED
  BY <1>1, Invariance, PTL

\* LoopKeepsOff: while a thread is between lock and unlock, the token is at its
\* process and in no packet, and no unlock is queued: the event loop, which saves and
\* loads the properties without m_mutex, has no reason to touch them.
THEOREM LoopKeepsOffHolds == Spec => []LoopKeepsOff
<1>1. IInv => LoopKeepsOff
  BY InsideAlone DEF LoopKeepsOff, Leaves, Has
<1> QED
  BY <1>1, Invariance, PTL

-----------------------------------------------------------------------------
(* The one monitor of ConditionMonitor.  Its state and value under Promise:  *)

Seen == [t \in Thread |-> AbstractState(t)]
Current == CHOOSE v \in Value : Properties = {v}

\* The properties are with the owner or in the packet that has the token.
LEMMA OwnedProperties ==
    ASSUME IInv, NEW p \in owned
    PROVE  copy[p] \in Value /\ Properties = {copy[p]} /\ Current = copy[p]
<1>1. owned = {p} /\ \A a, b \in Process : Tokens(a, b) = {}
  BY OwnedToken DEF IInv
<1>2. copy[p] \in Value
  BY DEF IInv, TypeOK
<1>3. Properties = {copy[p]}
  BY <1>1 DEF Properties
<1> QED
  BY <1>2, <1>3 DEF Current

LEMMA SentProperties ==
    ASSUME IInv, NEW a \in Process, NEW b \in Process, NEW i \in Tokens(a, b)
    PROVE  /\ net[a][b][i].value \in Value
           /\ Properties = {net[a][b][i].value} /\ Current = net[a][b][i].value
<1> DEFINE v == net[a][b][i].value
<1>1. owned = {} /\ \A c, d \in Process : \A j \in Tokens(c, d) : c = a /\ d = b /\ j = i
  BY DEF IInv, OneToken
<1>2. v \in Value
  <2>1. net[a][b] \in Seq(Message) /\ i \in DOMAIN net[a][b] /\ net[a][b][i].type = "GiveToken"
    BY DEF IInv, TypeOK, Tokens
  <2>2. net[a][b][i] \in Message
    BY <2>1
  <2> QED
    BY <2>1, <2>2, MessageKinds
<1> DEFINE Values(c, d) == {net[c][d][j].value : j \in Tokens(c, d)}
<1> DEFINE Channels == {Values(c, d) : c \in Process, d \in Process}
<1>3. Properties = UNION Channels
  BY <1>1 DEF Properties
<1>4. v \in Values(a, b)
  OBVIOUS
<1> HIDE DEF Values
<1>5. Values(a, b) \in Channels
  OBVIOUS
<1>6. ASSUME NEW x \in Properties PROVE x = v
  <2>1. PICK c \in Process, d \in Process : x \in Values(c, d)
    BY <1>3, <1>6
  <2>2. PICK j \in Tokens(c, d) : x = net[c][d][j].value
    BY <2>1 DEF Values
  <2>3. c = a /\ d = b /\ j = i
    BY <1>1, <2>2
  <2> QED
    BY <2>2, <2>3
<1>7. v \in Properties
  <2> HIDE DEF Channels
  <2> QED
    BY <1>3, <1>4, <1>5
<1>8. Properties = {v}
  BY <1>6, <1>7
<1> QED
  BY <1>2, <1>8 DEF Current

LEMMA OwnedValue == IInv => \A p \in owned : Current \in Value
  BY OwnedProperties

LEMMA SeenStates ==
    ASSUME TypeOK, NEW t \in Thread
    PROVE  /\ Seen[t] = AbstractState(t)
           /\ pc[t] \in {"outside", "acquiring", "leaving"} <=> AbstractState(t) = "outside"
           /\ pc[t] \in {"locked", "granting"} <=> AbstractState(t) = "waiting"
           /\ pc[t] \in {"inside", "signalling"} <=> AbstractState(t) = "inside"
           /\ pc[t] \in {"yielding", "sleeping", "waking"} <=> AbstractState(t) = "asleep"
  BY DEF TypeOK, Place, Seen, AbstractState

\* A thread that leaves the others where they are.
LEMMA SeenMove ==
    ASSUME TypeOK, TypeOK', NEW t \in Thread, Step(t) \/ Call(t) \/ WakeSpuriously(t)
    PROVE  Seen' = [Seen EXCEPT ![t] = AbstractState(t)']
<1>1. ASSUME NEW u \in Thread, u # t PROVE AbstractState(u)' = AbstractState(u)
  BY <1>1, OthersUndisturbed DEF Undisturbed, AbstractState
<1> QED
  BY <1>1 DEF Seen

LEMMA SeenStays ==
    ASSUME TypeOK, NEW p \in Process, Loop(p)
    PROVE  Seen' = Seen
<1>1. ASSUME NEW u \in Thread PROVE AbstractState(u)' = AbstractState(u)
  BY LoopUndisturbed DEF Undisturbed, AbstractState
<1> QED
  BY <1>1 DEF Seen

LEMMA Stutter ==
    ASSUME Seen' = Seen, Current' = Current
    PROVE  UNCHANGED Promise!vars
  BY DEF Promise!vars, Seen, Current

LEMMA SameProperties ==
    ASSUME owned' = owned, net' = net, copy' = copy
    PROVE  Current' = Current
  BY DEF Current, Properties, Tokens

LEMMA ThreadsPromise ==
    ASSUME IInv, IInv', NEW t \in Thread, Step(t) \/ Call(t) \/ WakeSpuriously(t)
    PROVE  [Promise!Next]_Promise!vars
<1>1. TypeOK /\ TypeOK' /\ pc \in [Thread -> Place] /\ pc' \in [Thread -> Place]
  BY DEF IInv, TypeOK
<1>2. Seen' = [Seen EXCEPT ![t] = AbstractState(t)'] /\ Seen[t] = AbstractState(t)
  BY <1>1, SeenMove, SeenStates
<1>3. CASE Lock(t) \/ SendLockRequest(t) \/ ReleaseMutex(t) \/ Sleep(t) \/ WakeSpuriously(t)
           \/ (\E c \in Condition : Signal(t, c)) \/ SendSignalRequest(t)
  <2>1. AbstractState(t)' = AbstractState(t)
    BY <1>1, <1>3 DEF Lock, SendLockRequest, ReleaseMutex, Sleep, WakeSpuriously, Signal,
       SendSignalRequest, Moves, AbstractState, Woken, Sleepers
  <2>2. Current' = Current
    BY <1>3, SameProperties DEF Lock, SendLockRequest, ReleaseMutex, Sleep, WakeSpuriously,
       Signal, SendSignalRequest, loopVars
  <2>3. Seen' = Seen
    BY <1>2, <2>1 DEF Seen
  <2> QED
    BY <2>2, <2>3, Stutter
<1>4. CASE Acquire(t)
  <2>1. Current' = Current
    BY <1>4, SameProperties DEF Acquire, loopVars
  <2>2. AbstractState(t)' = "waiting" /\ AbstractState(t) \in {"outside", "asleep"}
    BY <1>1, <1>4 DEF Acquire, Moves, AbstractState
  <2>3. Promise!Ask(t) \/ Promise!Wake(t)
    BY <1>2, <2>1, <2>2 DEF Promise!Ask, Promise!Wake, Promise!Becomes, Seen, Current
  <2> QED
    BY <2>3 DEF Promise!Next
<1>5. CASE TakeGrant(t)
  <2>1. Current' = Current
    BY <1>5, SameProperties DEF TakeGrant, loopVars
  <2>2. AbstractState(t)' = "inside" /\ AbstractState(t) = "waiting" /\ t \in Inside' /\ t \notin Inside
    BY <1>1, <1>5 DEF TakeGrant, Moves, AbstractState, Inside
  <2>3. ASSUME NEW u \in Thread PROVE Seen[u] # "inside"
    <3>1. u # t => (u \in Inside => u \in Inside')
      BY OthersUndisturbed, <1>1 DEF Undisturbed, Inside
    <3>2. (\A r, s \in Inside : r = s)'
      BY OneInside, PTL
    <3>3. u \notin Inside
      BY <2>2, <3>1, <3>2
    <3> QED
      BY <1>1, <3>3, SeenStates DEF Inside
  <2>4. Promise!Enter(t)
    BY <1>2, <2>1, <2>2, <2>3 DEF Promise!Enter, Promise!Becomes, Seen, Current
  <2> QED
    BY <2>4 DEF Promise!Next
<1>6. CASE Unlock(t)
  <2>1. Current' = Current
    BY <1>6, SameProperties DEF Unlock, loopVars
  <2>2. AbstractState(t)' = "outside" /\ AbstractState(t) = "inside"
    BY <1>1, <1>6 DEF Unlock, Moves, AbstractState
  <2>3. Promise!Leave(t)
    BY <1>2, <2>1, <2>2 DEF Promise!Leave, Promise!Becomes, Seen, Current
  <2> QED
    BY <2>3 DEF Promise!Next
<1>7. CASE \E c \in Condition : Wait(t, c)
  <2>1. Current' = Current
    BY <1>7, SameProperties DEF Wait, loopVars
  <2>2. AbstractState(t)' = "asleep" /\ AbstractState(t) = "inside"
    BY <1>1, <1>7 DEF Wait, Moves, AbstractState
  <2>3. Promise!Wait(t)
    BY <1>2, <2>1, <2>2 DEF Promise!Wait, Promise!Becomes, Seen, Current
  <2> QED
    BY <2>3 DEF Promise!Next
<1>8. ASSUME NEW v \in Value, Write(t, v) PROVE [Promise!Next]_Promise!vars
  <2>1. pc' = pc /\ t \in Inside
    BY <1>8 DEF Write, threadVars, Inside
  <2>2. Seen' = Seen /\ Seen[t] = "inside"
    BY <1>1, <2>1, SeenStates DEF Seen, AbstractState, Inside
  <2>3. Home[t] \in owned /\ Home[t] \in owned'
    BY <1>8, <2>1, InsideAlone DEF Write, loopVars
  <2>4. Current' \in Value
    <3>1. (\A p \in owned : Current \in Value)'
      BY OwnedValue, PTL
    <3> QED
      BY <2>3, <3>1
  <2>5. Promise!Write(t)
    BY <2>2, <2>4 DEF Promise!Write, Seen, Current
  <2> QED
    BY <2>5 DEF Promise!Next
<1> QED
  BY <1>3, <1>4, <1>5, <1>6, <1>7, <1>8 DEF Step, Call

\* The abstract value, as the owner and as the packet with the token have it.
OwnerSees == \A p \in owned : Current = copy[p]
PacketSees == \A a, b \in Process : \A i \in Tokens(a, b) : Current = net[a][b][i].value

LEMMA Sees == IInv => OwnerSees /\ PacketSees
  BY OwnedProperties, SentProperties DEF OwnerSees, PacketSees

\* The token leaves with the copy of the process that owned it.
LEMMA SendCurrent ==
    ASSUME IInv, IInv', NEW p \in Process, NEW q \in Process, p \in owned,
           SendToken(p, q), pending' = pending, q \in pending
    PROVE  Current' = Current
<1> DEFINE i == Len(net[p][q]) + 1
<1>1. Current = copy[p]
  BY Sees DEF OwnerSees
<1>2. i \in Tokens(p, q)' /\ net'[p][q][i].value = copy[p]
  BY SentToken DEF IInv
<1>3. PacketSees'
  BY Sees, PTL
<1> HIDE DEF i
<1> QED
  BY <1>1, <1>2, <1>3 DEF PacketSees

LEMMA LoopPromise ==
    ASSUME IInv, IInv', NEW p \in Process, Loop(p)
    PROVE  UNCHANGED Promise!vars
<1>1. TypeOK /\ OneCall(p) /\ OneToken /\ asked = pending
  BY DEF IInv
<1>2. OwnerSees /\ PacketSees
  BY Sees
<1>3. OwnerSees' /\ PacketSees'
  BY Sees, PTL
<1> SUFFICES Current' = Current
  BY <1>1, SeenStays, Stutter
<1>4. CASE RequestLock(p)
  BY <1>4, SameProperties DEF RequestLock
<1>5. CASE RequestUnlock(p)
  <2>1. p \in owned /\ p \in locked
    <3>1. Leaves(p)
      BY <1>1, <1>5, RequestedCall DEF RequestUnlock
    <3> QED
      BY <1>1, <3>1 DEF OneCall
  <2>2. CASE owned' = owned /\ net' = net
    BY <1>5, <2>2, SameProperties DEF RequestUnlock
  <2>3. ASSUME NEW q \in asked \ {p}, SendToken(p, q) PROVE Current' = Current
    BY <1>1, <1>5, <2>1, <2>3, SendCurrent DEF RequestUnlock, TypeOK
  <2> QED
    BY <1>5, <2>1, <2>2, <2>3 DEF RequestUnlock
<1>6. CASE RequestSignal(p)
  <2>1. owned' = owned /\ copy' = copy
    BY <1>6 DEF RequestSignal
  <2>2. ASSUME NEW r \in owned PROVE Current' = Current
    BY <1>2, <1>3, <2>1 DEF OwnerSees
  <2>3. ASSUME NEW a \in Process, NEW b \in Process, NEW i \in Tokens(a, b)
        PROVE  Current' = Current
    <3>1. i \in Tokens(a, b)' /\ net'[a][b][i] = net[a][b][i]
      BY <1>1, <1>6, SignalNet
    <3>2. Current = net[a][b][i].value /\ Current' = net'[a][b][i].value
      BY <1>2, <1>3, <3>1 DEF PacketSees
    <3> QED
      BY <3>1, <3>2
  <2> QED
    BY <1>1, <2>2, <2>3 DEF OneToken
<1>7. ASSUME NEW q \in Process, PacketRequestToken(p, q) PROVE Current' = Current
  BY <1>1, <1>7, SendCurrent DEF PacketRequestToken
<1>8. ASSUME NEW q \in Process, PacketGiveToken(p, q) PROVE Current' = Current
  <2>1. Arrives(p, q, "GiveToken") /\ copy' = [copy EXCEPT ![p] = Head(net[q][p]).value]
    BY <1>8 DEF PacketGiveToken, LoadProperties
  <2>2. 1 \in Tokens(q, p) /\ Head(net[q][p]) = net[q][p][1]
    BY <1>1, <2>1, ArrivedToken
  <2>3. Current = net[q][p][1].value
    BY <1>2, <2>2 DEF PacketSees
  <2>4. Current' = copy'[p]
    BY <1>1, <1>3, <1>8, GivenToken DEF OwnerSees
  <2>5. copy'[p] = Head(net[q][p]).value
    BY <1>1, <2>1 DEF TypeOK
  <2> QED
    BY <2>2, <2>3, <2>4, <2>5
<1>9. ASSUME NEW q \in Process, PacketSignal(p, q) PROVE Current' = Current
  <2>1. owned' = owned /\ copy' = copy
    BY <1>9 DEF PacketSignal
  <2>2. ASSUME NEW r \in owned PROVE Current' = Current
    BY <1>2, <1>3, <2>1 DEF OwnerSees
  <2>3. ASSUME NEW a \in Process, NEW b \in Process, NEW i \in Tokens(a, b)
        PROVE  Current' = Current
    <3>1. Current = net[a][b][i].value
      BY <1>2 DEF PacketSees
    <3>2. PICK j \in Tokens(a, b)' : net'[a][b][j] = net[a][b][i]
      BY <1>1, <1>9, SignalTaken
    <3>3. Current' = net'[a][b][j].value
      BY <1>3 DEF PacketSees
    <3> QED
      BY <3>1, <3>2, <3>3
  <2> QED
    BY <1>1, <2>2, <2>3 DEF OneToken
<1> QED
  BY <1>4, <1>5, <1>6, <1>7, <1>8, <1>9 DEF Loop

LEMMA InitPromise == Init => Promise!Init
<1> SUFFICES ASSUME Init PROVE Promise!Init
  OBVIOUS
<1>1. Seen = [t \in Thread |-> "outside"]
  BY DEF Init, Seen, AbstractState
<1>2. Current = InitialValue
  <2>1. First \in owned /\ copy[First] = InitialValue
    BY ProcessAssumption DEF Init
  <2> QED
    BY <2>1, InitIInv, Sees DEF OwnerSees
<1> QED
  BY <1>1, <1>2 DEF Promise!Init, Seen, Current

LEMMA NextPromise == IInv /\ IInv' /\ [Next]_vars => [Promise!Next]_Promise!vars
<1> SUFFICES ASSUME IInv, IInv', [Next]_vars PROVE [Promise!Next]_Promise!vars
  OBVIOUS
<1>1. ASSUME NEW t \in Thread, Step(t) \/ Call(t) \/ WakeSpuriously(t)
      PROVE  [Promise!Next]_Promise!vars
  BY <1>1, ThreadsPromise
<1>2. ASSUME NEW p \in Process, Loop(p) PROVE UNCHANGED Promise!vars
  BY <1>2, LoopPromise
<1>3. CASE UNCHANGED vars
  <2>1. UNCHANGED <<pc, owned, net, copy>>
    BY <1>3 DEF vars, threadVars, loopVars
  <2> QED
    BY <2>1, SameProperties, Stutter DEF Seen, AbstractState
<1> QED
  BY <1>1, <1>2, <1>3 DEF Next

\* ImplementsPromise: Monitor, Token and ClusterLoop give the threads of all processes
\* the one monitor of ConditionMonitor.  takeGrant returns from lock or wait only while
\* nobody is inside, and sendToken and packetGiveToken carry the properties over
\* exactly as the last thread left them.
THEOREM Implements == Spec => ImplementsPromise
  BY InitPromise, NextPromise, Invariance, PTL DEF Spec, ImplementsPromise, Promise!Spec

=============================================================================
