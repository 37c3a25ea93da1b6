------------------------ MODULE ClusterLoopNumbersProofs ------------------------
(***************************************************************************)
(* Proofs about the request numbers of ClusterLoop: as long as no number   *)
(* wraps around, a node has at most one request that the token has not     *)
(* served, rn = ln + 1 tells which nodes wait, and the queue that travels  *)
(* with the token lists exactly such nodes, each of them once.  And as     *)
(* long as connections hold, a request is kept until it is served: it is   *)
(* the next the token serves, and every other node knows it or is sent it. *)
(***************************************************************************)
EXTENDS ClusterLoopSettledProofs

-----------------------------------------------------------------------------
(* The record that travels with a token fits what nodes know of themselves:  *)
(* own is the number of every node's last request, waiting the nodes that   *)
(* wait for an answer, idle the nodes that need not wait.                    *)

Numbers == [Node -> Nat]

\* Nobody is listed twice.
Single(queue) == \A i, j \in DOMAIN queue : queue[i] = queue[j] => i = j

Fits(own, waiting, ln, queue, idle) ==
    /\ \A k \in Node : own[k] \in {ln[k], ln[k] + 1}
    /\ \A k \in Node \ idle : own[k] = ln[k] + 1 => k \in waiting
    /\ Single(queue)
    /\ \A i \in DOMAIN queue : queue[i] \notin idle /\ own[queue[i]] = ln[queue[i]] + 1

\* Nodes that do not wait may ask, everybody else goes on waiting.
LEMMA FitsStep ==
    ASSUME NEW own \in Numbers, NEW own2 \in Numbers, NEW ln \in Numbers,
           NEW queue \in Seq(Node), NEW w, NEW w2, NEW idle, Fits(own, w, ln, queue, idle),
           \A k \in Node \ idle :
              \/ own2[k] = own[k] /\ (k \in w => k \in w2)
              \/ own2[k] = own[k] + 1 /\ k \notin w /\ k \in w2,
           \A k \in Node \cap idle : own2[k] = own[k]
    PROVE  Fits(own2, w2, ln, queue, idle)
<1>1. ASSUME NEW k \in Node
      PROVE  /\ own2[k] \in {ln[k], ln[k] + 1}
             /\ k \notin idle /\ own2[k] = ln[k] + 1 => k \in w2
             /\ k \notin idle /\ own[k] = ln[k] + 1 => own2[k] = ln[k] + 1
  BY DEF Fits, Numbers
<1>2. ASSUME NEW i \in DOMAIN queue
      PROVE  queue[i] \notin idle /\ own2[queue[i]] = ln[queue[i]] + 1
  <2>1. queue[i] \in Node
    OBVIOUS
  <2> QED
    BY <1>1, <2>1 DEF Fits
<1> QED
  BY <1>1, <1>2 DEF Fits

\* The first of a queue is not listed again behind it.
LEMMA SingleTail ==
    ASSUME NEW q \in Seq(Node), q # <<>>, Single(q)
    PROVE  /\ Single(Tail(q)) /\ Head(q) \notin QueueRange(Tail(q))
           /\ 1 \in DOMAIN q /\ Head(q) = q[1]
           /\ \A i \in DOMAIN Tail(q) : i + 1 \in DOMAIN q /\ Tail(q)[i] = q[i + 1]
<1>1. /\ 1 \in DOMAIN q /\ Head(q) = q[1]
      /\ \A i \in DOMAIN Tail(q) : i \in Nat \ {0} /\ i + 1 \in DOMAIN q /\ Tail(q)[i] = q[i + 1]
  OBVIOUS
<1>2. Single(Tail(q))
  BY <1>1 DEF Single
<1>3. ASSUME NEW i \in DOMAIN Tail(q), Tail(q)[i] = Head(q) PROVE FALSE
  BY <1>1, <1>3 DEF Single
<1> QED
  BY <1>1, <1>2, <1>3 DEF QueueRange

\* release appends nodes that are not in the queue, once each.
LEMMA ReleasedQueue ==
    ASSUME NEW a \in Alg, NEW n \in Node, NEW after \in Released(a, n), Single(a.queue)
    PROVE  /\ after \in Alg /\ after.rn = a.rn
           /\ after.ln = [a.ln EXCEPT ![n] = a.rn[n]]
           /\ Single(after.queue)
           /\ \A i \in DOMAIN after.queue :
                 \/ i \in DOMAIN a.queue /\ after.queue[i] = a.queue[i]
                 \/ after.queue[i] \in Node /\ Outstanding(after, after.queue[i])
<1> DEFINE served == [a EXCEPT !.ln[n] = a.rn[n]]
           q == a.queue
<1>1. /\ served \in Alg /\ served.rn = a.rn /\ served.queue = a.queue
      /\ served.ln = [a.ln EXCEPT ![n] = a.rn[n]]
  BY DEF Alg
<1>2. PICK late \in Ascending(Latecomers(served)) :
         after = [served EXCEPT !.queue = @ \o late]
  BY DEF Released
<1> HIDE DEF served
<1>3. Latecomers(served) \in SUBSET Node
  BY DEF Latecomers
<1>4. /\ late \in Seq(Latecomers(served)) /\ late \in Seq(Node)
      /\ \A i, j \in DOMAIN late : i # j => late[i] # late[j]
  <2>1. late \in Seq(Latecomers(served)) /\ late \in Orderings(Latecomers(served))
    BY <1>2, <1>3, NodeFinite, OrderingType DEF Ascending
  <2> QED
    BY <1>3, <2>1 DEF Orderings
<1>5. /\ after \in Alg /\ after.rn = served.rn /\ after.ln = served.ln /\ after.queue = q \o late
      /\ q \in Seq(Node)
  <2>1. q \o late \in Seq(Node) /\ q \in Seq(Node)
    BY <1>4 DEF Alg
  <2> QED
    BY <1>1, <1>2, <2>1 DEF Alg
<1>6. \A i \in DOMAIN late : late[i] \in Node /\ Outstanding(after, late[i])
                             /\ late[i] \notin QueueRange(q)
  <2>1. \A i \in DOMAIN late : late[i] \in Latecomers(served)
    BY <1>4
  <2> QED
    BY <1>1, <1>5, <2>1 DEF Latecomers, Outstanding
<1> HIDE DEF q
<1>7. ASSUME NEW i \in DOMAIN after.queue
      PROVE  \/ i \in DOMAIN q /\ after.queue[i] = q[i]
             \/ /\ i \notin DOMAIN q /\ i - Len(q) \in DOMAIN late
                /\ after.queue[i] = late[i - Len(q)]
  BY <1>4, <1>5
<1>8. ASSUME NEW i \in DOMAIN after.queue, NEW j \in DOMAIN after.queue,
             after.queue[i] = after.queue[j]
      PROVE  i = j
  <2>1. CASE i \in DOMAIN q /\ j \in DOMAIN q
    BY <1>7, <1>8, <2>1 DEF Single, q
  <2>2. CASE i \in DOMAIN q /\ j \notin DOMAIN q
    BY <1>6, <1>7, <1>8, <2>2 DEF QueueRange
  <2>3. CASE i \notin DOMAIN q /\ j \in DOMAIN q
    BY <1>6, <1>7, <1>8, <2>3 DEF QueueRange
  <2>4. CASE i \notin DOMAIN q /\ j \notin DOMAIN q
    <3>1. i - Len(q) = j - Len(q)
      BY <1>4, <1>7, <1>8, <2>4
    <3>2. i \in Nat /\ j \in Nat /\ Len(q) \in Nat
      BY <1>4, <1>5
    <3> QED
      BY <3>1, <3>2
  <2> QED
    BY <2>1, <2>2, <2>3, <2>4
<1>9. Single(after.queue)
  BY <1>8 DEF Single
<1> QED
  BY <1>1, <1>5, <1>6, <1>7, <1>9 DEF q

\* No number is the last one of a u32.
Low(own) == \A k \in Node : own[k] + 1 < U32

LEMMA OutstandingIs ==
    ASSUME NEW a \in Alg, NEW k \in Node, a.ln[k] + 1 < U32
    PROVE  Outstanding(a, k) <=> a.rn[k] = a.ln[k] + 1
  BY U32Assumption DEF Alg, RequestNumber, Outstanding, Inc32

\* The record of a token that n has, and of one that nobody has.
FitsAt(own, waiting, ln, queue, n) == Fits(own, waiting, ln, queue, {n})
FitsAll(own, waiting, ln, queue) == Fits(own, waiting, ln, queue, {})

\* release(n) leaves a record that fits, whether the token stays or goes to the first
\* of the queue.
LEMMA FitsReleased ==
    ASSUME NEW a \in Alg, NEW n \in Node, NEW after \in Released(a, n),
           NEW own \in Numbers, Low(own), NEW w, FitsAt(own, w, a.ln, a.queue, n),
           \A k \in Node : a.rn[k] <= own[k], a.rn[n] = own[n]
    PROVE  /\ after \in Alg /\ after.ln[n] = own[n]
           /\ FitsAll(own, w, after.ln, after.queue)
           /\ after.queue # <<>> =>
                 /\ Head(after.queue) \in Node /\ Popped(after) \in Alg
                 /\ FitsAll(own, w, Popped(after).ln, Popped(after).queue)
                 /\ Head(after.queue) \notin QueueRange(Popped(after).queue)
                 /\ own[Head(after.queue)] = Popped(after).ln[Head(after.queue)] + 1
<1> USE DEF FitsAt, FitsAll
<1> DEFINE q == after.queue
<1>1. Single(a.queue) /\ a.queue \in Seq(Node)
  BY DEF Fits, Alg
<1>2. /\ after \in Alg /\ after.rn = a.rn /\ after.ln = [a.ln EXCEPT ![n] = a.rn[n]]
      /\ Single(q)
      /\ \A i \in DOMAIN q :
            \/ i \in DOMAIN a.queue /\ q[i] = a.queue[i]
            \/ q[i] \in Node /\ Outstanding(after, q[i])
  BY <1>1, ReleasedQueue
<1>3. /\ after.ln[n] = own[n]
      /\ \A k \in Node : /\ after.ln[k] \in Nat /\ own[k] \in Nat /\ a.ln[k] \in Nat
                         /\ after.rn[k] \in Nat /\ (k # n => after.ln[k] = a.ln[k])
                         /\ own[k] \in {after.ln[k], after.ln[k] + 1}
  BY <1>2 DEF Alg, RequestNumber, Numbers, Fits
<1>4. \A k \in Node : own[k] = after.ln[k] + 1 => k # n /\ k \in w
  BY <1>3 DEF Fits
<1>5. ASSUME NEW i \in DOMAIN q PROVE q[i] \in Node /\ own[q[i]] = after.ln[q[i]] + 1
  <2>1. CASE i \in DOMAIN a.queue /\ q[i] = a.queue[i]
    <3>1. a.queue[i] \in Node /\ a.queue[i] # n /\ own[a.queue[i]] = a.ln[a.queue[i]] + 1
      BY <1>1, <2>1 DEF Fits
    <3> QED
      BY <1>3, <2>1, <3>1
  <2>2. CASE q[i] \in Node /\ Outstanding(after, q[i])
    <3> DEFINE k == q[i]
    <3> HIDE DEF q
    <3>0. k \in Node
      BY <2>2
    <3> HIDE DEF k
    <3>1. after.ln[k] + 1 < U32
      BY <1>3, <3>0, U32Assumption DEF Low
    <3>2. after.rn[k] = after.ln[k] + 1
      BY <1>2, <2>2, <3>0, <3>1, OutstandingIs DEF k
    <3>3. a.rn[k] <= own[k]
      BY <3>0
    <3>4. own[k] = after.ln[k] + 1
      BY <1>2, <1>3, <3>0, <3>2, <3>3
    <3> QED
      BY <3>0, <3>4 DEF k
  <2> QED
    BY <1>2, <2>1, <2>2
<1>6. Fits(own, w, after.ln, q, {})
  BY <1>2, <1>3, <1>4, <1>5 DEF Fits
<1>7. ASSUME q # <<>>
      PROVE  /\ Head(q) \in Node /\ Popped(after) \in Alg
             /\ Fits(own, w, Popped(after).ln, Popped(after).queue, {})
             /\ Head(q) \notin QueueRange(Popped(after).queue)
             /\ own[Head(q)] = Popped(after).ln[Head(q)] + 1
  <2>1. Popped(after) \in Alg /\ Head(q) \in Node
    BY <1>2, <1>7, PoppedType
  <2>2. Popped(after).ln = after.ln /\ Popped(after).queue = Tail(q) /\ q \in Seq(Node)
    BY <1>2 DEF Popped, Alg
  <2>3. /\ Single(Tail(q)) /\ Head(q) \notin QueueRange(Tail(q))
        /\ 1 \in DOMAIN q /\ Head(q) = q[1]
        /\ \A i \in DOMAIN Tail(q) : i + 1 \in DOMAIN q /\ Tail(q)[i] = q[i + 1]
    <3> HIDE DEF q
    <3> QED
      BY <1>2, <1>7, <2>2, SingleTail
  <2> HIDE DEF q
  <2>4. Fits(own, w, after.ln, Tail(q), {})
    BY <1>5, <1>6, <2>3 DEF Fits
  <2> QED
    BY <1>5, <2>1, <2>2, <2>3, <2>4
<1> QED
  BY <1>2, <1>3, <1>6, <1>7

-----------------------------------------------------------------------------
(* The records in a state.                                                  *)

\* The number of every node's own last request for t.
Owns(t) == [k \in Node |-> alg[k][t].rn[k]]

\* The nodes that asked for t and will use it.
Waiting(t) ==
    {k \in startedCluster :
        t \in pendingRequests[k] /\ (t = SysToken \/ t \in pendingGrants[k])}

NoneServed == [k \in Node |-> 0]

\* The token was made at some time: later it may be lost, but it is not made again.
Made(t) == IF t = SysToken THEN 0 \in started ELSE Accounted(t)

\* n holds t, and unless a thread of n is inside, nobody waits for n to release it.
Holding(t, n) ==
    /\ Fits(Owns(t), Waiting(t), alg[n][t].ln, alg[n][t].queue, {n})
    /\ t \notin locked[n] => alg[n][t].queue = <<>> /\ Owns(t)[n] = alg[n][t].ln[n]

\* t is on its way to b, which waits for it.
Coming(t, b, msg) ==
    /\ Fits(Owns(t), Waiting(t), msg.ln, msg.queue, {})
    /\ b \notin QueueRange(msg.queue) /\ Owns(t)[b] = msg.ln[b] + 1

Pristine(t) ==
    /\ \A j \in Node : alg[j][t].ln = NoneServed /\ alg[j][t].queue = <<>>
    /\ Fits(Owns(t), Waiting(t), NoneServed, <<>>, {})

Right(t) ==
    /\ \A n \in Node : t \in Held(n) => Holding(t, n)
    /\ \A a, b \in Node : \A i \in Nat : Carries(net, a, b, i, t) => Coming(t, b, net[a][b][i])
    /\ Made(t) \/ Pristine(t)

-----------------------------------------------------------------------------
(* Steps that do not touch a token.                                         *)

\* k does not ask for t and goes on waiting, or it asks for t.
Goes(t, k) ==
    \/ Owns(t)'[k] = Owns(t)[k] /\ (k \in Waiting(t) => k \in Waiting(t)')
    \/ Owns(t)'[k] = Owns(t)[k] + 1 /\ k \notin Waiting(t) /\ k \in Waiting(t)'

SameRecord(t, k) == alg'[k][t].ln = alg[k][t].ln /\ alg'[k][t].queue = alg[k][t].queue

\* Who holds t does not ask for it.
Steady(t) ==
    \A k \in Node :
        /\ SameRecord(t, k)
        /\ IF t \in Held(k) THEN Owns(t)'[k] = Owns(t)[k] ELSE Goes(t, k)

LEMMA OwnsType ==
    ASSUME TypeOK, NEW t \in Token
    PROVE  /\ Owns(t) \in Numbers /\ \A k \in Node : Owns(t)[k] = alg[k][t].rn[k]
           /\ \A k \in Node : /\ alg[k][t].ln \in Numbers /\ alg[k][t].queue \in Seq(Node)
                              /\ alg[k][t] \in Alg
<1>1. \A k \in Node : alg[k][t] \in Alg
  BY DEF TypeOK
<1>2. \A k \in Node : alg[k][t].rn[k] \in Nat /\ alg[k][t].ln \in Numbers
                      /\ alg[k][t].queue \in Seq(Node)
  BY <1>1 DEF Alg, RequestNumber, Numbers
<1> QED
  BY <1>1, <1>2 DEF Owns, Numbers

LEMMA OwnsTypeNext ==
    ASSUME TypeOK', NEW t \in Token
    PROVE  /\ Owns(t)' \in Numbers /\ \A k \in Node : Owns(t)'[k] = alg'[k][t].rn[k]
           /\ \A k \in Node : /\ alg'[k][t].ln \in Numbers /\ alg'[k][t].queue \in Seq(Node)
                              /\ alg'[k][t] \in Alg
<1>1. \A k \in Node : alg'[k][t] \in Alg
  BY DEF TypeOK
<1>2. \A k \in Node : alg'[k][t].rn[k] \in Nat /\ alg'[k][t].ln \in Numbers
                      /\ alg'[k][t].queue \in Seq(Node)
  BY <1>1 DEF Alg, RequestNumber, Numbers
<1> QED
  BY <1>1, <1>2 DEF Owns, Numbers

LEMMA CarriedType ==
    ASSUME TypeOK, NEW t, NEW a \in Node, NEW b \in Node, NEW i \in Nat, Carries(net, a, b, i, t)
    PROVE  /\ net[a][b][i] \in Message /\ net[a][b][i].ln \in Numbers
           /\ net[a][b][i].queue \in Seq(Node)
<1>1. net[a][b][i] \in Message /\ net[a][b][i].type = "GiveToken"
  BY DEF TypeOK, Carries, Gives
<1> QED
  BY <1>1, MessageFields DEF RequestNumber, Numbers

\* A token that was not made has no place.
LEMMA PlacedIsMade == ASSUME IInv, NEW t \in Token, Carried(t) PROVE Made(t)
<1>1. CASE t = SysToken
  BY <1>1 DEF IInv, OneCarrier, BeforeStart, Made
<1>2. CASE t # SysToken
  <2>1. t \in Monitor
    BY <1>2 DEF Token
  <2> QED
    BY <1>2, <2>1 DEF IInv, OneCarrier, BeforeStart, Registry, Made, Accounted
<1> QED
  BY <1>1, <1>2

LEMMA PlacedIsMadeNext == ASSUME IInv', NEW t \in Token, Carried(t)' PROVE Made(t)'
<1>1. CASE t = SysToken
  BY <1>1 DEF IInv, OneCarrier, BeforeStart, Made
<1>2. CASE t # SysToken
  <2>1. t \in Monitor
    BY <1>2 DEF Token
  <2> QED
    BY <1>2, <2>1 DEF IInv, OneCarrier, BeforeStart, Registry, Made, Accounted
<1> QED
  BY <1>1, <1>2

LEMMA HoldingStep ==
    ASSUME TypeOK, TypeOK', NEW t \in Token, NEW n \in Node, Holding(t, n),
           \A k \in Node \ {n} : Goes(t, k), Owns(t)'[n] = Owns(t)[n],
           SameRecord(t, n), t \notin locked'[n] => t \notin locked[n]
    PROVE  Holding(t, n)'
<1>1. Fits(Owns(t)', Waiting(t)', alg[n][t].ln, alg[n][t].queue, {n})
  <2>1. /\ Owns(t) \in Numbers /\ Owns(t)' \in Numbers
        /\ alg[n][t].ln \in Numbers /\ alg[n][t].queue \in Seq(Node)
    BY OwnsType, OwnsTypeNext
  <2> QED
    BY <2>1, FitsStep DEF Holding, Goes
<1> QED
  BY <1>1 DEF Holding, SameRecord

LEMMA ComingStep ==
    ASSUME TypeOK, TypeOK', NEW t \in Token, NEW b \in Node, NEW msg, Coming(t, b, msg),
           msg.ln \in Numbers, msg.queue \in Seq(Node), \A k \in Node : Goes(t, k)
    PROVE  /\ Fits(Owns(t)', Waiting(t)', msg.ln, msg.queue, {})
           /\ b \notin QueueRange(msg.queue) /\ Owns(t)'[b] = msg.ln[b] + 1
<1>1. Owns(t) \in Numbers /\ Owns(t)' \in Numbers
  BY OwnsType, OwnsTypeNext
<1>2. Fits(Owns(t)', Waiting(t)', msg.ln, msg.queue, {})
  BY <1>1, FitsStep DEF Coming, Goes
<1>3. Owns(t)'[b] = msg.ln[b] + 1
  BY DEF Coming, Goes, Fits
<1> QED
  BY <1>2, <1>3 DEF Coming

\* A token that is neither held nor under way.
LEMMA PristineStep ==
    ASSUME TypeOK, TypeOK', NEW t \in Token, Pristine(t), \A k \in Node : t \notin Held(k),
           Steady(t)
    PROVE  Pristine(t)'
<1>1. /\ Owns(t) \in Numbers /\ Owns(t)' \in Numbers
      /\ NoneServed \in Numbers /\ <<>> \in Seq(Node)
  BY OwnsType, OwnsTypeNext DEF NoneServed, Numbers
<1>2. Fits(Owns(t)', Waiting(t)', NoneServed, <<>>, {})
  <2>1. \A k \in Node : Goes(t, k)
    BY DEF Steady
  <2>2. Fits(Owns(t), Waiting(t), NoneServed, <<>>, {})
    BY DEF Pristine
  <2> QED
    BY <1>1, <2>1, <2>2, FitsStep DEF Goes
<1>3. \A j \in Node : alg'[j][t].ln = NoneServed /\ alg'[j][t].queue = <<>>
  BY DEF Pristine, Steady, SameRecord
<1>4. NoneServed' = NoneServed
  BY DEF NoneServed
<1> QED
  BY <1>2, <1>3 DEF Pristine, NoneServed

LEMMA RightKept ==
    ASSUME IInv, IInv', NEW t \in Token, Right(t), Steady(t), Made(t) => Made(t)',
           \A k \in Node : t \in Held(k)' =>
              t \in Held(k) /\ (t \notin locked'[k] => t \notin locked[k]),
           \A a, b \in Node : \A i \in Nat :
              Carries(net', a, b, i, t) => Earlier(a, b, t, net'[a][b][i])
    PROVE  Right(t)'
<1>1. TypeOK /\ TypeOK' /\ OneCarrierOf(t)
  BY DEF IInv, OneCarrier
<1>2. ASSUME NEW n \in Node, t \in Held(n)' PROVE Holding(t, n)'
  <2>1. t \in Held(n) /\ \A k \in Node \ {n} : t \notin Held(k)
    BY <1>1, <1>2 DEF OneCarrierOf
  <2>2. /\ \A k \in Node \ {n} : Goes(t, k)
        /\ Owns(t)'[n] = Owns(t)[n] /\ SameRecord(t, n)
    BY <2>1 DEF Steady
  <2>3. Holding(t, n)
    BY <2>1 DEF Right
  <2> QED
    BY <1>1, <1>2, <2>2, <2>3, HoldingStep
<1>3. ASSUME NEW a \in Node, NEW b \in Node, NEW i \in Nat, Carries(net', a, b, i, t)
      PROVE  Coming(t, b, net[a][b][i])'
  <2>1. PICK j \in Nat : Carries(net, a, b, j, t) /\ net[a][b][j] = net'[a][b][i]
    BY <1>3 DEF Earlier
  <2> DEFINE msg == net[a][b][j]
  <2>2. \A k \in Node : Goes(t, k)
    BY <1>1, <2>1 DEF Steady, OneCarrierOf
  <2>3. Coming(t, b, msg) /\ msg.ln \in Numbers /\ msg.queue \in Seq(Node)
    BY <1>1, <2>1, CarriedType DEF Right
  <2> HIDE DEF msg
  <2>4. /\ Fits(Owns(t)', Waiting(t)', msg.ln, msg.queue, {})
        /\ b \notin QueueRange(msg.queue) /\ Owns(t)'[b] = msg.ln[b] + 1
    BY <1>1, <2>2, <2>3, ComingStep
  <2> QED
    BY <2>1, <2>4 DEF Coming, msg
<1>4. Made(t)' \/ Pristine(t)'
  <2> SUFFICES ASSUME ~Made(t)' PROVE Pristine(t)'
    OBVIOUS
  <2>1. Pristine(t) /\ ~Made(t)
    BY DEF Right
  <2>2. \A k \in Node : t \notin Held(k)
    BY <2>1, PlacedIsMade DEF Carried
  <2> QED
    BY <1>1, <2>1, <2>2, PristineStep
<1> QED
  BY <1>2, <1>3, <1>4 DEF Right

\* The token ends up at n.
LEMMA RightAt ==
    ASSUME IInv', NEW t \in Token, NEW n \in Node, t \in Held(n)', Holding(t, n)'
    PROVE  Right(t)'
<1>1. OneCarrierOf(t)' /\ Carried(t)'
  BY DEF IInv, OneCarrier, Carried
<1>2. Made(t)'
  BY <1>1, PlacedIsMadeNext
<1>3. \A k \in Node : t \in Held(k)' => k = n
  BY <1>1 DEF OneCarrierOf
<1>4. \A a, b \in Node : \A i \in Nat : ~Carries(net', a, b, i, t)
  BY <1>1 DEF OneCarrierOf
<1> QED
  BY <1>2, <1>3, <1>4 DEF Right

\* The token ends up in the network, in a packet for d, or nowhere.
LEMMA RightSent ==
    ASSUME NEW t \in Token, NEW d \in Node, NEW msg, \A k \in Node : t \notin Held(k)',
           \A a, b \in Node : \A i \in Nat :
              Carries(net', a, b, i, t) => b = d /\ net'[a][b][i] = msg,
           Made(t)', Fits(Owns(t)', Waiting(t)', msg.ln, msg.queue, {}),
           d \notin QueueRange(msg.queue), Owns(t)'[d] = msg.ln[d] + 1
    PROVE  Right(t)'
<1>1. ASSUME NEW a \in Node, NEW b \in Node, NEW i \in Nat, Carries(net', a, b, i, t)
      PROVE  Coming(t, b, net[a][b][i])'
  BY <1>1 DEF Coming
<1> QED
  BY <1>1 DEF Right

-----------------------------------------------------------------------------
(* How far the numbers go.                                                  *)

\* Fewer lock calls of a node, and fewer monitors, than a u32 has values: no request
\* number wraps around.
Few == (\A n \in Node : MaxLocks[n] + 1 < U32) /\ Cardinality(Monitor) + 1 < U32

\* A node asks at most once per lock call for a monitor's token, and at most once per
\* monitor it creates for the system token.
BoundedAt(k) ==
    /\ \A m \in Monitor :
          /\ alg[k][m].rn[k] <= locks[k][m] /\ locks[k][m] <= MaxLocks[k]
          /\ m \in pendingGrants[k] \ pendingRequests[k] => alg[k][m].rn[k] < locks[k][m]
    /\ alg[k][SysToken].rn[k] <= Cardinality(public[k])
    /\ SysToken \in pendingRequests[k] => public[k] # {}

Bounded == \A k \in Node : BoundedAt(k)

\* The numbers in the requests under way are at most those of own.
Honest(w, own) ==
    \A a, b \in Node : \A i \in DOMAIN w[a][b] :
        w[a][b][i].type = "RequestToken" => w[a][b][i].number <= own[w[a][b][i].token][a]

Last == [t \in Token |-> Owns(t)]

\* Nobody believes in a request that was not made.
Truthful ==
    /\ \A t \in Token : \A j, k \in Node : alg[j][t].rn[k] <= Last[t][k]
    /\ Honest(net, Last)

\* Who waits for a monitor it owns has created it; a node that has not met everybody
\* asks for nothing but the system token, and holds nothing it asks for.
YoungAt(k) ==
    /\ owned[k] \cap pendingGrants[k] \subseteq created[k]
    /\ SysToken \in owned[k] => k \in started
    /\ k \notin startedCluster =>
          owned[k] \subseteq created[k] /\ pendingRequests[k] \subseteq {SysToken} \ owned[k]

Young == (\A k \in Node : YoungAt(k)) /\ (0 \notin started => pendingRequests[0] = {})

LEMMA LowOwns ==
    ASSUME TypeOK, Bounded, Few, NEW t \in Token
    PROVE  Low(Owns(t))
<1> SUFFICES ASSUME NEW k \in Node PROVE Owns(t)[k] + 1 < U32
  BY DEF Low
<1>1. U32 \in Nat /\ Owns(t)[k] = alg[k][t].rn[k] /\ Owns(t)[k] \in Nat
  BY U32Assumption, OwnsType DEF Numbers
<1>2. CASE t = SysToken
  <2>1. Cardinality(public[k]) <= Cardinality(Monitor) /\ Cardinality(public[k]) \in Nat
        /\ Cardinality(Monitor) \in Nat
    BY MonitorAssumption, FS_Subset, FS_CardinalityType DEF TypeOK
  <2> QED
    BY <1>1, <1>2, <2>1 DEF Bounded, BoundedAt, Few
<1>3. CASE t \in Monitor
  <2>1. locks[k][t] \in Nat /\ MaxLocks[k] \in Nat
    BY <1>3, BoundAssumption DEF TypeOK
  <2> QED
    BY <1>1, <1>3, <2>1 DEF Bounded, BoundedAt, Few
<1> QED
  BY <1>2, <1>3 DEF Token

LEMMA IncrementIs ==
    ASSUME NEW a \in Alg, NEW n \in Node, a.rn[n] + 1 < U32
    PROVE  LET next == IncrementRequestNumber(a, n)
           IN  /\ next \in Alg /\ next.ln = a.ln /\ next.queue = a.queue
               /\ next.rn[n] = a.rn[n] + 1
               /\ \A k \in Node \ {n} : next.rn[k] = a.rn[k]
<1>1. Inc32(a.rn[n]) = a.rn[n] + 1 /\ Inc32(a.rn[n]) \in RequestNumber
  BY U32Assumption DEF Alg, RequestNumber, Inc32
<1> QED
  BY <1>1 DEF Alg, IncrementRequestNumber

LEMMA NumberedIs ==
    ASSUME NEW a \in [Token -> Alg], NEW n \in Node, NEW T, NEW t \in Token,
           a[t].rn[n] + 1 < U32
    PROVE  LET next == Numbered(a, n, T)[t]
           IN  /\ next \in Alg /\ next.ln = a[t].ln /\ next.queue = a[t].queue
               /\ next.rn[n] = IF t \in T THEN a[t].rn[n] + 1 ELSE a[t].rn[n]
               /\ \A k \in Node \ {n} : next.rn[k] = a[t].rn[k]
<1>1. Numbered(a, n, T)[t] = IF t \in T THEN IncrementRequestNumber(a[t], n) ELSE a[t]
  BY DEF Numbered
<1>2. a[t] \in Alg
  OBVIOUS
<1> QED
  BY <1>1, <1>2, IncrementIs

-----------------------------------------------------------------------------
(* The requests in the network.                                             *)

Counts == [Token -> Numbers]

LEMMA LastType ==
    ASSUME TypeOK
    PROVE  Last \in Counts /\ \A t \in Token : Last[t] = Owns(t)
                           /\ \A k \in Node : Last[t][k] = alg[k][t].rn[k]
  BY OwnsType DEF Last, Counts

LEMMA LastTypeNext ==
    ASSUME TypeOK'
    PROVE  Last' \in Counts /\ \A t \in Token : Last'[t] = Owns(t)'
                            /\ \A k \in Node : Last'[t][k] = alg'[k][t].rn[k]
  BY OwnsTypeNext DEF Last, Counts

LEMMA HonestGrows ==
    ASSUME NEW w \in Channels, NEW own \in Counts, NEW own2 \in Counts, Honest(w, own),
           \A t \in Token : \A k \in Node : own[t][k] <= own2[t][k]
    PROVE  Honest(w, own2)
<1> SUFFICES ASSUME NEW a \in Node, NEW b \in Node, NEW i \in DOMAIN w[a][b],
                    w[a][b][i].type = "RequestToken"
             PROVE  w[a][b][i].number <= own2[w[a][b][i].token][a]
  BY DEF Honest
<1> DEFINE msg == w[a][b][i]
<1>1. msg \in Message
  BY DEF Channels
<1>2. msg.token \in Token /\ msg.number \in Nat
  BY <1>1, MessageFields DEF RequestNumber
<1>3. msg.number <= own[msg.token][a]
  BY DEF Honest
<1> HIDE DEF msg
<1>4. own[msg.token][a] \in Nat /\ own2[msg.token][a] \in Nat
      /\ own[msg.token][a] <= own2[msg.token][a]
  BY <1>2 DEF Counts, Numbers
<1> QED
  BY <1>2, <1>3, <1>4 DEF msg

LEMMA HonestReceived ==
    ASSUME net \in Channels, NEW n \in Node, NEW p \in Node, net[p][n] # <<>>, NEW own,
           Honest(net, own)
    PROVE  Honest(Received(n, p), own)
<1> DEFINE v == Received(n, p)
<1>1. /\ v[p][n] = Tail(net[p][n]) /\ net[p][n] \in Seq(Message)
      /\ \A a, b \in Node : ~(a = p /\ b = n) => v[a][b] = net[a][b]
  BY DEF Received, Channels
<1>2. \A i \in DOMAIN v[p][n] : i + 1 \in DOMAIN net[p][n] /\ v[p][n][i] = net[p][n][i + 1]
  BY <1>1
<1> HIDE DEF v
<1> SUFFICES ASSUME NEW a \in Node, NEW b \in Node, NEW i \in DOMAIN v[a][b],
                    v[a][b][i].type = "RequestToken"
             PROVE  v[a][b][i].number <= own[v[a][b][i].token][a]
  BY DEF Honest, v
<1>3. CASE a = p /\ b = n
  BY <1>2, <1>3 DEF Honest
<1>4. CASE ~(a = p /\ b = n)
  BY <1>1, <1>4 DEF Honest
<1> QED
  BY <1>3, <1>4

LEMMA HonestPost ==
    ASSUME NEW v \in Channels, NEW n \in Node, NEW peers, NEW msgs \in Seq(Message),
           NEW own, Honest(v, own),
           \A j \in DOMAIN msgs : msgs[j].type = "RequestToken" =>
              msgs[j].number <= own[msgs[j].token][n]
    PROVE  Honest(Post(v, n, peers, msgs), own)
  BY PostIndex DEF Honest

LEMMA HonestSend ==
    ASSUME NEW v \in Channels, NEW n \in Node, NEW peers, NEW msg \in Message,
           NEW own, Honest(v, own), msg.type # "RequestToken"
    PROVE  Honest(Post(v, n, peers, <<msg>>), own)
<1> DEFINE msgs == <<msg>>
<1>1. msgs \in Seq(Message) /\ DOMAIN msgs = {1} /\ msgs[1] = msg
  OBVIOUS
<1> HIDE DEF msgs
<1>2. Honest(Post(v, n, peers, msgs), own)
  BY <1>1, HonestPost
<1> QED
  BY <1>2 DEF msgs

LEMMA HonestRequests ==
    ASSUME NEW v \in Channels, NEW n \in Node, NEW peers, NEW a \in [Token -> Alg],
           NEW T \in SUBSET Token, NEW order \in Orderings(T), NEW own \in Counts,
           Honest(v, own), \A t \in Token : a[t].rn[n] <= own[t][n]
    PROVE  Honest(Post(v, n, peers, RequestMsgs(a, n, order)), own)
<1> DEFINE msgs == RequestMsgs(a, n, order)
<1>1. msgs \in Seq(Message)
  BY RequestMsgsType
<1>2. ASSUME NEW j \in DOMAIN msgs PROVE msgs[j].number <= own[msgs[j].token][n]
  <2>1. j \in DOMAIN order /\ msgs[j] = RequestTokenMsg(order[j], a[order[j]].rn[n])
    BY DEF RequestMsgs
  <2>2. order[j] \in Token
    BY <2>1 DEF Orderings
  <2> QED
    BY <2>1, <2>2 DEF RequestTokenMsg
<1> HIDE DEF msgs
<1> QED
  BY <1>1, <1>2, HonestPost DEF msgs

-----------------------------------------------------------------------------
(* Steps in which one node may ask.                                         *)

\* Nothing of the other nodes changes.
Elsewhere(n) ==
    \A k \in Node \ {n} :
        /\ alg'[k] = alg[k] /\ locks'[k] = locks[k] /\ public'[k] = public[k]
        /\ pendingRequests'[k] = pendingRequests[k] /\ pendingGrants'[k] = pendingGrants[k]
        /\ k \in startedCluster' <=> k \in startedCluster

\* n asks for the tokens of A, and learns nothing about the others.
Asked(n, A) ==
    \A t \in Token :
        /\ alg'[n][t].rn[n] = IF t \in A THEN alg[n][t].rn[n] + 1 ELSE alg[n][t].rn[n]
        /\ \A k \in Node \ {n} : alg'[n][t].rn[k] = alg[n][t].rn[k]

LEMMA GoesElsewhere ==
    ASSUME TypeOK, TypeOK', NEW n \in Node, Elsewhere(n), NEW t \in Token,
           NEW k \in Node \ {n}
    PROVE  Goes(t, k) /\ SameRecord(t, k) /\ Owns(t)'[k] = Owns(t)[k]
<1>1. Owns(t)'[k] = Owns(t)[k] /\ SameRecord(t, k)
  BY OwnsType, OwnsTypeNext DEF Elsewhere, SameRecord
<1>2. k \in Waiting(t) => k \in Waiting(t)'
  BY DEF Elsewhere, Waiting
<1> QED
  BY <1>1, <1>2 DEF Goes

LEMMA SteadyFrom ==
    ASSUME TypeOK, TypeOK', NEW n \in Node, Elsewhere(n), NEW A, Asked(n, A), NEW t \in Token,
           SameRecord(t, n),
           t \in A => t \notin Held(n) /\ n \notin Waiting(t) /\ n \in Waiting(t)',
           t \notin A => t \in Held(n) \/ (n \in Waiting(t) => n \in Waiting(t)')
    PROVE  Steady(t)
<1>1. ASSUME NEW k \in Node \ {n}
      PROVE  Goes(t, k) /\ SameRecord(t, k) /\ Owns(t)'[k] = Owns(t)[k]
  BY GoesElsewhere
<1>2. Owns(t)'[n] = IF t \in A THEN Owns(t)[n] + 1 ELSE Owns(t)[n]
  BY OwnsType, OwnsTypeNext DEF Asked
<1>3. IF t \in Held(n) THEN Owns(t)'[n] = Owns(t)[n] ELSE Goes(t, n)
  BY <1>2 DEF Goes
<1> QED
  BY <1>1, <1>3 DEF Steady

LEMMA BoundedElsewhere ==
    ASSUME Bounded, NEW n \in Node, Elsewhere(n), BoundedAt(n)'
    PROVE  Bounded'
<1>1. ASSUME NEW k \in Node \ {n} PROVE BoundedAt(k)'
  BY DEF Bounded, BoundedAt, Elsewhere
<1> QED
  BY <1>1 DEF Bounded

LEMMA GrowsIf ==
    ASSUME TypeOK, TypeOK', NEW n \in Node, Elsewhere(n), NEW A, Asked(n, A)
    PROVE  \A t \in Token : \A k \in Node : Last[t][k] <= Last'[t][k]
<1> SUFFICES ASSUME NEW t \in Token, NEW k \in Node PROVE Last[t][k] <= Last'[t][k]
  OBVIOUS
<1>1. /\ Last[t][k] = alg[k][t].rn[k] /\ Last'[t][k] = alg'[k][t].rn[k]
      /\ alg[k][t].rn[k] \in Nat /\ alg'[k][t].rn[k] \in Nat
  BY LastType, LastTypeNext DEF Counts, Numbers
<1>2. CASE k = n
  BY <1>1, <1>2 DEF Asked
<1>3. CASE k # n
  BY <1>1, <1>3 DEF Elsewhere
<1> QED
  BY <1>2, <1>3

LEMMA TruthfulFrom ==
    ASSUME TypeOK, TypeOK', NEW n \in Node, Elsewhere(n), NEW A, Asked(n, A), Truthful,
           Honest(net', Last')
    PROVE  Truthful'
<1> SUFFICES ASSUME NEW t \in Token, NEW j \in Node, NEW k \in Node
             PROVE  alg'[j][t].rn[k] <= Last'[t][k]
  BY DEF Truthful, Honest
<1>1. /\ Last[t][k] <= Last'[t][k] /\ Last[t][k] \in Nat /\ Last'[t][k] \in Nat
      /\ alg[j][t].rn[k] <= Last[t][k] /\ Last'[t][k] = alg'[k][t].rn[k]
      /\ alg[j][t].rn[k] \in Nat
  <2>1. alg[j][t].rn[k] \in Nat
    BY OwnsType DEF Alg, RequestNumber
  <2> QED
    BY <2>1, GrowsIf, LastType, LastTypeNext DEF Truthful, Counts, Numbers
<1>2. CASE j # n
  BY <1>1, <1>2 DEF Elsewhere
<1>3. CASE j = n /\ k # n
  BY <1>1, <1>3 DEF Asked
<1>4. CASE j = n /\ k = n
  BY <1>1, <1>4
<1> QED
  BY <1>2, <1>3, <1>4

-----------------------------------------------------------------------------
(* Steps in which nobody asks.                                              *)

Unmoved ==
    UNCHANGED <<alg, locks, public, pendingRequests, pendingGrants, startedCluster>>

LEMMA UnmovedSteady ==
    ASSUME TypeOK, TypeOK', Bounded, Truthful, Unmoved, Honest(net', Last)
    PROVE  Bounded' /\ Truthful' /\ \A t \in Token : Steady(t)
<1>1. Bounded'
  BY DEF Unmoved, Bounded, BoundedAt
<1>2. Last' = Last
  BY DEF Last, Owns, Unmoved
<1>3. Truthful'
  BY <1>2 DEF Truthful, Unmoved, Honest
<1>4. ASSUME NEW t \in Token PROVE Steady(t)
  <2>1. Owns(t)' = Owns(t) /\ Waiting(t)' = Waiting(t)
    BY DEF Owns, Waiting, Unmoved
  <2> QED
    BY <2>1 DEF Steady, Goes, SameRecord, Unmoved
<1> QED
  BY <1>1, <1>3, <1>4

LEMMA UnmovedActions ==
    ASSUME TypeOK, NEW n \in Node, NEW p \in Node, Honest(net, Last),
           HandleConnect(n, p) \/ CrashInHandshake(n, p) \/ Disconnect(n, p)
    PROVE  Unmoved /\ Honest(net', Last)
<1>1. Unmoved
  BY DEF Unmoved, HandleConnect, CrashInHandshake, Disconnect, nodeVars, tokenVars,
         pendingVars, appVars
<1>2. CASE HandleConnect(n, p)
  <2>1. Honest(Received(n, p), Last) /\ Received(n, p) \in Channels
    BY <1>2, HonestReceived, ReceivedType DEF HandleConnect, Arrives, TypeOK, Channels
  <2>2. ClusterHandshakeMsg \in Message /\ ClusterHandshakeMsg.type # "RequestToken"
    BY MessageTypes DEF ClusterHandshakeMsg
  <2> DEFINE hello == ClusterHandshakeMsg
  <2>3. \/ net' = Received(n, p)
        \/ net' = Post(Received(n, p), n, links[n] \cup {p}, <<hello>>)
    BY <1>2 DEF HandleConnect
  <2> HIDE DEF hello
  <2> QED
    BY <1>1, <2>1, <2>2, <2>3, HonestSend DEF hello
<1>3. CASE CrashInHandshake(n, p)
  BY <1>1, <1>3 DEF CrashInHandshake
<1>4. CASE Disconnect(n, p)
  <2>1. \A a, b \in Node : net'[a][b] = net[a][b] \/ KeepsFront(a, b)
    BY <1>4, DisconnectFront DEF TypeOK, Channels
  <2> QED
    BY <1>1, <2>1 DEF Honest, KeepsFront
<1> QED
  BY <1>2, <1>3, <1>4

-----------------------------------------------------------------------------
(* Steps in which a node asks.                                              *)

LEMMA RequestTokensNumbers ==
    ASSUME TypeOK, Bounded, Few, NEW n \in Node, NEW T \in SUBSET Token, RequestTokens(n, T),
           NEW new, new = IF n \in startedCluster THEN T \ pendingRequests[n] ELSE {}
    PROVE  /\ Asked(n, new)
           /\ \A t \in Token : SameRecord(t, n)
           /\ \A k \in Node \ {n} : alg'[k] = alg[k] /\ pendingRequests'[k] = pendingRequests[k]
           /\ pendingRequests'[n] = pendingRequests[n] \cup T
<1>1. /\ alg \in [Node -> [Token -> Alg]] /\ pendingRequests \in [Node -> SUBSET Token]
  BY DEF TypeOK
<1>2. /\ \A k \in Node \ {n} : pendingRequests'[k] = pendingRequests[k]
      /\ pendingRequests'[n] = pendingRequests[n] \cup T
  BY <1>1 DEF RequestTokens
<1>3. CASE n \notin startedCluster
  <2>1. alg' = alg /\ new = {}
    BY <1>3 DEF RequestTokens
  <2> QED
    BY <1>2, <2>1 DEF Asked, SameRecord
<1>4. CASE n \in startedCluster
  <2>1. alg' = [alg EXCEPT ![n] = Numbered(alg[n], n, new)]
    BY <1>4 DEF RequestTokens
  <2>2. ASSUME NEW t \in Token PROVE alg[n][t].rn[n] + 1 < U32
    BY LowOwns, OwnsType DEF Low
  <2>3. ASSUME NEW t \in Token
        PROVE  /\ alg'[n][t].rn[n] = IF t \in new THEN alg[n][t].rn[n] + 1 ELSE alg[n][t].rn[n]
               /\ \A k \in Node \ {n} : alg'[n][t].rn[k] = alg[n][t].rn[k]
               /\ SameRecord(t, n)
    <3>1. alg'[n] = Numbered(alg[n], n, new) /\ alg[n] \in [Token -> Alg]
      BY <1>1, <2>1
    <3> QED
      BY <2>2, <3>1, NumberedIs DEF SameRecord
  <2> QED
    BY <1>1, <1>2, <2>1, <2>3 DEF Asked
<1> QED
  BY <1>3, <1>4

LEMMA RequestTokensHonest ==
    ASSUME TypeOK, TypeOK', NEW n \in Node, NEW T \in SUBSET Token, RequestTokens(n, T),
           Honest(net, Last'), Elsewhere(n)
    PROVE  Honest(net', Last')
<1>1. CASE n \notin startedCluster
  BY <1>1 DEF RequestTokens
<1>2. CASE n \in startedCluster
  <2> DEFINE new == T \ pendingRequests[n]
             numbered == Numbered(alg[n], n, new)
  <2>1. PICK order \in Orderings(new) :
           net' = Post(net, n, links[n], RequestMsgs(numbered, n, order))
    BY <1>2 DEF RequestTokens
  <2>2. /\ alg'[n] = numbered /\ numbered \in [Token -> Alg] /\ new \in SUBSET Token
        /\ net \in Channels /\ Last' \in Counts
    <3>1. alg \in [Node -> [Token -> Alg]] /\ alg' = [alg EXCEPT ![n] = numbered]
      BY <1>2 DEF RequestTokens, TypeOK
    <3>2. numbered \in [Token -> Alg]
      BY <3>1, NumberedType
    <3>3. net \in Channels /\ Last' \in Counts
      BY LastTypeNext DEF TypeOK, Channels
    <3> HIDE DEF numbered
    <3> QED
      BY <3>1, <3>2, <3>3
  <2>3. \A t \in Token : numbered[t].rn[n] <= Last'[t][n]
    <3> SUFFICES ASSUME NEW t \in Token PROVE numbered[t].rn[n] <= Last'[t][n]
      OBVIOUS
    <3>1. Last'[t][n] = alg'[n][t].rn[n] /\ Last'[t][n] \in Nat
      BY LastTypeNext DEF Counts, Numbers
    <3> QED
      BY <2>2, <3>1
  <2> HIDE DEF numbered, new
  <2> QED
    BY <2>1, <2>2, <2>3, HonestRequests
<1> QED
  BY <1>1, <1>2

LEMMA HandleNewSteady ==
    ASSUME IInv, IInv', Meeting, Bounded, Few, Truthful, NEW n \in Node, NEW m \in Monitor,
           HandleNew(n, m)
    PROVE  Bounded' /\ Truthful' /\ \A t \in Token : Steady(t)
<1>1. /\ TypeOK /\ TypeOK' /\ m \notin public[n] /\ SysToken \notin locked[n]
      /\ net \in Channels /\ Honest(net, Last)
  BY DEF IInv, HandleNew, HeldHasEntry, TypeOK, Channels, Truthful
<1>2. /\ public' = [public EXCEPT ![n] = @ \cup {m}] /\ pendingGrants' = pendingGrants
      /\ locks' = locks /\ startedCluster' = startedCluster
  BY DEF HandleNew, nodeVars, appVars
<1>5. /\ Cardinality(public'[n]) = Cardinality(public[n]) + 1 /\ public'[n] # {}
      /\ Cardinality(public[n]) \in Nat /\ alg[n][SysToken].rn[n] \in Nat
  <2>1. public'[n] = public[n] \cup {m} /\ public[n] \in SUBSET Monitor
    BY <1>1, <1>2 DEF TypeOK
  <2>2. IsFiniteSet(public[n])
    BY <2>1, MonitorAssumption, FS_Subset
  <2>3. Cardinality(public'[n]) = Cardinality(public[n]) + 1 /\ Cardinality(public[n]) \in Nat
    BY <1>1, <2>1, <2>2, FS_AddElement, FS_CardinalityType
  <2>4. SysToken \in Token
    BY DEF Token
  <2>5. Owns(SysToken)[n] = alg[n][SysToken].rn[n] /\ Owns(SysToken)[n] \in Nat
    BY <1>1, <2>4, OwnsType DEF Numbers
  <2> QED
    BY <2>1, <2>3, <2>5
<1>3. CASE UNCHANGED <<alg, pendingRequests, net>>
  <2>1. Elsewhere(n) /\ Asked(n, {}) /\ \A t \in Token : SameRecord(t, n)
    BY <1>1, <1>2, <1>3 DEF Elsewhere, Asked, SameRecord, TypeOK
  <2>2. Last' = Last
    BY <1>3 DEF Last, Owns
  <2>3. Truthful'
    BY <1>1, <1>3, <2>1, <2>2, TruthfulFrom
  <2>4. BoundedAt(n)'
    <3> QED
      BY <1>2, <1>3, <1>5 DEF Bounded, BoundedAt
  <2>5. \A t \in Token : Waiting(t)' = Waiting(t)
    BY <1>2, <1>3 DEF Waiting
  <2> QED
    BY <1>1, <2>1, <2>3, <2>4, <2>5, BoundedElsewhere, SteadyFrom
<1>4. CASE ~UNCHANGED <<alg, pendingRequests, net>>
  <2> DEFINE new == IF n \in startedCluster THEN {SysToken} \ pendingRequests[n] ELSE {}
  <2>1. RequestTokens(n, {SysToken}) /\ ~Exists(n, m) /\ ~Adopts(n, m)
    BY <1>4 DEF HandleNew
  <2>2. {SysToken} \in SUBSET Token /\ SysToken \in Token /\ new \subseteq {SysToken}
    BY DEF Token
  <2>3. /\ Asked(n, new) /\ \A t \in Token : SameRecord(t, n)
        /\ \A k \in Node \ {n} : alg'[k] = alg[k] /\ pendingRequests'[k] = pendingRequests[k]
        /\ pendingRequests'[n] = pendingRequests[n] \cup {SysToken}
    BY <1>1, <2>1, <2>2, RequestTokensNumbers
  <2>4. Elsewhere(n)
    BY <1>1, <1>2, <2>3 DEF Elsewhere, TypeOK
  <2>5. SysToken \in new => SysToken \notin Held(n)
    <3> SUFFICES ASSUME n \in startedCluster PROVE SysToken \notin Held(n)
      OBVIOUS
    <3>1. n \in started
      BY DEF Meeting
    <3> QED
      BY <1>1, <2>1, <3>1 DEF Adopts, Held
  <2>6. ASSUME NEW t \in Token PROVE Steady(t)
    <3>1. t \in new => n \notin Waiting(t) /\ n \in Waiting(t)'
      BY <1>2, <2>3 DEF Waiting
    <3>2. n \in Waiting(t) => n \in Waiting(t)'
      BY <1>2, <2>3 DEF Waiting
    <3>3. t \in new => t \notin Held(n)
      BY <2>2, <2>5
    <3> HIDE DEF new
    <3> QED
      BY <1>1, <2>3, <2>4, <3>1, <3>2, <3>3, SteadyFrom
  <2>7. BoundedAt(n)'
    <3>3. \A o \in Monitor : /\ alg'[n][o].rn[n] = alg[n][o].rn[n]
                             /\ o \in pendingRequests'[n] <=> o \in pendingRequests[n]
      <4> TAKE o \in Monitor
      <4>1. o # SysToken /\ o \in Token /\ o \notin new
        BY <2>2, MonitorAssumption DEF Token
      <4> HIDE DEF new
      <4> QED
        BY <2>3, <4>1 DEF Asked
    <3>4. /\ alg'[n][SysToken].rn[n] \in {alg[n][SysToken].rn[n], alg[n][SysToken].rn[n] + 1}
      BY <2>2, <2>3 DEF Asked
    <3>5. alg[n][SysToken].rn[n] <= Cardinality(public[n])
      BY DEF Bounded, BoundedAt
    <3>6. alg'[n][SysToken].rn[n] <= Cardinality(public'[n]) /\ public'[n] # {}
      BY <1>5, <3>4, <3>5
    <3>7. ASSUME NEW o \in Monitor
          PROVE  /\ alg'[n][o].rn[n] <= locks'[n][o] /\ locks'[n][o] <= MaxLocks[n]
                 /\ o \in pendingGrants'[n] \ pendingRequests'[n] =>
                       alg'[n][o].rn[n] < locks'[n][o]
      BY <1>2, <3>3 DEF Bounded, BoundedAt
    <3> QED
      BY <3>6, <3>7 DEF BoundedAt
  <2> HIDE DEF new
  <2>8. Honest(net, Last')
    BY <1>1, <2>3, <2>4, GrowsIf, HonestGrows, LastType, LastTypeNext
  <2>9. Truthful'
    BY <1>1, <2>1, <2>2, <2>3, <2>4, <2>8, RequestTokensHonest, TruthfulFrom
  <2> QED
    BY <2>4, <2>6, <2>7, <2>9, BoundedElsewhere
<1> QED
  BY <1>3, <1>4

LEMMA RequestLockSteady ==
    ASSUME IInv, IInv', Bounded, Few, Truthful, NEW n \in Node, NEW m \in Monitor,
           RequestLock(n, m)
    PROVE  Bounded' /\ Truthful' /\ \A t \in Token : Steady(t)
<1> DEFINE new == IF n \in startedCluster THEN {m} \ pendingRequests[n] ELSE {}
<1>1. /\ TypeOK /\ TypeOK' /\ m \in Token /\ m # SysToken
      /\ Honest(net, Last) /\ locks[n][m] \in Nat /\ MaxLocks[n] \in Nat
      /\ locks[n][m] < MaxLocks[n]
  <2>1. TypeOK /\ TypeOK' /\ Honest(net, Last)
    BY DEF IInv, Truthful
  <2>2. m \in Token /\ m # SysToken
    BY MonitorAssumption DEF Token
  <2>3. locks[n][m] \in Nat /\ MaxLocks[n] \in Nat
    BY <2>1, BoundAssumption DEF TypeOK
  <2> QED
    BY <2>1, <2>2, <2>3 DEF RequestLock
<1>2. /\ startedCluster' = startedCluster /\ public' = public
      /\ \A k \in Node : \A o \in Monitor :
            locks'[k][o] = IF k = n /\ o = m THEN locks[k][o] + 1 ELSE locks[k][o]
      /\ \A k \in Node \ {n} : locks'[k] = locks[k] /\ pendingGrants'[k] = pendingGrants[k]
  <2>1. locks' = [locks EXCEPT ![n][m] = @ + 1]
    BY DEF RequestLock
  <2>2. \/ pendingGrants' = pendingGrants
        \/ pendingGrants' = [pendingGrants EXCEPT ![n] = @ \ {m}]
        \/ pendingGrants' = [pendingGrants EXCEPT ![n] = @ \cup {m}]
    BY DEF RequestLock, pendingVars
  <2>3. startedCluster' = startedCluster /\ public' = public
    BY DEF RequestLock, nodeVars
  <2>4. locks \in [Node -> [Monitor -> Nat]] /\ pendingGrants \in [Node -> SUBSET Monitor]
    BY <1>1 DEF TypeOK
  <2>5. \A k \in Node \ {n} : locks'[k] = locks[k] /\ pendingGrants'[k] = pendingGrants[k]
    BY <2>1, <2>2, <2>4
  <2>6. \A o \in Monitor : locks'[n][o] = IF o = m THEN locks[n][o] + 1 ELSE locks[n][o]
    BY <2>1, <2>4
  <2> QED
    BY <2>3, <2>5, <2>6
<1>3. ASSUME Elsewhere(n), NEW A, Asked(n, A), A \subseteq {m},
             Honest(net', Last'), \A t \in Token : SameRecord(t, n),
             \A o \in Token \ {m} : /\ o \in pendingRequests[n] <=> o \in pendingRequests'[n]
                                    /\ o \in pendingGrants[n] <=> o \in pendingGrants'[n],
             m \in A => m \notin Held(n) /\ n \notin Waiting(m) /\ n \in Waiting(m)',
             m \notin A => m \in Held(n) \/ (n \in Waiting(m) => n \in Waiting(m)')
      PROVE  Bounded' /\ Truthful' /\ \A t \in Token : Steady(t)
  <2>1. Truthful'
    BY <1>1, <1>3, TruthfulFrom
  <2>2. BoundedAt(n)
    BY DEF Bounded
  <2>3. ASSUME NEW o \in Monitor
        PROVE  /\ alg'[n][o].rn[n] <= locks'[n][o] /\ locks'[n][o] <= MaxLocks[n]
               /\ o \in pendingGrants'[n] \ pendingRequests'[n] =>
                     alg'[n][o].rn[n] < locks'[n][o]
    <3>1. o \in Token /\ locks[n][o] \in Nat
      BY <1>1 DEF Token, TypeOK
    <3>2. alg[n][o].rn[n] \in Nat
      BY <1>1, <3>1, OwnsType DEF Numbers
    <3>3. CASE o # m
      <4>1. alg'[n][o].rn[n] = alg[n][o].rn[n] /\ locks'[n][o] = locks[n][o]
        BY <1>2, <1>3, <3>1, <3>3 DEF Asked
      <4> QED
        BY <1>3, <2>2, <3>1, <3>3, <4>1 DEF BoundedAt
    <3>4. CASE o = m
      <4>1. alg'[n][o].rn[n] \in {alg[n][o].rn[n], alg[n][o].rn[n] + 1}
            /\ locks'[n][o] = locks[n][o] + 1
        BY <1>2, <1>3, <3>1, <3>4 DEF Asked
      <4>2. m \in A => m \in pendingRequests'[n]
        BY <1>3 DEF Waiting
      <4>3. m \notin A => alg'[n][o].rn[n] = alg[n][o].rn[n]
        BY <1>3, <3>1, <3>4 DEF Asked
      <4>4. alg[n][o].rn[n] <= locks[n][o]
        BY <2>2 DEF BoundedAt
      <4> QED
        BY <1>1, <3>1, <3>2, <3>4, <4>1, <4>2, <4>3, <4>4
    <3> QED
      BY <3>3, <3>4
  <2>4. /\ alg'[n][SysToken].rn[n] <= Cardinality(public'[n])
        /\ SysToken \in pendingRequests'[n] => public'[n] # {}
    <3>1. SysToken \in Token /\ SysToken \notin A
      BY <1>1, <1>3 DEF Token
    <3>2. alg'[n][SysToken].rn[n] = alg[n][SysToken].rn[n]
      BY <1>3, <3>1 DEF Asked
    <3> QED
      BY <1>1, <1>2, <1>3, <2>2, <3>1, <3>2 DEF BoundedAt
  <2>5. Bounded'
    BY <1>3, <2>3, <2>4, BoundedElsewhere DEF BoundedAt
  <2>6. ASSUME NEW t \in Token PROVE Steady(t)
    <3>1. CASE t = m
      BY <1>1, <1>3, <3>1, SteadyFrom
    <3>2. CASE t # m
      <4>1. n \in Waiting(t) => n \in Waiting(t)'
        BY <1>2, <1>3, <3>2 DEF Waiting
      <4> QED
        BY <1>1, <1>3, <3>2, <4>1, SteadyFrom
    <3> QED
      BY <3>1, <3>2
  <2> QED
    BY <2>1, <2>5, <2>6
<1>4. ASSUME UNCHANGED <<pendingRequests, alg, net>>,
             m \in Held(n) \/ n \notin startedCluster,
             pendingGrants'[n] \cup {m} = pendingGrants[n] \cup {m}
      PROVE  Bounded' /\ Truthful' /\ \A t \in Token : Steady(t)
  <2>1. Elsewhere(n) /\ Asked(n, {}) /\ \A t \in Token : SameRecord(t, n)
    BY <1>2, <1>4 DEF Elsewhere, Asked, SameRecord
  <2>2. Honest(net', Last')
    BY <1>1, <1>4 DEF Last, Owns
  <2>3. m \in Held(n) \/ (n \in Waiting(m) => n \in Waiting(m)')
    BY <1>4 DEF Waiting
  <2>4. \A o \in Token \ {m} : /\ o \in pendingRequests[n] <=> o \in pendingRequests'[n]
                               /\ o \in pendingGrants[n] <=> o \in pendingGrants'[n]
    BY <1>4
  <2> QED
    BY <1>3, <2>1, <2>2, <2>3, <2>4
<1>5. CASE m \in locked[n]
  <2>1. UNCHANGED <<pendingRequests, alg, net>> /\ pendingGrants' = pendingGrants
    BY <1>5 DEF RequestLock, pendingVars
  <2> QED
    BY <1>4, <1>5, <2>1 DEF Held
<1>6. CASE m \notin locked[n] /\ n \in startedCluster /\ m \in owned[n]
  <2>1. /\ UNCHANGED <<pendingRequests, alg, net>>
        /\ pendingGrants' = [pendingGrants EXCEPT ![n] = @ \ {m}]
    BY <1>6 DEF RequestLock
  <2>2. pendingGrants'[n] = pendingGrants[n] \ {m}
    BY <1>1, <2>1 DEF TypeOK
  <2> QED
    BY <1>4, <1>6, <2>1, <2>2 DEF Held
<1>7. CASE m \notin locked[n] /\ n \notin startedCluster
  <2>1. /\ UNCHANGED <<pendingRequests, alg, net>>
        /\ pendingGrants' = [pendingGrants EXCEPT ![n] = @ \cup {m}]
    BY <1>7 DEF RequestLock
  <2>2. pendingGrants'[n] = pendingGrants[n] \cup {m}
    BY <1>1, <2>1 DEF TypeOK
  <2> QED
    BY <1>4, <1>7, <2>1, <2>2
<1>8. CASE m \notin locked[n] /\ n \in startedCluster /\ m \notin owned[n]
  <2>1. /\ RequestTokens(n, {m})
        /\ pendingGrants' = [pendingGrants EXCEPT ![n] = @ \cup {m}]
        /\ {m} \in SUBSET Token
    BY <1>1, <1>8 DEF RequestLock
  <2>2. pendingGrants'[n] = pendingGrants[n] \cup {m}
    BY <1>1, <2>1 DEF TypeOK
  <2>3. /\ Asked(n, new) /\ \A t \in Token : SameRecord(t, n)
        /\ \A k \in Node \ {n} : alg'[k] = alg[k] /\ pendingRequests'[k] = pendingRequests[k]
        /\ pendingRequests'[n] = pendingRequests[n] \cup {m}
    BY <1>1, <2>1, RequestTokensNumbers
  <2>4. Elsewhere(n)
    BY <1>2, <2>3 DEF Elsewhere
  <2>5. Honest(net, Last')
    <3> HIDE DEF new
    <3>1. net \in Channels
      BY <1>1 DEF TypeOK, Channels
    <3> QED
      BY <1>1, <2>3, <2>4, <3>1, GrowsIf, HonestGrows, LastType, LastTypeNext
  <2>6. Honest(net', Last')
    BY <1>1, <2>1, <2>4, <2>5, RequestTokensHonest
  <2>7. /\ m \in new => m \notin Held(n) /\ n \notin Waiting(m) /\ n \in Waiting(m)'
        /\ n \in Waiting(m) => n \in Waiting(m)'
    BY <1>2, <1>8, <2>2, <2>3 DEF Held, Waiting
  <2>8. \A o \in Token \ {m} : /\ o \in pendingRequests[n] <=> o \in pendingRequests'[n]
                               /\ o \in pendingGrants[n] <=> o \in pendingGrants'[n]
    BY <2>2, <2>3
  <2>9. new \subseteq {m}
    OBVIOUS
  <2> HIDE DEF new
  <2> QED
    BY <1>3, <2>3, <2>4, <2>6, <2>7, <2>8, <2>9
<1> QED
  BY <1>5, <1>6, <1>7, <1>8

LEMMA PacketClusterHandshakeSteady ==
    ASSUME IInv, IInv', Asking, Young, Bounded, Few, Truthful,
           NEW n \in Node, NEW p \in Node, PacketClusterHandshake(n, p)
    PROVE  Bounded' /\ Truthful' /\ \A t \in Token : Steady(t)
<1> DEFINE first == Received(n, p)
<1>1. /\ TypeOK /\ TypeOK' /\ net \in Channels /\ Honest(net, Last)
      /\ first \in Channels /\ Honest(first, Last)
      /\ public' = public /\ locks' = locks /\ pendingRequests' = pendingRequests
  <2>1. TypeOK /\ TypeOK' /\ net \in Channels /\ Honest(net, Last)
    BY DEF IInv, TypeOK, Channels, Truthful
  <2> QED
    BY <2>1, HonestReceived, ReceivedType DEF PacketClusterHandshake, Arrives
<1>2. CASE startedCluster' = startedCluster
  <2>1. Unmoved /\ net' = first
    BY <1>1, <1>2 DEF PacketClusterHandshake, Unmoved
  <2> QED
    BY <1>1, <2>1, UnmovedSteady
<1>3. CASE startedCluster' # startedCluster
  <2> DEFINE new == pendingRequests[n]
             numbered == Numbered(alg[n], n, new)
             due == pendingGrants[n] \cap public[n] \cap owned[n]
  <2>1. PICK order \in Orderings(new) :
           /\ n \notin startedCluster /\ startedCluster' = startedCluster \cup {n}
           /\ \E G \in GrantOutcomes(due) : Grant(n, G)
           /\ alg' = [alg EXCEPT ![n] = numbered]
           /\ net' = Post(first, n, links[n], RequestMsgs(numbered, n, order))
    BY <1>3 DEF PacketClusterHandshake
  <2>2. /\ alg'[n] = numbered /\ numbered \in [Token -> Alg] /\ new \in SUBSET Token
        /\ \A k \in Node \ {n} : alg'[k] = alg[k]
    <3>1. alg \in [Node -> [Token -> Alg]] /\ new \in SUBSET Token
      BY <1>1 DEF TypeOK
    <3>2. numbered \in [Token -> Alg]
      BY <3>1, NumberedType
    <3> HIDE DEF numbered, new
    <3> QED
      BY <2>1, <3>1, <3>2
  <2>3. /\ pendingGrants'[n] \subseteq pendingGrants[n]
        /\ \A k \in Node \ {n} : pendingGrants'[k] = pendingGrants[k]
    BY <1>1, <2>1 DEF Grant, TypeOK
  <2>4. Elsewhere(n)
    BY <1>1, <2>1, <2>2, <2>3 DEF Elsewhere
  <2>5. ASSUME NEW t \in Token
        PROVE  /\ alg'[n][t].rn[n] = IF t \in new THEN alg[n][t].rn[n] + 1 ELSE alg[n][t].rn[n]
               /\ \A k \in Node \ {n} : alg'[n][t].rn[k] = alg[n][t].rn[k]
               /\ SameRecord(t, n)
    <3>1. alg[n] \in [Token -> Alg] /\ alg[n][t].rn[n] + 1 < U32
      BY <1>1, LowOwns, OwnsType DEF Low, TypeOK
    <3> HIDE DEF new
    <3> QED
      BY <2>2, <3>1, NumberedIs DEF SameRecord
  <2>6. Asked(n, new)
    BY <2>5 DEF Asked
  <2>7. new \subseteq {SysToken} \ owned[n] /\ SysToken \notin locked[n]
    BY <2>1 DEF Young, YoungAt, IInv, HeldHasEntry
  <2>8. ASSUME NEW t \in Token PROVE Steady(t)
    <3>1. n \notin Waiting(t)
      BY <2>1 DEF Waiting
    <3>2. t \in new => t \notin Held(n) /\ n \in Waiting(t)'
      BY <1>1, <2>1, <2>7 DEF Held, Waiting
    <3> HIDE DEF new
    <3> QED
      BY <1>1, <2>4, <2>5, <2>6, <3>1, <3>2, SteadyFrom
  <2>9. SysToken \in new => alg[n][SysToken].rn[n] = 0 /\ 1 <= Cardinality(public[n])
    <3> SUFFICES ASSUME SysToken \in new
                 PROVE  alg[n][SysToken].rn[n] = 0 /\ 1 <= Cardinality(public[n])
      OBVIOUS
    <3>1. SysToken \in Token
      BY DEF Token
    <3>2. Unasked(n, SysToken)
      BY <2>1, <3>1 DEF Asking, May
    <3>3. alg[n][SysToken].rn[n] = 0
      BY <3>2 DEF Unasked, Fresh
    <3>4. public[n] # {} /\ public[n] \in SUBSET Monitor
      BY <1>1 DEF Bounded, BoundedAt, TypeOK
    <3>5. IsFiniteSet(public[n])
      BY <3>4, MonitorAssumption, FS_Subset
    <3>6. Cardinality(public[n]) \in Nat /\ Cardinality(public[n]) # 0
      BY <3>4, <3>5, FS_CardinalityType, FS_EmptySet
    <3> QED
      BY <3>3, <3>6
  <2>10. BoundedAt(n)'
    <3>1. BoundedAt(n)
      BY DEF Bounded
    <3>2. ASSUME NEW m \in Monitor PROVE alg'[n][m].rn[n] = alg[n][m].rn[n]
      <4>1. m \in Token /\ m \notin new
        BY <2>7, MonitorAssumption DEF Token
      <4> HIDE DEF new
      <4> QED
        BY <2>6, <4>1 DEF Asked
    <3>3. \/ alg'[n][SysToken].rn[n] = alg[n][SysToken].rn[n]
          \/ SysToken \in new /\ alg'[n][SysToken].rn[n] = alg[n][SysToken].rn[n] + 1
      <4>1. SysToken \in Token
        BY DEF Token
      <4> HIDE DEF new
      <4> QED
        BY <2>6, <4>1 DEF Asked
    <3>4. alg'[n][SysToken].rn[n] <= Cardinality(public[n])
      BY <2>9, <3>1, <3>3 DEF BoundedAt
    <3> QED
      BY <1>1, <2>3, <3>1, <3>2, <3>4 DEF BoundedAt
  <2> HIDE DEF new
  <2>11. Honest(net', Last')
    <3>1. Honest(first, Last')
      <4> HIDE DEF first
      <4> QED
        BY <1>1, <2>4, <2>6, GrowsIf, HonestGrows, LastType, LastTypeNext
    <3>2. \A t \in Token : numbered[t].rn[n] <= Last'[t][n]
      <4> SUFFICES ASSUME NEW t \in Token PROVE numbered[t].rn[n] <= Last'[t][n]
        OBVIOUS
      <4>1. Last'[t][n] = alg'[n][t].rn[n] /\ Last'[t][n] \in Nat
        BY <1>1, LastTypeNext DEF Counts, Numbers
      <4> QED
        BY <2>2, <4>1
    <3>3. Last' \in Counts
      BY <1>1, LastTypeNext
    <3> HIDE DEF numbered, first
    <3> QED
      BY <1>1, <2>1, <2>2, <3>1, <3>2, <3>3, HonestRequests
  <2> QED
    BY <1>1, <2>4, <2>6, <2>8, <2>10, <2>11, BoundedElsewhere, TruthfulFrom
<1> QED
  BY <1>2, <1>3

-----------------------------------------------------------------------------
(* What a node holds and waits for before it has met everybody.             *)

\* Only who asked is sent a token.
LEMMA ArrivesWanted ==
    ASSUME TypeOK, Asking, NEW n \in Node, NEW p \in Node, Arrives(n, p, "GiveToken")
    PROVE  /\ Head(net[p][n]) \in Message /\ Head(net[p][n]).type = "GiveToken"
           /\ Head(net[p][n]).token \in Token /\ May(n, Head(net[p][n]).token)
<1> DEFINE msg == Head(net[p][n])
<1>1. net[p][n] \in Seq(Message) /\ net[p][n] # <<>> /\ msg.type = "GiveToken"
  BY DEF TypeOK, Arrives
<1>2. msg \in Message /\ 1 \in DOMAIN net[p][n] /\ msg = net[p][n][1]
  BY <1>1
<1>3. msg.token \in Token
  BY <1>1, <1>2, MessageFields
<1>4. ~Unasked(n, msg.token)
  BY <1>1, <1>2 DEF Unasked, Silent, Harmless, Gives
<1> QED
  BY <1>1, <1>2, <1>3, <1>4 DEF Asking

LEMMA YoungElsewhere ==
    ASSUME Young, NEW n \in Node, YoungAt(n)', started \subseteq started',
           0 \notin started' => pendingRequests'[0] = {},
           \A k \in Node \ {n} :
              /\ owned'[k] \subseteq owned[k] /\ created[k] \subseteq created'[k]
              /\ pendingGrants'[k] = pendingGrants[k] /\ pendingRequests'[k] = pendingRequests[k]
              /\ k \in startedCluster' <=> k \in startedCluster
    PROVE  Young'
<1>1. ASSUME NEW k \in Node \ {n} PROVE YoungAt(k)'
  BY DEF Young, YoungAt
<1> QED
  BY <1>1 DEF Young

LEMMA HandleYoung ==
    ASSUME TypeOK, Young, NEW n \in Node, NEW p \in Node,
           \/ HandleConnect(n, p) \/ PacketClusterHandshake(n, p) \/ PacketRequestToken(n, p)
    PROVE  Young'
<1>1. /\ owned \in [Node -> SUBSET Token] /\ created \in [Node -> SUBSET Token]
      /\ pendingGrants \in [Node -> SUBSET Monitor] /\ YoungAt(n)
      /\ SysToken \notin pendingGrants[n]
  BY MonitorAssumption DEF TypeOK, Young
<1>2. CASE HandleConnect(n, p)
  <2>1. /\ UNCHANGED <<pendingGrants, pendingRequests, startedCluster>>
        /\ started \subseteq started'
    BY <1>2 DEF HandleConnect, pendingVars
  <2>2. CASE owned' = owned /\ created' = created
    <3>1. YoungAt(n)'
      BY <1>1, <2>1, <2>2 DEF YoungAt
    <3> QED
      BY <2>1, <2>2, <3>1, YoungElsewhere DEF Young
  <2>3. CASE ~(owned' = owned /\ created' = created)
    <3>1. /\ n \notin started /\ started' = started \cup {n}
          /\ created' = [created EXCEPT ![n] = @ \cup {SysToken}]
          /\ owned' = [owned EXCEPT ![n] = IF n = 0 THEN @ \cup {SysToken} ELSE @]
      BY <1>2, <2>3 DEF HandleConnect
    <3>2. /\ created'[n] = created[n] \cup {SysToken}
          /\ owned'[n] = IF n = 0 THEN owned[n] \cup {SysToken} ELSE owned[n]
      BY <1>1, <3>1
    <3>3. n = 0 => pendingRequests[n] = {}
      BY <3>1 DEF Young
    <3>4. YoungAt(n)'
      BY <1>1, <2>1, <3>1, <3>2, <3>3 DEF YoungAt
    <3>5. \A k \in Node \ {n} : owned'[k] = owned[k] /\ created'[k] = created[k]
      BY <1>1, <3>1
    <3> QED
      BY <2>1, <3>1, <3>4, <3>5, YoungElsewhere DEF Young
  <2> QED
    BY <2>2, <2>3
<1>3. CASE PacketClusterHandshake(n, p)
  <2>1. UNCHANGED <<owned, created, started, pendingRequests>>
    BY <1>3 DEF PacketClusterHandshake
  <2>2. /\ startedCluster \subseteq startedCluster'
        /\ \A k \in Node \ {n} : k \in startedCluster' <=> k \in startedCluster
    BY <1>3 DEF PacketClusterHandshake
  <2>3. \E G : pendingGrants' = [pendingGrants EXCEPT ![n] = @ \ G]
    <3>1. CASE pendingGrants' = pendingGrants
      <4>1. pendingGrants' = [pendingGrants EXCEPT ![n] = @ \ {}]
        BY <1>1, <3>1
      <4> QED
        BY <4>1
    <3>2. CASE pendingGrants' # pendingGrants
      BY <1>3, <3>2 DEF PacketClusterHandshake, Grant
    <3> QED
      BY <3>1, <3>2
  <2>4. /\ pendingGrants'[n] \subseteq pendingGrants[n]
        /\ \A k \in Node \ {n} : pendingGrants'[k] = pendingGrants[k]
    BY <1>1, <2>3
  <2>5. YoungAt(n)'
    BY <1>1, <2>1, <2>2, <2>4 DEF YoungAt
  <2> QED
    BY <2>1, <2>2, <2>4, <2>5, YoungElsewhere DEF Young
<1>4. CASE PacketRequestToken(n, p)
  <2>1. UNCHANGED <<started, startedCluster, pendingGrants, pendingRequests>>
    BY <1>4 DEF PacketRequestToken, nodeVars, pendingVars
  <2>2. \A k \in Node : owned'[k] \subseteq owned[k] /\ created[k] \subseteq created'[k]
    <3>1. \/ owned' = owned
          \/ \E T : owned' = [owned EXCEPT ![n] = @ \ T]
      BY <1>4 DEF PacketRequestToken
    <3>2. \/ created' = created
          \/ \E T : created' = [created EXCEPT ![n] = IF T \in private[n] THEN @ ELSE @ \cup {T}]
      BY <1>4 DEF PacketRequestToken
    <3> QED
      BY <1>1, <3>1, <3>2
  <2>3. YoungAt(n)'
    BY <1>1, <2>1, <2>2 DEF YoungAt
  <2> QED
    BY <2>1, <2>2, <2>3, YoungElsewhere DEF Young
<1> QED
  BY <1>2, <1>3, <1>4

LEMMA PacketGiveTokenYoung ==
    ASSUME IInv, Asking, Young, NEW n \in Node, NEW p \in Node, PacketGiveToken(n, p)
    PROVE  Young'
<1> DEFINE msg == Head(net[p][n])
           t == msg.token
<1>1. /\ TypeOK /\ SysEntryCreated
      /\ owned \in [Node -> SUBSET Token] /\ created \in [Node -> SUBSET Token]
      /\ pendingGrants \in [Node -> SUBSET Monitor] /\ pendingRequests \in [Node -> SUBSET Token]
      /\ YoungAt(n) /\ SysToken \notin pendingGrants[n] /\ SysToken \notin Monitor
  BY MonitorAssumption DEF TypeOK, Young, IInv
<1>2. t \in Token /\ May(n, t)
  BY <1>1, ArrivesWanted DEF PacketGiveToken
<1> HIDE DEF t
<1>3. n \in startedCluster
  BY <1>2 DEF May
<1>4. CASE UNCHANGED <<nodeVars, tokenVars, pendingVars>>
  BY <1>4 DEF Young, YoungAt, nodeVars, tokenVars, pendingVars
<1>5. CASE ~Unexpected(n, t) /\ TakeSystemToken(n, p, msg)
  <2> DEFINE fresh == private[n] \ created[n]
             adopted == fresh \ msg.monitors
             new == (fresh \cap msg.monitors \cap pendingGrants[n]) \ pendingRequests[n]
  <2>1. /\ UNCHANGED <<started, startedCluster>> /\ n \in started
        /\ created' = [created EXCEPT ![n] = @ \cup fresh]
        /\ pendingRequests' = [pendingRequests EXCEPT ![n] = (@ \ {SysToken}) \cup new]
        /\ pendingGrants' = [pendingGrants EXCEPT ![n] = @ \ Grantable(n, adopted)]
    BY <1>5 DEF TakeSystemToken, Unexpected, nodeVars, Grant
  <2>2. \E T \in SUBSET (owned[n] \cup adopted \cup {SysToken}) : owned' = [owned EXCEPT ![n] = T]
    BY <1>5 DEF TakeSystemToken
  <2>3. /\ owned'[n] \subseteq owned[n] \cup fresh \cup {SysToken}
        /\ created'[n] = created[n] \cup fresh
        /\ pendingGrants'[n] \subseteq pendingGrants[n]
    BY <1>1, <2>1, <2>2
  <2>4. YoungAt(n)'
    BY <1>1, <1>3, <2>1, <2>3 DEF YoungAt
  <2>5. \A k \in Node \ {n} :
           /\ owned'[k] = owned[k] /\ created'[k] = created[k]
           /\ pendingGrants'[k] = pendingGrants[k] /\ pendingRequests'[k] = pendingRequests[k]
    BY <1>1, <2>1, <2>2
  <2>6. 0 \notin started' => pendingRequests'[0] = {}
    <3>1. 0 \in Node
      BY NAssumption DEF Node
    <3> QED
      BY <2>1, <2>5, <3>1 DEF Young
  <2> QED
    BY <2>1, <2>4, <2>5, <2>6, YoungElsewhere
<1>6. CASE ~Unexpected(n, t) /\ t # SysToken /\ TakeMonitorToken(n, p, msg)
  <2>1. t \in Monitor /\ t \in public[n]
    BY <1>2, <1>6 DEF Token, May
  <2>2. /\ UNCHANGED <<started, startedCluster, created>> /\ n \in started
        /\ owned' = [owned EXCEPT ![n] = @ \cup {t}]
        /\ pendingRequests' = [pendingRequests EXCEPT ![n] = @ \ {t}]
        /\ pendingGrants' = [pendingGrants EXCEPT ![n] = @ \ {t}]
    <3>1. Grantable(n, {t}) = {t} \cap pendingGrants[n]
      BY <2>1 DEF Grantable
    <3>2. pendingGrants' = [pendingGrants EXCEPT ![n] = @ \ ({t} \cap pendingGrants[n])]
      BY <1>6, <3>1 DEF TakeMonitorToken, Grant, t
    <3>3. pendingGrants[n] \ ({t} \cap pendingGrants[n]) = pendingGrants[n] \ {t}
      OBVIOUS
    <3> QED
      BY <1>6, <3>2, <3>3 DEF TakeMonitorToken, Unexpected, nodeVars, t
  <2>3. /\ owned'[n] = owned[n] \cup {t} /\ pendingGrants'[n] = pendingGrants[n] \ {t}
    BY <1>1, <2>2
  <2>4. YoungAt(n)'
    BY <1>1, <1>3, <1>6, <2>2, <2>3 DEF YoungAt
  <2>5. \A k \in Node \ {n} :
           /\ owned'[k] = owned[k] /\ created'[k] = created[k]
           /\ pendingGrants'[k] = pendingGrants[k] /\ pendingRequests'[k] = pendingRequests[k]
    BY <1>1, <2>2
  <2>6. 0 \notin started' => pendingRequests'[0] = {}
    <3>1. 0 \in Node
      BY NAssumption DEF Node
    <3> QED
      BY <2>2, <2>5, <3>1 DEF Young
  <2> QED
    BY <2>2, <2>4, <2>5, <2>6, YoungElsewhere
<1> QED
  BY <1>4, <1>5, <1>6 DEF PacketGiveToken, t

LEMMA HandleNewYoung ==
    ASSUME TypeOK, Young, Meeting, NEW n \in Node, NEW m \in Monitor, HandleNew(n, m)
    PROVE  Young'
<1>1. /\ owned \in [Node -> SUBSET Token] /\ created \in [Node -> SUBSET Token]
      /\ pendingRequests \in [Node -> SUBSET Token] /\ YoungAt(n)
      /\ m # SysToken /\ m \in Token /\ (n \in startedCluster => n \in started)
  BY MonitorAssumption DEF TypeOK, Young, Token, Meeting
<1>2. UNCHANGED <<started, startedCluster, pendingGrants>>
  BY DEF HandleNew, nodeVars
<1>3. CASE m \in private[n]
  <2>1. UNCHANGED <<created, owned, pendingRequests>>
    BY <1>3 DEF HandleNew
  <2> QED
    BY <1>2, <2>1 DEF Young, YoungAt
<1>4. CASE m \notin private[n] /\ (Exists(n, m) \/ Adopts(n, m))
  <2>1. /\ created' = [created EXCEPT ![n] = @ \cup {m}] /\ pendingRequests' = pendingRequests
        /\ owned' = [owned EXCEPT ![n] = IF Adopts(n, m) THEN @ \cup {m} ELSE @]
    BY <1>4 DEF HandleNew
  <2>2. /\ created'[n] = created[n] \cup {m}
        /\ owned'[n] \subseteq owned[n] \cup {m}
        /\ \A k \in Node \ {n} : owned'[k] = owned[k] /\ created'[k] = created[k]
    BY <1>1, <2>1
  <2>3. YoungAt(n)'
    BY <1>1, <1>2, <2>1, <2>2 DEF YoungAt
  <2> QED
    BY <1>2, <2>1, <2>2, <2>3, YoungElsewhere DEF Young
<1>5. CASE m \notin private[n] /\ ~Exists(n, m) /\ ~Adopts(n, m)
  <2>1. /\ RequestTokens(n, {SysToken})
        /\ created' = [created EXCEPT ![n] = @] /\ owned' = [owned EXCEPT ![n] = @]
    BY <1>5 DEF HandleNew
  <2>2. created' = created /\ owned' = owned
    BY <1>1, <2>1
  <2>3. /\ pendingRequests'[n] = pendingRequests[n] \cup {SysToken}
        /\ \A k \in Node \ {n} : pendingRequests'[k] = pendingRequests[k]
    BY <1>1, <2>1 DEF RequestTokens
  <2>4. SysToken \notin owned[n] /\ (n = 0 => 0 \in started)
    BY <1>1, <1>5 DEF Adopts, YoungAt
  <2>5. YoungAt(n)'
    BY <1>1, <1>2, <2>2, <2>3, <2>4 DEF YoungAt
  <2>6. 0 \notin started' => pendingRequests'[0] = {}
    <3>1. 0 \in Node
      BY NAssumption DEF Node
    <3> QED
      BY <1>2, <2>3, <2>4, <3>1 DEF Young
  <2> QED
    BY <1>2, <2>2, <2>3, <2>5, <2>6, YoungElsewhere
<1> QED
  BY <1>3, <1>4, <1>5

LEMMA RequestLockYoung ==
    ASSUME TypeOK, Young, Meeting, NEW n \in Node, NEW m \in Monitor, RequestLock(n, m)
    PROVE  Young'
<1>1. /\ pendingGrants \in [Node -> SUBSET Monitor] /\ pendingRequests \in [Node -> SUBSET Token]
      /\ YoungAt(n) /\ 0 \in Node
  <2>1. 0 \in Node
    BY NAssumption DEF Node
  <2> QED
    BY <2>1 DEF TypeOK, Young
<1>2. UNCHANGED <<started, startedCluster, owned, created>>
  BY DEF RequestLock, nodeVars
<1>3. CASE pendingRequests' = pendingRequests
  <2>1. \/ pendingGrants' = pendingGrants
        \/ pendingGrants' = [pendingGrants EXCEPT ![n] = @ \ {m}]
        \/ /\ n \notin startedCluster \/ m \notin owned[n]
           /\ pendingGrants' = [pendingGrants EXCEPT ![n] = @ \cup {m}]
    <3>1. CASE m \in locked[n]
      BY <3>1 DEF RequestLock, pendingVars
    <3>2. CASE m \notin locked[n] /\ n \in startedCluster /\ m \in owned[n]
      BY <3>2 DEF RequestLock
    <3>3. CASE m \notin locked[n] /\ (n \notin startedCluster \/ m \notin owned[n])
      BY <3>3 DEF RequestLock
    <3> QED
      BY <3>1, <3>2, <3>3
  <2>2. /\ owned[n] \cap pendingGrants'[n] \subseteq created[n]
        /\ \A k \in Node \ {n} : pendingGrants'[k] = pendingGrants[k]
    BY <1>1, <2>1 DEF YoungAt
  <2>3. YoungAt(n)'
    BY <1>1, <1>2, <1>3, <2>2 DEF YoungAt
  <2> QED
    BY <1>2, <1>3, <2>2, <2>3, YoungElsewhere DEF Young
<1>4. CASE pendingRequests' # pendingRequests
  <2>1. /\ n \in startedCluster /\ m \notin owned[n] /\ RequestTokens(n, {m})
        /\ pendingGrants' = [pendingGrants EXCEPT ![n] = @ \cup {m}]
    BY <1>4 DEF RequestLock, pendingVars
  <2>2. /\ \A k \in Node \ {n} : /\ pendingGrants'[k] = pendingGrants[k]
                                 /\ pendingRequests'[k] = pendingRequests[k]
        /\ pendingGrants'[n] = pendingGrants[n] \cup {m}
    BY <1>1, <2>1 DEF RequestTokens
  <2>3. YoungAt(n)'
    BY <1>1, <1>2, <2>1, <2>2 DEF YoungAt
  <2>4. 0 \in started
    BY <1>1, <2>1 DEF Meeting
  <2> QED
    BY <1>2, <2>2, <2>3, <2>4, YoungElsewhere
<1> QED
  BY <1>3, <1>4

LEMMA NextYoung ==
    ASSUME IInv, Meeting, Asking, Young, [Next]_vars
    PROVE  Young'
<1>1. TypeOK
  BY DEF IInv
<1>2. ASSUME NEW n \in Node, NEW p \in Node, Handle(n, p) PROVE Young'
  BY <1>1, <1>2, HandleYoung, PacketGiveTokenYoung DEF Handle
<1>3. ASSUME UNCHANGED <<started, startedCluster, owned, created, pendingGrants, pendingRequests>>
      PROVE  Young'
  BY <1>3 DEF Young, YoungAt
<1>4. ASSUME NEW n \in Node, NEW p \in Node, CrashInHandshake(n, p) \/ Disconnect(n, p)
      PROVE  Young'
  BY <1>3, <1>4 DEF CrashInHandshake, Disconnect, nodeVars, tokenVars, pendingVars
<1>5. ASSUME NEW n \in Node, NEW m \in Monitor, TakeGrant(n, m) PROVE Young'
  BY <1>3, <1>5 DEF TakeGrant, nodeVars, tokenVars, pendingVars
<1>6. ASSUME NEW n \in Node, NEW m \in Monitor, RequestUnlock(n, m) PROVE Young'
  <2>1. /\ UNCHANGED <<started, startedCluster, created, pendingGrants, pendingRequests>>
        /\ owned' = owned \/ owned' = [owned EXCEPT ![n] = @ \ {m}]
        /\ owned \in [Node -> SUBSET Token]
    BY <1>1, <1>6 DEF RequestUnlock, nodeVars, pendingVars, TypeOK
  <2>2. \A k \in Node : owned'[k] \subseteq owned[k]
    BY <2>1
  <2> QED
    BY <2>1, <2>2 DEF Young, YoungAt
<1>7. CASE UNCHANGED vars
  BY <1>3, <1>7 DEF vars, nodeVars, tokenVars, pendingVars
<1> QED
  BY <1>1, <1>2, <1>4, <1>5, <1>6, <1>7, HandleNewYoung, RequestLockYoung DEF Next

-----------------------------------------------------------------------------
(* The start.                                                               *)

LEMMA InitYoung == Init => Young
<1> SUFFICES ASSUME Init PROVE Young
  OBVIOUS
<1>1. 0 \in Node /\ SysToken \notin Monitor
  BY NAssumption, MonitorAssumption DEF Node
<1>2. /\ pendingGrants = [n \in Node |-> {}] /\ pendingRequests = [n \in Node |-> {}]
      /\ created = private /\ owned = private
      /\ private = [n \in Node |-> IF N = 1 THEN {SysToken} ELSE {}]
      /\ started = (IF N = 1 THEN Node ELSE {}) /\ startedCluster = started
  BY DEF Init
<1>3. ASSUME NEW k \in Node PROVE YoungAt(k)
  BY <1>2 DEF YoungAt
<1> QED
  BY <1>1, <1>2, <1>3 DEF Young

LEMMA InitNumbers == Init => Bounded /\ Truthful
<1> SUFFICES ASSUME Init PROVE Bounded /\ Truthful
  OBVIOUS
<1>1. TypeOK
  BY InitType
<1>2. \A k \in Node : \A t \in Token : alg[k][t] = NewAlg
  BY DEF Init
<1>3. \A j \in Node : NewAlg.rn[j] = 0
  BY DEF NewAlg
<1>4. \A k, j \in Node : \A t \in Token : alg[k][t].rn[j] = 0
  BY <1>2, <1>3
<1>5. Bounded
  <2> SUFFICES ASSUME NEW k \in Node PROVE BoundedAt(k)
    BY DEF Bounded
  <2>1. /\ \A m \in Monitor : locks[k][m] = 0
        /\ pendingGrants[k] = {} /\ pendingRequests[k] = {} /\ public[k] = {}
    BY DEF Init
  <2>2. MaxLocks[k] \in Nat /\ Cardinality({}) = 0
    BY BoundAssumption, FS_EmptySet
  <2>3. SysToken \in Token /\ Monitor \subseteq Token
    BY DEF Token
  <2> QED
    BY <1>4, <2>1, <2>2, <2>3 DEF BoundedAt
<1>6. \A a, b \in Node : \A i \in DOMAIN net[a][b] : net[a][b][i].type # "RequestToken"
  <2> DEFINE edge == <<EdgeHandshakeMsg>>
  <2>1. DOMAIN edge = {1} /\ edge[1].type = "EdgeHandshake"
    BY DEF EdgeHandshakeMsg
  <2>2. net = [a \in Node |-> [b \in Node |-> IF a = b THEN <<>> ELSE edge]]
    BY DEF Init
  <2> HIDE DEF edge
  <2> QED
    BY <2>1, <2>2
<1>7. Honest(net, Last)
  BY <1>6 DEF Honest
<1>8. \A t \in Token : \A k \in Node : Last[t][k] = 0
  BY <1>1, <1>4, LastType
<1> QED
  BY <1>4, <1>5, <1>7, <1>8 DEF Truthful

LEMMA InitRight == ASSUME Init, IInv, NEW t \in Token PROVE Right(t)
<1>1. TypeOK
  BY InitType
<1>2. \A k \in Node : /\ alg[k][t].rn = NoneServed /\ alg[k][t].ln = NoneServed
                      /\ alg[k][t].queue = <<>>
  <2>1. \A k \in Node : alg[k][t] = NewAlg
    BY DEF Init
  <2> QED
    BY <2>1 DEF NewAlg, NoneServed
<1>3. \A k \in Node : Owns(t)[k] = 0 /\ NoneServed[k] = 0
  BY <1>2 DEF Owns, NoneServed
<1>4. \A idle : Fits(Owns(t), Waiting(t), NoneServed, <<>>, idle)
  BY <1>3 DEF Fits, Single
<1>5. \A n \in Node : Holding(t, n)
  BY <1>2, <1>3, <1>4 DEF Holding
<1>6. Pristine(t)
  BY <1>2, <1>4 DEF Pristine
<1>7. \A a, b \in Node : \A i \in Nat : ~Carries(net, a, b, i, t)
  <2> DEFINE edge == <<EdgeHandshakeMsg>>
  <2>1. DOMAIN edge = {1} /\ edge[1].type = "EdgeHandshake"
    BY DEF EdgeHandshakeMsg
  <2>2. net = [a \in Node |-> [b \in Node |-> IF a = b THEN <<>> ELSE edge]]
    BY DEF Init
  <2> HIDE DEF edge
  <2> QED
    BY <2>1, <2>2 DEF Carries, Gives
<1> QED
  BY <1>5, <1>6, <1>7 DEF Right

-----------------------------------------------------------------------------
(* Steps in which the tokens stay where they are.                           *)

LEMMA NextMade ==
    ASSUME IInv, IInv', [Next]_vars, NEW t \in Token, Made(t)
    PROVE  Made(t)'
<1>1. CASE t = SysToken
  <2>1. started \subseteq started'
    <3>1. ASSUME NEW n \in Node, NEW p \in Node, PacketGiveToken(n, p) PROVE started' = started
      BY <3>1 DEF PacketGiveToken, TakeSystemToken, TakeMonitorToken, nodeVars
    <3>2. ASSUME NEW n \in Node, NEW p \in Node, HandleConnect(n, p)
          PROVE  started \subseteq started'
      BY <3>2 DEF HandleConnect
    <3>3. ASSUME NEW n \in Node, NEW p \in Node,
                 PacketClusterHandshake(n, p) \/ PacketRequestToken(n, p)
          PROVE  started' = started
      BY <3>3 DEF PacketClusterHandshake, PacketRequestToken, nodeVars
    <3>4. ASSUME NEW n \in Node, NEW p \in Node, CrashInHandshake(n, p) \/ Disconnect(n, p)
          PROVE  started' = started
      BY <3>4 DEF CrashInHandshake, Disconnect, nodeVars
    <3>5. ASSUME NEW n \in Node, NEW m \in Monitor,
                 HandleNew(n, m) \/ RequestLock(n, m) \/ TakeGrant(n, m) \/ RequestUnlock(n, m)
          PROVE  started' = started
      BY <3>5 DEF HandleNew, RequestLock, TakeGrant, RequestUnlock, nodeVars
    <3>6. CASE UNCHANGED vars
      BY <3>6 DEF vars, nodeVars
    <3> QED
      BY <3>1, <3>2, <3>3, <3>4, <3>5, <3>6 DEF Next, Handle
  <2> QED
    BY <1>1, <2>1 DEF Made
<1>2. CASE t # SysToken
  <2>1. t \in Monitor /\ Accounted(t)
    BY <1>2 DEF Token, Made
  <2>2. net' \in Channels
    BY DEF IInv, TypeOK, Channels
  <2>3. Accounted(t)'
    BY <2>1, <2>2, NextAccounted
  <2> QED
    BY <1>2, <2>3 DEF Made
<1> QED
  BY <1>1, <1>2

LEMMA RightQuiet ==
    ASSUME IInv, IInv', NEW t \in Token, Right(t), Steady(t), Made(t) => Made(t)', NoneSent,
           \A k \in Node : t \in Held(k)' =>
              t \in Held(k) /\ (t \notin locked'[k] => t \notin locked[k])
    PROVE  Right(t)'
<1>1. net' \in Channels
  BY DEF IInv, TypeOK, Channels
<1>2. \A a, b \in Node : \A i \in Nat :
         Carries(net', a, b, i, t) => Earlier(a, b, t, net'[a][b][i])
  BY <1>1, NoneSentOrigin
<1> QED
  BY <1>2, RightKept

LEMMA RightCalm ==
    ASSUME IInv, IInv', [Next]_vars, \A t \in Token : Right(t) /\ Steady(t), NoneSent,
           \A k \in Node : Held(k)' \subseteq Held(k) /\ locked[k] \subseteq locked'[k]
    PROVE  \A t \in Token : Right(t)'
<1> SUFFICES ASSUME NEW t \in Token PROVE Right(t)'
  OBVIOUS
<1>1. Made(t) => Made(t)'
  BY NextMade
<1> QED
  BY <1>1, RightQuiet

LEMMA CalmActionsNumbers ==
    ASSUME IInv, IInv', [Next]_vars, Asking, Young, Bounded, Few, Truthful,
           \A t \in Token : Right(t), NEW n \in Node, NEW p \in Node,
           PacketClusterHandshake(n, p) \/ CrashInHandshake(n, p) \/ Disconnect(n, p)
    PROVE  Bounded' /\ Truthful' /\ \A t \in Token : Right(t)'
<1>1. TypeOK /\ TypeOK' /\ Honest(net, Last)
  BY DEF IInv, Truthful
<1>2. Bounded' /\ Truthful' /\ \A t \in Token : Steady(t)
  <2>1. CASE PacketClusterHandshake(n, p)
    BY <2>1, PacketClusterHandshakeSteady
  <2>2. CASE CrashInHandshake(n, p) \/ Disconnect(n, p)
    <3>1. Unmoved /\ Honest(net', Last)
      BY <1>1, <2>2, UnmovedActions
    <3> QED
      BY <1>1, <3>1, UnmovedSteady
  <2> QED
    BY <2>1, <2>2
<1>3. NoneSent
  BY <1>1, QuietActions
<1>4. owned \in [Node -> SUBSET Token] /\ locked \in [Node -> SUBSET Token]
  BY <1>1 DEF TypeOK
<1>5. /\ owned' = owned
      /\ locked' = locked \/ \E G \in SUBSET owned[n] : locked' = [locked EXCEPT ![n] = @ \cup G]
  <2>1. CASE PacketClusterHandshake(n, p)
    <3>1. owned' = owned
      BY <2>1 DEF PacketClusterHandshake
    <3> DEFINE due == pendingGrants[n] \cap public[n] \cap owned[n]
    <3>2. locked' = locked \/ \E G \in GrantOutcomes(due) : Grant(n, G)
      BY <2>1 DEF PacketClusterHandshake
    <3>3. \A G \in GrantOutcomes(due) : G \in SUBSET due
      BY DEF GrantOutcomes
    <3>4. due \subseteq owned[n]
      OBVIOUS
    <3> HIDE DEF due
    <3> QED
      BY <3>1, <3>2, <3>3, <3>4 DEF Grant
  <2>2. CASE CrashInHandshake(n, p) \/ Disconnect(n, p)
    BY <2>2 DEF CrashInHandshake, Disconnect, tokenVars
  <2> QED
    BY <2>1, <2>2
<1>6. \A k \in Node : Held(k)' \subseteq Held(k) /\ locked[k] \subseteq locked'[k]
  BY <1>4, <1>5 DEF Held
<1> QED
  BY <1>2, <1>3, <1>6, RightCalm

LEMMA RequestLockNumbers ==
    ASSUME IInv, IInv', [Next]_vars, Bounded, Few, Truthful,
           \A t \in Token : Right(t), NEW n \in Node, NEW m \in Monitor, RequestLock(n, m)
    PROVE  Bounded' /\ Truthful' /\ \A t \in Token : Right(t)'
<1>1. TypeOK
  BY DEF IInv
<1>2. Bounded' /\ Truthful' /\ \A t \in Token : Steady(t)
  BY RequestLockSteady
<1>3. NoneSent
  BY <1>1, QuietCalls
<1>4. /\ owned \in [Node -> SUBSET Token] /\ locked \in [Node -> SUBSET Token]
      /\ owned' = owned
      /\ locked' = locked \/ (m \in owned[n] /\ locked' = [locked EXCEPT ![n] = @ \cup {m}])
  <2>1. CASE m \notin locked[n] /\ n \in startedCluster /\ m \in owned[n]
    BY <1>1, <2>1 DEF RequestLock, TypeOK
  <2>2. CASE ~(m \notin locked[n] /\ n \in startedCluster /\ m \in owned[n])
    <3>1. locked' = locked
      BY <2>2 DEF RequestLock
    <3> QED
      BY <1>1, <3>1 DEF RequestLock, TypeOK
  <2> QED
    BY <2>1, <2>2
<1>5. \A k \in Node : Held(k)' \subseteq Held(k) /\ locked[k] \subseteq locked'[k]
  BY <1>4 DEF Held
<1> QED
  BY <1>2, <1>3, <1>5, RightCalm

LEMMA IdleNumbers ==
    ASSUME IInv, IInv', [Next]_vars, Bounded, Truthful, \A t \in Token : Right(t),
           Unmoved, Honest(net', Last), NoneSent, UNCHANGED <<owned, locked>>
    PROVE  Bounded' /\ Truthful' /\ \A t \in Token : Right(t)'
<1>1. TypeOK /\ TypeOK'
  BY DEF IInv
<1>2. Bounded' /\ Truthful' /\ \A t \in Token : Steady(t)
  BY <1>1, UnmovedSteady
<1>3. \A k \in Node : Held(k)' \subseteq Held(k) /\ locked[k] \subseteq locked'[k]
  BY DEF Held
<1> QED
  BY <1>2, <1>3, RightCalm

LEMMA TakeGrantNumbers ==
    ASSUME IInv, IInv', [Next]_vars, Bounded, Truthful, \A t \in Token : Right(t),
           NEW n \in Node, NEW m \in Monitor, TakeGrant(n, m)
    PROVE  Bounded' /\ Truthful' /\ \A t \in Token : Right(t)'
<1>1. NoneSent
  BY QuietCalls DEF IInv
<1>2. Unmoved /\ UNCHANGED <<net, owned, locked>>
  BY DEF TakeGrant, Unmoved, nodeVars, tokenVars, pendingVars
<1>3. Honest(net', Last)
  BY <1>2 DEF Truthful
<1> QED
  BY <1>1, <1>2, <1>3, IdleNumbers

\* Node 0 makes the system token: everybody's number is still zero, or it waits.
LEMMA HandleConnectNumbers ==
    ASSUME IInv, IInv', [Next]_vars, Meeting, Asking, Bounded, Truthful,
           \A t \in Token : Right(t), NEW n \in Node, NEW p \in Node, HandleConnect(n, p)
    PROVE  Bounded' /\ Truthful' /\ \A t \in Token : Right(t)'
<1>1. /\ TypeOK /\ TypeOK' /\ Honest(net, Last) /\ SysToken \in Token
      /\ owned \in [Node -> SUBSET Token]
  BY DEF IInv, Truthful, TypeOK, Token
<1>2. Unmoved /\ Honest(net', Last)
  BY <1>1, UnmovedActions
<1>3. Bounded' /\ Truthful' /\ \A t \in Token : Steady(t)
  BY <1>1, <1>2, UnmovedSteady
<1>4. NoneSent
  BY <1>1, QuietActions
<1>5. locked' = locked
  BY DEF HandleConnect
<1>6. CASE owned' = owned
  BY <1>2, <1>4, <1>5, <1>6, IdleNumbers
<1>7. CASE owned' # owned
  <2>1. /\ n = 0 /\ n \notin started /\ owned' = [owned EXCEPT ![n] = @ \cup {SysToken}]
    BY <1>1, <1>7 DEF HandleConnect
  <2>2. ASSUME NEW t \in Token, t # SysToken PROVE Right(t)'
    <3>1. \A k \in Node : t \in Held(k)' => t \in Held(k)
      BY <1>1, <1>5, <2>1, <2>2 DEF Held
    <3>2. Made(t) => Made(t)'
      BY NextMade
    <3> QED
      BY <1>3, <1>4, <1>5, <3>1, <3>2, RightQuiet
  <2>3. Pristine(SysToken)
    BY <1>1, <2>1 DEF Right, Made
  <2>4. Unasked(n, SysToken)
    BY <1>1, <2>1 DEF Meeting, Asking, May
  <2>5. Owns(SysToken)' = Owns(SysToken) /\ Waiting(SysToken)' = Waiting(SysToken) /\ alg' = alg
    BY <1>2 DEF Unmoved, Owns, Waiting
  <2>6. Owns(SysToken)[n] = 0
    BY <2>4 DEF Owns, Unasked, Fresh
  <2>7. alg[n][SysToken].ln = NoneServed /\ alg[n][SysToken].queue = <<>> /\ NoneServed[n] = 0
    BY <2>3 DEF Pristine, NoneServed
  <2>8. Fits(Owns(SysToken), Waiting(SysToken), NoneServed, <<>>, {n})
    BY <2>3 DEF Pristine, Fits
  <2>9. Holding(SysToken, n)'
    BY <2>5, <2>6, <2>7, <2>8 DEF Holding
  <2>10. SysToken \in Held(n)'
    BY <1>1, <2>1 DEF Held
  <2>11. Right(SysToken)'
    BY <1>1, <2>9, <2>10, RightAt
  <2> QED
    BY <1>3, <2>2, <2>11
<1> QED
  BY <1>6, <1>7

\* A node decides that the monitor is new and makes its token.
LEMMA HandleNewNumbers ==
    ASSUME IInv, IInv', [Next]_vars, Meeting, Asking, Bounded, Few, Truthful,
           \A t \in Token : Right(t), NEW n \in Node, NEW m \in Monitor, HandleNew(n, m)
    PROVE  Bounded' /\ Truthful' /\ \A t \in Token : Right(t)'
<1>1. /\ TypeOK /\ TypeOK' /\ m \in Token /\ m # SysToken
      /\ owned \in [Node -> SUBSET Token] /\ locked' = locked
  <2>1. m \in Token /\ m # SysToken
    BY MonitorAssumption DEF Token
  <2>2. TypeOK /\ TypeOK'
    BY DEF IInv
  <2>3. locked' = locked
    BY DEF HandleNew
  <2> QED
    BY <2>1, <2>2, <2>3 DEF TypeOK
<1>2. Bounded' /\ Truthful' /\ \A t \in Token : Steady(t)
  BY HandleNewSteady
<1>3. NoneSent
  BY <1>1, QuietCalls
<1>4. CASE owned' = owned
  <2>1. \A k \in Node : Held(k)' \subseteq Held(k) /\ locked[k] \subseteq locked'[k]
    BY <1>1, <1>4 DEF Held
  <2> QED
    BY <1>2, <1>3, <2>1, RightCalm
<1>5. CASE owned' # owned
  <2>1. /\ m \notin private[n] /\ m \notin public[n] /\ Adopts(n, m)
        /\ owned' = [owned EXCEPT ![n] = @ \cup {m}]
        /\ UNCHANGED <<alg, pendingRequests, pendingGrants, startedCluster>>
    <3>1. /\ m \notin private[n]
          /\ owned' = [owned EXCEPT ![n] = IF Adopts(n, m) THEN @ \cup {m} ELSE @]
      BY <1>5 DEF HandleNew
    <3>2. Adopts(n, m)
      BY <1>1, <1>5, <3>1
    <3> QED
      BY <3>1, <3>2 DEF HandleNew, nodeVars
  <2>2. ASSUME NEW t \in Token, t # m PROVE Right(t)'
    <3>1. \A k \in Node : t \in Held(k)' => t \in Held(k)
      BY <1>1, <2>1, <2>2 DEF Held
    <3>2. Made(t) => Made(t)'
      BY NextMade
    <3> QED
      BY <1>1, <1>2, <1>3, <3>1, <3>2, RightQuiet
  <2>3. ~Made(m)
    <3>1. CASE n \in started
      <4>1. m \notin known[n] /\ SysToken \in owned[n]
        BY <2>1, <3>1 DEF Adopts, Exists
      <4>2. 0 \in started
        BY <4>1 DEF IInv, OneCarrier, BeforeStart, Carried, Held
      <4> QED
        BY <1>1, <4>1, <4>2 DEF Made, Accounted, KnownEverywhere
    <3>2. CASE n \notin started
      BY <1>1, <2>1, <3>2 DEF Adopts, Made, Accounted
    <3> QED
      BY <3>1, <3>2
  <2>4. Pristine(m)
    BY <1>1, <2>3 DEF Right
  <2>5. Owns(m)' = Owns(m) /\ Waiting(m)' = Waiting(m) /\ alg' = alg
    BY <2>1 DEF Owns, Waiting
  <2>6. Owns(m)[n] = 0
    <3>1. Unasked(n, m)
      BY <1>1, <2>1 DEF Asking, May
    <3> QED
      BY <3>1 DEF Owns, Unasked, Fresh
  <2>7. alg[n][m].ln = NoneServed /\ alg[n][m].queue = <<>> /\ NoneServed[n] = 0
    BY <2>4 DEF Pristine, NoneServed
  <2>8. Fits(Owns(m), Waiting(m), NoneServed, <<>>, {n})
    BY <2>4 DEF Pristine, Fits
  <2>9. Holding(m, n)'
    BY <2>5, <2>6, <2>7, <2>8 DEF Holding
  <2>10. m \in Held(n)'
    BY <1>1, <2>1 DEF Held
  <2>11. Right(m)'
    BY <1>1, <2>9, <2>10, RightAt
  <2> QED
    BY <1>2, <2>2, <2>11
<1> QED
  BY <1>4, <1>5

\* The token of a monitor arrives at a node that waits for it.
LEMMA TakeMonitorTokenNumbers ==
    ASSUME IInv, IInv', [Next]_vars, Asking, Bounded, Truthful, \A t \in Token : Right(t),
           NEW n \in Node, NEW p \in Node, Arrives(n, p, "GiveToken"),
           NEW msg, msg = Head(net[p][n]), msg.token # SysToken, TakeMonitorToken(n, p, msg)
    PROVE  Bounded' /\ Truthful' /\ \A t \in Token : Right(t)'
<1> DEFINE m == msg.token
<1>1. /\ TypeOK /\ TypeOK' /\ net \in Channels /\ Honest(net, Last)
      /\ owned \in [Node -> SUBSET Token] /\ locked \in [Node -> SUBSET Token]
      /\ pendingGrants \in [Node -> SUBSET Monitor]
      /\ pendingRequests \in [Node -> SUBSET Token]
      /\ alg \in [Node -> [Token -> Alg]]
  <2>1. TypeOK /\ TypeOK' /\ Honest(net, Last)
    BY DEF IInv, Truthful
  <2> QED
    BY <2>1 DEF TypeOK, Channels
<1>2. /\ msg \in Message /\ msg.type = "GiveToken" /\ m \in Monitor /\ m \in Token
      /\ net[p][n] # <<>> /\ May(n, m) /\ m # SysToken
      /\ msg.ln \in [Node -> RequestNumber] /\ msg.queue \in Seq(Node)
  BY <1>1, ArrivesWanted, MessageFields DEF Token, Arrives
<1>3. n \in startedCluster /\ m \in public[n]
  BY <1>2 DEF May
<1>4. /\ owned' = [owned EXCEPT ![n] = @ \cup {m}]
      /\ pendingRequests' = [pendingRequests EXCEPT ![n] = @ \ {m}]
      /\ alg' = [alg EXCEPT ![n][m] = LoadProperties(@, msg.ln, msg.queue)]
      /\ Grant(n, Grantable(n, {m})) /\ net' = Received(n, p)
      /\ UNCHANGED <<startedCluster, public, locks>>
  BY DEF TakeMonitorToken, nodeVars
<1>5. /\ Carries(net, p, n, 1, m) /\ net[p][n][1] = msg
      /\ \A k \in Node : m \notin Held(k)
      /\ \A a, b \in Node : \A i \in Nat : ~Carries(net', a, b, i, m)
  <2>1. OneCarrierOf(m) /\ Gives(Head(net[p][n]), m)
    BY <1>2 DEF IInv, OneCarrier, Gives
  <2>2. Received(n, p) \in Channels /\ Follows(Received(n, p), net, Took(p, n))
    BY <1>1, <1>2, ReceivedType, FollowsReceived
  <2> QED
    BY <1>1, <1>2, <1>4, <2>1, <2>2, TakenIsGone
<1>6. Coming(m, n, msg)
  BY <1>2, <1>5 DEF Right
<1> HIDE DEF m
<1>7. /\ \A t \in Token : \A k \in Node :
            /\ alg'[k][t].rn = alg[k][t].rn
            /\ (t # m => alg'[k][t] = alg[k][t])
      /\ alg'[n][m].ln = msg.ln /\ alg'[n][m].queue = msg.queue
  <2>1. alg[n][m] \in Alg
    BY <1>1, <1>2
  <2>2. LET next == LoadProperties(alg[n][m], msg.ln, msg.queue)
        IN  next.rn = alg[n][m].rn /\ next.ln = msg.ln /\ next.queue = msg.queue
    BY <2>1 DEF LoadProperties, Alg
  <2> DEFINE next == LoadProperties(alg[n][m], msg.ln, msg.queue)
  <2>3. alg' = [alg EXCEPT ![n][m] = next]
    BY <1>4
  <2> HIDE DEF next
  <2>4. /\ alg'[n][m] = next
        /\ \A t \in Token : \A k \in Node : k # n \/ t # m => alg'[k][t] = alg[k][t]
    BY <1>1, <1>2, <2>3
  <2> QED
    BY <2>2, <2>4 DEF next
<1>8. \A t \in Token : Owns(t)' = Owns(t)
  BY <1>7 DEF Owns
<1>9. Last' = Last
  BY <1>8 DEF Last
<1>10. Truthful'
  <2>1. Honest(Received(n, p), Last)
    BY <1>1, <1>2, HonestReceived
  <2>2. \A t \in Token : \A j, k \in Node : alg'[j][t].rn[k] <= Last[t][k]
    BY <1>7 DEF Truthful
  <2> QED
    BY <1>4, <1>9, <2>1, <2>2 DEF Truthful
<1>11. /\ pendingGrants'[n] = pendingGrants[n] \ {m}
       /\ pendingRequests'[n] = pendingRequests[n] \ {m}
       /\ \A k \in Node \ {n} : /\ pendingGrants'[k] = pendingGrants[k]
                                /\ pendingRequests'[k] = pendingRequests[k]
       /\ locked'[n] = locked[n] \cup ({m} \cap pendingGrants[n])
       /\ \A k \in Node \ {n} : locked'[k] = locked[k]
  <2>1. Grantable(n, {m}) = {m} \cap pendingGrants[n]
    BY <1>3 DEF Grantable, m
  <2> QED
    BY <1>1, <1>4, <2>1 DEF Grant
<1>12. Bounded'
  <2> SUFFICES ASSUME NEW k \in Node PROVE BoundedAt(k)'
    BY DEF Bounded
  <2>1. \A t \in Token : alg'[k][t].rn[k] = alg[k][t].rn[k]
    BY <1>7
  <2>2. SysToken \in Token /\ Monitor \subseteq Token
    BY DEF Token
  <2>3. \A o \in Monitor : o \in pendingGrants'[k] \ pendingRequests'[k] =>
                              o \in pendingGrants[k] \ pendingRequests[k]
    BY <1>11
  <2>4. SysToken \in pendingRequests'[k] => SysToken \in pendingRequests[k]
    BY <1>11
  <2>5. BoundedAt(k)
    BY DEF Bounded
  <2> QED
    BY <1>4, <2>1, <2>2, <2>3, <2>4, <2>5 DEF BoundedAt
<1>13. ASSUME NEW t \in Token, NEW k \in Node, t # m \/ k # n, k \in Waiting(t)
       PROVE  k \in Waiting(t)'
  BY <1>4, <1>11, <1>13 DEF Waiting
<1>14. ASSUME NEW t \in Token, t # m PROVE Right(t)'
  <2>1. Steady(t)
    BY <1>7, <1>8, <1>13, <1>14 DEF Steady, Goes, SameRecord
  <2>2. NoneSent
    BY <1>1, <1>4, TakeMonitorTokenSends
  <2>3. ASSUME NEW k \in Node, t \in Held(k)'
        PROVE  t \in Held(k) /\ (t \notin locked'[k] => t \notin locked[k])
    BY <1>1, <1>4, <1>11, <1>14, <2>3 DEF Held
  <2>4. Made(t) => Made(t)'
    BY NextMade
  <2> QED
    BY <2>1, <2>2, <2>3, <2>4, RightQuiet
<1>15. Right(m)'
  <2>1. /\ Fits(Owns(m), Waiting(m), msg.ln, msg.queue, {})
        /\ n \notin QueueRange(msg.queue) /\ Owns(m)[n] = msg.ln[n] + 1
    BY <1>6 DEF Coming
  <2>2. n \in Waiting(m)
    BY <2>1 DEF Fits
  <2>3. m \in locked'[n]
    BY <1>2, <1>11, <2>2 DEF Waiting
  <2>4. \A i \in DOMAIN msg.queue : msg.queue[i] # n
    BY <2>1 DEF QueueRange
  <2>5. Fits(Owns(m)', Waiting(m)', msg.ln, msg.queue, {n})
    BY <1>2, <1>8, <1>13, <2>1, <2>4 DEF Fits
  <2>6. Holding(m, n)'
    BY <1>7, <2>3, <2>5 DEF Holding
  <2>7. m \in Held(n)'
    BY <2>3 DEF Held
  <2> QED
    BY <1>2, <2>6, <2>7, RightAt
<1> QED
  BY <1>10, <1>12, <1>14, <1>15

-----------------------------------------------------------------------------
(* Steps in which a token leaves.                                           *)

SentTo(v, n, d, msg) == net' = Post(v, n, {d}, <<msg>>)

LEMMA CarriesPosted ==
    ASSUME NEW v \in Channels, NEW n \in Node, NEW peers, NEW msg \in Message,
           NEW msgs \in Seq(Message), DOMAIN msgs = {1}, msgs[1] = msg,
           NEW a \in Node, NEW b \in Node, NEW i \in Nat, NEW t,
           Carries(Post(v, n, peers, msgs), a, b, i, t)
    PROVE  \/ Carries(v, a, b, i, t) /\ Post(v, n, peers, msgs)[a][b][i] = v[a][b][i]
           \/ a = n /\ b \in peers /\ Gives(msg, t) /\ Post(v, n, peers, msgs)[a][b][i] = msg
<1>1. PICK w : w = Post(v, n, peers, msgs)
  OBVIOUS
<1>2. i \in DOMAIN w[a][b] /\ Gives(w[a][b][i], t)
  BY <1>1 DEF Carries
<1>3. \/ i \in DOMAIN v[a][b] /\ w[a][b][i] = v[a][b][i]
      \/ /\ a = n /\ b \in peers
         /\ i - Len(v[a][b]) \in DOMAIN msgs
         /\ w[a][b][i] = msgs[i - Len(v[a][b])]
  BY <1>1, <1>2, PostIndex
<1> QED
  BY <1>1, <1>2, <1>3 DEF Carries

LEMMA SentOrigin ==
    ASSUME NEW v \in Channels, NEW n \in Node, NEW d \in Node, NEW msg \in Message,
           SentTo(v, n, d, msg),
           NEW a \in Node, NEW b \in Node, NEW i \in Nat, NEW t, Carries(net', a, b, i, t)
    PROVE  Carries(v, a, b, i, t) \/ (b = d /\ net'[a][b][i] = msg)
<1>1. PICK msgs : msgs = <<msg>>
  OBVIOUS
<1>2. PICK peers : peers = {d}
  OBVIOUS
<1>3. msgs \in Seq(Message) /\ DOMAIN msgs = {1} /\ msgs[1] = msg
  BY <1>1
<1>4. net' = Post(v, n, peers, msgs)
  BY <1>1, <1>2 DEF SentTo
<1>5. Carries(Post(v, n, peers, msgs), a, b, i, t)
  BY <1>4
<1>6. \/ Carries(v, a, b, i, t) /\ Post(v, n, peers, msgs)[a][b][i] = v[a][b][i]
      \/ a = n /\ b \in peers /\ Gives(msg, t) /\ Post(v, n, peers, msgs)[a][b][i] = msg
  BY <1>3, <1>5, CarriesPosted, Z3
<1> QED
  BY <1>2, <1>4, <1>6

\* What is sent is the only packet with the token.
LEMMA OnlySent ==
    ASSUME NEW v \in Channels, NEW n \in Node, NEW d \in Node, NEW msg \in Message,
           SentTo(v, n, d, msg), NEW t,
           \A a, b \in Node : \A i \in Nat : ~Carries(v, a, b, i, t)
    PROVE  \A a, b \in Node : \A i \in Nat :
              Carries(net', a, b, i, t) => b = d /\ net'[a][b][i] = msg
  BY SentOrigin

\* The other tokens take no notice.
LEMMA RightOther ==
    ASSUME IInv, IInv', [Next]_vars, NEW t \in Token, Right(t), Steady(t),
           NEW n \in Node, NEW msg \in Message, Sends(n, msg), msg.token # t,
           \A k \in Node : t \in Held(k)' =>
              t \in Held(k) /\ (t \notin locked'[k] => t \notin locked[k])
    PROVE  Right(t)'
<1>1. \A a, b \in Node : \A i \in Nat :
         Carries(net', a, b, i, t) => Earlier(a, b, t, net'[a][b][i])
  BY SendsOrigin DEF Gives
<1>2. Made(t) => Made(t)'
  BY NextMade
<1> QED
  BY <1>1, <1>2, RightKept

\* Monitor::unlock: release tells who is next.
LEMMA RequestUnlockNumbers ==
    ASSUME IInv, IInv', [Next]_vars, Bounded, Few, Truthful, \A t \in Token : Right(t),
           NEW n \in Node, NEW m \in Monitor, RequestUnlock(n, m)
    PROVE  Bounded' /\ Truthful' /\ \A t \in Token : Right(t)'
<1>1. /\ TypeOK /\ TypeOK' /\ m \in Token /\ m # SysToken
      /\ net \in Channels /\ Honest(net, Last) /\ alg \in [Node -> [Token -> Alg]]
      /\ owned \in [Node -> SUBSET Token] /\ locked \in [Node -> SUBSET Token]
  <2>1. TypeOK /\ TypeOK' /\ Honest(net, Last)
    BY DEF IInv, Truthful
  <2>2. m \in Token /\ m # SysToken
    BY MonitorAssumption DEF Token
  <2> QED
    BY <2>1, <2>2 DEF TypeOK, Channels
<1>2. UNCHANGED <<locks, public, pendingRequests, pendingGrants, startedCluster>>
  BY DEF RequestUnlock, nodeVars, pendingVars
<1>3. CASE m \notin private[n] \/ m \notin locked[n]
  <2>1. Unmoved /\ UNCHANGED <<owned, locked, net>>
    BY <1>2, <1>3 DEF RequestUnlock, Unmoved
  <2>2. NoneSent /\ Honest(net', Last)
    BY <1>1, <2>1, FollowsSelf DEF NoneSent
  <2> QED
    BY <2>1, <2>2, IdleNumbers
<1>4. CASE m \in private[n] /\ m \in locked[n]
  <2> DEFINE a == alg[n][m]
  <2>1. PICK after \in Released(a, n) :
           /\ locked' = [locked EXCEPT ![n] = @ \ {m}]
           /\ IF after.queue = <<>>
              THEN /\ alg' = [alg EXCEPT ![n][m] = after]
                   /\ UNCHANGED <<owned, net>>
              ELSE /\ alg' = [alg EXCEPT ![n][m] = Popped(after)]
                   /\ owned' = [owned EXCEPT ![n] = @ \ {m}]
                   /\ net' = Post(net, n, {Head(after.queue)},
                                  <<TokenMsg(n, m, Popped(after))>>)
    BY <1>4 DEF RequestUnlock
  <2>2. m \in Held(n) /\ Holding(m, n)
    BY <1>1, <1>4 DEF Held, Right
  <2>3. /\ a \in Alg /\ Owns(m) \in Numbers /\ Low(Owns(m))
        /\ \A k \in Node : a.rn[k] <= Owns(m)[k]
        /\ a.rn[n] = Owns(m)[n]
    BY <1>1, OwnsType, LowOwns DEF Truthful, Last
  <2>4. Fits(Owns(m), Waiting(m), a.ln, a.queue, {n})
    BY <2>2 DEF Holding
  <2>5. /\ after \in Alg /\ after.ln[n] = Owns(m)[n]
        /\ Fits(Owns(m), Waiting(m), after.ln, after.queue, {})
        /\ after.queue # <<>> =>
              /\ Head(after.queue) \in Node /\ Popped(after) \in Alg
              /\ Fits(Owns(m), Waiting(m), Popped(after).ln, Popped(after).queue, {})
              /\ Head(after.queue) \notin QueueRange(Popped(after).queue)
              /\ Owns(m)[Head(after.queue)] = Popped(after).ln[Head(after.queue)] + 1
    <3> DEFINE own == Owns(m)
               w == Waiting(m)
    <3>1. /\ a \in Alg /\ own \in Numbers /\ Low(own)
          /\ \A k \in Node : a.rn[k] <= own[k]
          /\ a.rn[n] = own[n]
      BY <2>3
    <3>2. FitsAt(own, w, a.ln, a.queue, n) /\ after \in Released(a, n)
      BY <2>1, <2>4 DEF FitsAt
    <3> HIDE DEF a, own, w
    <3>3. /\ after \in Alg /\ after.ln[n] = own[n]
          /\ FitsAll(own, w, after.ln, after.queue)
          /\ after.queue # <<>> =>
                /\ Head(after.queue) \in Node /\ Popped(after) \in Alg
                /\ FitsAll(own, w, Popped(after).ln, Popped(after).queue)
                /\ Head(after.queue) \notin QueueRange(Popped(after).queue)
                /\ own[Head(after.queue)] = Popped(after).ln[Head(after.queue)] + 1
      BY <3>1, <3>2, FitsReleased
    <3> QED
      BY <3>3 DEF own, w, FitsAll
  <2>6. after.rn = a.rn /\ (after.queue # <<>> => Popped(after).rn = after.rn)
    <3>1. Single(a.queue)
      BY <2>4 DEF Fits
    <3> HIDE DEF a
    <3> QED
      BY <2>1, <2>3, <2>5, <3>1, ReleasedQueue DEF Popped, Alg
  <2> HIDE DEF a
  <2>7. PICK kept \in Alg : /\ alg' = [alg EXCEPT ![n][m] = kept] /\ kept.rn = a.rn
                            /\ kept = IF after.queue = <<>> THEN after ELSE Popped(after)
    BY <2>1, <2>5, <2>6
  <2>8. /\ alg'[n][m] = kept
        /\ \A t \in Token : \A k \in Node :
              /\ alg'[k][t].rn = alg[k][t].rn
              /\ k # n \/ t # m => alg'[k][t] = alg[k][t]
    <3>1. alg'[n][m] = kept
      BY <1>1, <2>7
    <3>2. \A t \in Token : \A k \in Node : k # n \/ t # m => alg'[k][t] = alg[k][t]
      BY <1>1, <2>7
    <3> QED
      BY <2>7, <3>1, <3>2 DEF a
  <2>9. \A t \in Token : Owns(t)' = Owns(t) /\ Waiting(t)' = Waiting(t)
    BY <1>2, <2>8 DEF Owns, Waiting
  <2>10. Last' = Last
    BY <2>9 DEF Last
  <2> DEFINE give == TokenMsg(n, m, Popped(after))
             d == Head(after.queue)
  <2>11. after.queue # <<>> =>
            /\ give \in Message /\ give.type = "GiveToken" /\ give.token = m
            /\ give.ln = Popped(after).ln /\ give.queue = Popped(after).queue
    <3> SUFFICES ASSUME after.queue # <<>>
                 PROVE  /\ give \in Message /\ give.type = "GiveToken" /\ give.token = m
                        /\ give.ln = Popped(after).ln /\ give.queue = Popped(after).queue
      OBVIOUS
    <3>1. known[n] \in SUBSET Monitor /\ data[n][m] \in Nat
      BY <1>1 DEF TypeOK
    <3>2. give \in Message
      BY <1>1, <2>5, <3>1, TokenMsgType
    <3> QED
      BY <1>1, <3>2 DEF TokenMsg, GiveTokenMsg
  <2>12. after.queue # <<>> =>
            net' = Post(net, n, {d}, <<give>>) /\ d \in Node /\ SentTo(net, n, d, give)
    BY <2>1, <2>5 DEF SentTo
  <2> HIDE DEF give, d
  <2>13. Honest(net', Last)
    BY <1>1, <2>1, <2>11, <2>12, HonestSend
  <2>14. Truthful'
    BY <2>8, <2>10, <2>13 DEF Truthful
  <2>15. Bounded'
    <3> SUFFICES ASSUME NEW k \in Node PROVE BoundedAt(k)'
      BY DEF Bounded
    <3>1. SysToken \in Token /\ Monitor \subseteq Token
      BY DEF Token
    <3>2. BoundedAt(k)
      BY DEF Bounded
    <3> QED
      BY <1>2, <2>8, <3>1, <3>2 DEF BoundedAt
  <2>16. \A k \in Node : /\ owned'[k] \subseteq owned[k] /\ locked'[k] \subseteq locked[k]
                         /\ locked[k] \subseteq locked'[k] \cup {m}
    BY <1>1, <2>1
  <2>17. ASSUME NEW t \in Token, t # m PROVE Right(t)'
    <3>1. Steady(t)
      BY <2>8, <2>9, <2>17 DEF Steady, Goes, SameRecord
    <3>2. ASSUME NEW k \in Node, t \in Held(k)'
          PROVE  t \in Held(k) /\ (t \notin locked'[k] => t \notin locked[k])
      BY <2>16, <2>17, <3>2 DEF Held
    <3>3. CASE after.queue = <<>>
      <4>1. NoneSent
        BY <1>1, <2>1, <3>3, FollowsSelf DEF NoneSent
      <4>2. Made(t) => Made(t)'
        BY NextMade
      <4> QED
        BY <3>1, <3>2, <4>1, <4>2, RightQuiet
    <3>4. CASE after.queue # <<>>
      <4>1. Sends(n, give)
        BY <1>1, <2>12, <3>4, FollowsSelf DEF Sends
      <4> QED
        BY <2>11, <2>17, <3>1, <3>2, <3>4, <4>1, RightOther
    <3> QED
      BY <3>3, <3>4
  <2>18. OneCarrierOf(m)
    BY <1>1 DEF IInv, OneCarrier
  <2>19. Made(m)'
    <3>1. Made(m)
      BY <1>1, <2>2, PlacedIsMade DEF Carried
    <3> QED
      BY <1>1, <3>1, NextMade
  <2>20. Right(m)'
    <3>1. CASE after.queue = <<>> /\ m \in Held(n)'
      <4>1. Fits(Owns(m)', Waiting(m)', after.ln, after.queue, {n})
        BY <1>1, <2>5, <2>9, <3>1 DEF Fits
      <4>2. Owns(m)'[n] = after.ln[n]
        BY <1>1, <2>5, <2>9
      <4>3. alg'[n][m] = after
        BY <2>7, <2>8, <3>1
      <4>4. Holding(m, n)'
        BY <3>1, <4>1, <4>2, <4>3 DEF Holding
      <4> QED
        BY <1>1, <3>1, <4>4, RightAt
    <3>2. CASE after.queue = <<>> /\ m \notin Held(n)'
      <4>1. \A k \in Node : m \notin Held(k)'
        BY <2>2, <2>16, <2>18, <3>2 DEF Held, OneCarrierOf
      <4>2. \A a1, b1 \in Node : \A i \in Nat : ~Carries(net', a1, b1, i, m)
        BY <2>1, <2>2, <2>18, <3>2 DEF OneCarrierOf
      <4> QED
        BY <2>19, <4>1, <4>2 DEF Right
    <3>3. CASE after.queue # <<>>
      <4>1. \A k \in Node : m \notin Held(k)'
        <5>1. m \notin owned'[n] /\ m \notin locked'[n]
          BY <1>1, <2>1, <3>3
        <5> QED
          BY <2>2, <2>16, <2>18, <5>1 DEF Held, OneCarrierOf
      <4>2. \A a1, b1 \in Node : \A i \in Nat : ~Carries(net, a1, b1, i, m)
        BY <2>2, <2>18 DEF OneCarrierOf
      <4>3. \A a1, b1 \in Node : \A i \in Nat :
               Carries(net', a1, b1, i, m) => b1 = d /\ net'[a1][b1][i] = give
        BY <1>1, <2>11, <2>12, <3>3, <4>2, OnlySent
      <4>4. /\ Fits(Owns(m)', Waiting(m)', give.ln, give.queue, {})
            /\ d \notin QueueRange(give.queue) /\ Owns(m)'[d] = give.ln[d] + 1
        BY <1>1, <2>5, <2>9, <2>11, <3>3 DEF d
      <4> QED
        BY <1>1, <2>12, <2>19, <3>3, <4>1, <4>3, <4>4, RightSent
    <3> QED
      BY <3>1, <3>2, <3>3
  <2> QED
    BY <2>14, <2>15, <2>17, <2>20
<1> QED
  BY <1>3, <1>4

\* A request arrives: what it says is true, and an owner that is not inside serves it.
LEMMA PacketRequestTokenNumbers ==
    ASSUME IInv, IInv', [Next]_vars, Bounded, Few, Truthful, \A t \in Token : Right(t),
           NEW n \in Node, NEW p \in Node, PacketRequestToken(n, p)
    PROVE  Bounded' /\ Truthful' /\ \A t \in Token : Right(t)'
<1>h. PICK head : head = Head(net[p][n])
  OBVIOUS
<1>o. PICK o : o = head.token
  OBVIOUS
<1>u. PICK updated : updated = UpdateRequestNumber(alg[n][o], p, head.number)
  OBVIOUS
<1>f. PICK first : first = Received(n, p)
  OBVIOUS
<1>g. PICK give : give = TokenMsg(n, o, updated)
  OBVIOUS
<1>1. /\ TypeOK /\ TypeOK' /\ net \in Channels /\ Honest(net, Last)
      /\ alg \in [Node -> [Token -> Alg]]
      /\ owned \in [Node -> SUBSET Token] /\ net[p][n] # <<>>
      /\ head.type = "RequestToken"
  <2>1. TypeOK /\ TypeOK' /\ Honest(net, Last)
    BY DEF IInv, Truthful
  <2> QED
    BY <1>h, <2>1 DEF TypeOK, Channels, PacketRequestToken, Arrives
<1>2. /\ head \in Message /\ first \in Channels /\ Honest(first, Last)
      /\ o \in Token /\ head.number \in RequestNumber
      /\ Follows(first, net, Took(p, n)) /\ Took(p, n) \in Offset
  <2>1. /\ head \in Message /\ first \in Channels /\ Honest(first, Last)
        /\ Follows(first, net, Took(p, n)) /\ Took(p, n) \in Offset
    BY <1>1, <1>f, <1>h, ReceivedType, HonestReceived, FollowsReceived
  <2> QED
    BY <1>1, <1>o, <2>1, MessageFields
<1>3. head.number <= Last[o][p]
  <2>1. net[p][n] \in Seq(Message)
    BY <1>1 DEF Channels
  <2>2. 1 \in DOMAIN net[p][n] /\ net[p][n][1] = head
    BY <1>1, <1>h, <2>1
  <2> QED
    BY <1>1, <1>o, <2>2 DEF Honest
<1>4. /\ UNCHANGED <<locks, public, pendingRequests, pendingGrants, startedCluster, locked>>
      /\ \/ net' = first /\ owned' = owned
         \/ /\ n \in started /\ Serves(n, o, p, updated) /\ alg' = [alg EXCEPT ![n][o] = updated]
            /\ owned' = [owned EXCEPT ![n] = @ \ {o}]
            /\ net' = Post(first, n, {p}, <<give>>)
      /\ alg' = alg \/ alg' = [alg EXCEPT ![n][o] = updated]
  <2>1. UNCHANGED <<locks, public, pendingRequests, pendingGrants, startedCluster, locked>>
    BY DEF PacketRequestToken, nodeVars, pendingVars, appVars
  <2>2. CASE n \notin started
    BY <1>f, <2>1, <2>2 DEF PacketRequestToken
  <2>3. CASE n \in started /\ Serves(n, o, p, updated)
    BY <1>f, <1>g, <1>h, <1>o, <1>u, <2>1, <2>3 DEF PacketRequestToken
  <2>4. CASE n \in started /\ ~Serves(n, o, p, updated)
    BY <1>f, <1>h, <1>o, <1>u, <2>1, <2>4 DEF PacketRequestToken
  <2> QED
    BY <2>2, <2>3, <2>4
<1>5. /\ updated \in Alg /\ updated.ln = alg[n][o].ln /\ updated.queue = alg[n][o].queue
      /\ \A k \in Node : /\ updated.rn[k] \in Nat /\ updated.rn[k] <= Last[o][k]
                         /\ k # p => updated.rn[k] = alg[n][o].rn[k]
      /\ p = n => updated.rn[n] = alg[n][o].rn[n]
  <2>1. /\ alg[n][o] \in Alg /\ \A k \in Node : alg[n][o].rn[k] <= Last[o][k]
        /\ Last[o][n] = alg[n][o].rn[n]
    BY <1>1, <1>2, LastType DEF Truthful
  <2>2. updated \in Alg /\ updated.ln = alg[n][o].ln /\ updated.queue = alg[n][o].queue
    BY <1>2, <1>u, <2>1, UpdateType
  <2>3. \A k \in Node : updated.rn[k] = IF k = p /\ head.number > alg[n][o].rn[p]
                                        THEN head.number ELSE alg[n][o].rn[k]
    BY <1>u, <2>1 DEF UpdateRequestNumber, Alg
  <2>4. \A k \in Node : updated.rn[k] \in Nat /\ alg[n][o].rn[k] \in Nat
    BY <2>1, <2>2 DEF Alg, RequestNumber
  <2>5. head.number \in Nat
    BY <1>2 DEF RequestNumber
  <2> QED
    BY <1>3, <2>1, <2>2, <2>3, <2>4, <2>5
<1>6. \A t \in Token : \A k \in Node :
         /\ alg'[k][t].rn[k] = alg[k][t].rn[k] /\ SameRecord(t, k)
         /\ k # n \/ t # o => alg'[k][t] = alg[k][t]
  <2>1. \A t \in Token : \A k \in Node : k # n \/ t # o => alg'[k][t] = alg[k][t]
    BY <1>1, <1>2, <1>4
  <2>2. alg'[n][o] = alg[n][o] \/ alg'[n][o] = updated
    BY <1>1, <1>2, <1>4
  <2>3. updated.rn[n] = alg[n][o].rn[n]
    BY <1>5
  <2> QED
    BY <1>5, <2>1, <2>2, <2>3 DEF SameRecord
<1>7. \A t \in Token : Owns(t)' = Owns(t) /\ Waiting(t)' = Waiting(t)
  BY <1>4, <1>6 DEF Owns, Waiting
<1>8. Last' = Last
  BY <1>7 DEF Last
<1>9. \A t \in Token : Steady(t)
  BY <1>6, <1>7 DEF Steady, Goes
<1>10. Bounded'
  <2> SUFFICES ASSUME NEW k \in Node PROVE BoundedAt(k)'
    BY DEF Bounded
  <2>1. SysToken \in Token /\ Monitor \subseteq Token
    BY DEF Token
  <2>2. BoundedAt(k)
    BY DEF Bounded
  <2> QED
    BY <1>4, <1>6, <2>1, <2>2 DEF BoundedAt
<1>11. ASSUME Serves(n, o, p, updated)
       PROVE  give \in Message /\ give.type = "GiveToken" /\ give.token = o
              /\ give.ln = updated.ln /\ give.queue = updated.queue
  <2>1. known[n] \in SUBSET Monitor /\ (o # SysToken => data[n][o] \in Nat)
    BY <1>1, <1>2 DEF TypeOK, Token
  <2>2. give \in Message
    BY <1>2, <1>5, <2>1, TokenMsgType, <1>g
  <2> QED
    BY <1>g, <2>2 DEF TokenMsg, GiveTokenMsg
<1>12. Truthful'
  <2>1. \A t \in Token : \A j, k \in Node : alg'[j][t].rn[k] <= Last[t][k]
    <3> SUFFICES ASSUME NEW t \in Token, NEW j \in Node, NEW k \in Node
                 PROVE  alg'[j][t].rn[k] <= Last[t][k]
      OBVIOUS
    <3>1. CASE alg'[j][t] = alg[j][t]
      BY <3>1 DEF Truthful
    <3>2. CASE alg'[j][t] # alg[j][t]
      <4>1. j = n /\ t = o /\ alg' # alg
        BY <1>6, <3>2
      <4>2. alg'[n][o] = updated
        BY <1>1, <1>2, <1>4, <4>1
      <4> QED
        BY <1>5, <4>1, <4>2
    <3> QED
      BY <3>1, <3>2
  <2>2. Honest(net', Last)
    <3>1. CASE net' = first
      BY <1>2, <3>1
    <3>2. CASE net' # first
      <4>1. net' = Post(first, n, {p}, <<give>>) /\ Serves(n, o, p, updated)
        BY <1>4, <3>2
      <4>2. give \in Message /\ give.type # "RequestToken"
        BY <1>11, <4>1
      <4> QED
        BY <1>2, <4>1, <4>2, HonestSend
    <3> QED
      BY <3>1, <3>2
  <2> QED
    BY <1>8, <2>1, <2>2 DEF Truthful
<1>13. CASE net' = first /\ owned' = owned
  <2>1. NoneSent
    BY <1>2, <1>13 DEF NoneSent
  <2>2. \A k \in Node : Held(k)' \subseteq Held(k) /\ locked[k] \subseteq locked'[k]
    BY <1>4, <1>13 DEF Held
  <2>3. \A t \in Token : Right(t)'
    BY <1>9, <2>1, <2>2, RightCalm
  <2> QED
    BY <1>10, <1>12, <2>3
<1>14. CASE ~(net' = first /\ owned' = owned)
  <2>1. /\ Serves(n, o, p, updated) /\ alg' = [alg EXCEPT ![n][o] = updated]
        /\ owned' = [owned EXCEPT ![n] = @ \ {o}] /\ SentTo(first, n, p, give)
    BY <1>4, <1>14 DEF SentTo
  <2>2. /\ give \in Message /\ give.token = o
        /\ give.ln = updated.ln /\ give.queue = updated.queue
    BY <1>11, <2>1
  <2>3. /\ o \in owned[n] /\ o \notin locked[n] /\ Outstanding(updated, p)
        /\ o \in Held(n) /\ Holding(o, n) /\ OneCarrierOf(o)
    BY <1>2, <2>1 DEF Serves, Held, Right, IInv, OneCarrier
  <2>4. Sends(n, give)
    BY <1>2, <2>1 DEF Sends, SentTo
  <2>5. \A k \in Node : owned'[k] \subseteq owned[k]
    BY <1>1, <2>1
  <2>6. ASSUME NEW t \in Token, t # o PROVE Right(t)'
    <3>1. ASSUME NEW k \in Node, t \in Held(k)'
          PROVE  t \in Held(k) /\ (t \notin locked'[k] => t \notin locked[k])
      BY <1>4, <2>5, <3>1 DEF Held
    <3> QED
      BY <1>9, <2>2, <2>4, <2>6, <3>1, RightOther
  <2>7. \A k \in Node : o \notin Held(k)'
    <3>1. o \notin owned'[n] /\ o \notin locked'[n]
      BY <1>1, <1>4, <2>1, <2>3
    <3> QED
      BY <1>4, <2>3, <2>5, <3>1 DEF Held, OneCarrierOf
  <2>8. \A a, b \in Node : \A i \in Nat : ~Carries(first, a, b, i, o)
    <3> SUFFICES ASSUME NEW a \in Node, NEW b \in Node, NEW i \in Nat, Carries(first, a, b, i, o)
                 PROVE  FALSE
      OBVIOUS
    <3>1. /\ i + Took(p, n)[a][b] \in Nat
          /\ Carries(net, a, b, i + Took(p, n)[a][b], o)
      BY <1>2, CarriedBefore
    <3> QED
      BY <2>3, <3>1 DEF OneCarrierOf
  <2>9. \A a, b \in Node : \A i \in Nat :
           Carries(net', a, b, i, o) => b = p /\ net'[a][b][i] = give
    BY <1>2, <2>1, <2>2, <2>8, OnlySent
  <2>10. Made(o)'
    <3>1. Made(o)
      BY <1>2, <2>3, PlacedIsMade DEF Carried
    <3> QED
      BY <1>2, <3>1, NextMade
  <2>11. /\ Fits(Owns(o), Waiting(o), updated.ln, updated.queue, {n})
         /\ updated.queue = <<>> /\ Owns(o)[n] = updated.ln[n]
    BY <1>5, <2>3 DEF Holding
  <2>12. Fits(Owns(o), Waiting(o), updated.ln, updated.queue, {})
    <3>1. updated.ln[n] \in Nat
      BY <1>5 DEF Alg, RequestNumber
    <3> QED
      BY <2>11, <3>1 DEF Fits
  <2>13. Owns(o)[p] = updated.ln[p] + 1
    <3>1. /\ Owns(o)[p] \in Nat /\ Owns(o)[p] + 1 < U32 /\ updated.ln[p] \in Nat
          /\ updated.rn[p] \in Nat /\ updated.rn[p] <= Owns(o)[p] /\ U32 \in Nat
      <4>1. Low(Owns(o)) /\ Owns(o) \in Numbers /\ Last[o] = Owns(o)
        BY <1>1, <1>2, LowOwns, OwnsType, LastType
      <4>2. updated.ln[p] \in Nat
        BY <1>5 DEF Alg, RequestNumber
      <4> QED
        BY <1>5, <4>1, <4>2, U32Assumption DEF Low, Numbers
    <3>2. Owns(o)[p] \in {updated.ln[p], updated.ln[p] + 1}
      BY <2>12 DEF Fits
    <3>3. updated.rn[p] = updated.ln[p] + 1
      <4>1. updated.ln[p] + 1 < U32
        BY <3>1, <3>2
      <4> QED
        BY <1>5, <2>3, <4>1, OutstandingIs
    <3> QED
      BY <3>1, <3>2, <3>3
  <2>14. p \notin QueueRange(updated.queue)
    BY <2>11 DEF QueueRange
  <2>15. /\ Fits(Owns(o)', Waiting(o)', give.ln, give.queue, {})
         /\ p \notin QueueRange(give.queue) /\ Owns(o)'[p] = give.ln[p] + 1
    BY <1>2, <1>7, <2>2, <2>12, <2>13, <2>14
  <2>16. Right(o)'
    BY <1>2, <2>7, <2>9, <2>10, <2>15, RightSent
  <2> QED
    BY <1>10, <1>12, <2>6, <2>16
<1> QED
  BY <1>13, <1>14

-----------------------------------------------------------------------------
(* The system token arrives.                                                *)

\* n asks for the monitors of new, the tokens of adopted are its own from now on, and
\* release turns the record a of the system token into after.
Sorts(n, p, msg, new, adopted, a, after, asked) ==
    /\ new = ((private[n] \ created[n]) \cap msg.monitors \cap pendingGrants[n])
                \ pendingRequests[n]
    /\ adopted = (private[n] \ created[n]) \ msg.monitors
    /\ a \in Alg /\ a.rn = alg[n][SysToken].rn /\ a.ln = msg.ln /\ a.queue = msg.queue
    /\ after \in Released(a, n)
    /\ asked \in Channels /\ Follows(asked, net, Took(p, n))
    /\ \A k \in Node \ {n} : owned'[k] = owned[k] /\ alg'[k] = alg[k]
    /\ IF after.queue = <<>>
       THEN alg'[n][SysToken] = after /\ SysToken \in owned'[n] /\ net' = asked
       ELSE /\ alg'[n][SysToken] = Popped(after) /\ SysToken \notin owned'[n]
            /\ SentTo(asked, n, Head(after.queue),
                      GiveTokenMsg(SysToken, Popped(after), known'[n], 0))

LEMMA TakeSystemTokenSorts ==
    ASSUME IInv, Asking, Bounded, Few, Truthful, NEW n \in Node, NEW p \in Node,
           Arrives(n, p, "GiveToken"), NEW msg, msg = Head(net[p][n]),
           msg.token = SysToken, TakeSystemToken(n, p, msg), TypeOK', Right(SysToken)
    PROVE  \E new, adopted \in SUBSET Monitor, a, after \in Alg, asked \in Channels :
              /\ Sorts(n, p, msg, new, adopted, a, after, asked)
              /\ Asked(n, new) /\ \A t \in Monitor : SameRecord(t, n)
              /\ Honest(asked, Last')
<1> DEFINE fresh == private[n] \ created[n]
           found == fresh \cap msg.monitors
           adopted == fresh \ msg.monitors
           new == (found \cap pendingGrants[n]) \ pendingRequests[n]
           holds == (owned[n] \ found) \cup adopted \cup {SysToken}
           registered == msg.monitors \cup adopted
           loaded == [alg[n] EXCEPT ![SysToken] = LoadProperties(@, msg.ln, msg.queue)]
           numbered == IF n \in startedCluster THEN Numbered(loaded, n, new) ELSE loaded
           asks == IF n \in startedCluster THEN new ELSE {}
           first == Received(n, p)
<1>1. /\ net \in Channels /\ msg.type = "GiveToken" /\ msg \in Message
      /\ Follows(first, net, Took(p, n)) /\ first \in Channels
      /\ TypeOK /\ TypeOK' /\ SysEntryCreated /\ n \in startedCluster
      /\ net[p][n] # <<>> /\ OneCarrierOf(SysToken)
  <2>1. TypeOK /\ net \in Channels /\ SysToken \in Token
    BY DEF IInv, TypeOK, Channels, Token
  <2>2. n \in startedCluster
    BY <2>1, ArrivesWanted DEF May
  <2> QED
    BY <2>1, <2>2, ReceivedType, FollowsReceived DEF IInv, OneCarrier, Arrives
<1>2. /\ msg.ln \in [Node -> RequestNumber] /\ msg.queue \in Seq(Node)
      /\ msg.monitors \in SUBSET Monitor /\ SysToken \in Token /\ SysToken \notin Monitor
  BY <1>1, MonitorAssumption, MessageFields DEF Token
<1>3. new \in SUBSET Monitor /\ adopted \in SUBSET Monitor /\ new \in SUBSET Token
  <2>1. private[n] \ {SysToken} \in SUBSET Monitor
    BY <1>1 DEF TypeOK, Token
  <2>2. SysToken \notin fresh
    BY <1>1 DEF SysEntryCreated
  <2> QED
    BY <2>1, <2>2 DEF Token
<1>4. PICK after \in Released(numbered[SysToken], n), order \in Orderings(asks) :
         LET asked == Post(first, n, links[n], RequestMsgs(numbered, n, order))
         IN  IF after.queue = <<>>
             THEN /\ owned' = [owned EXCEPT ![n] = holds]
                  /\ alg' = [alg EXCEPT ![n] = [numbered EXCEPT ![SysToken] = after]]
                  /\ net' = asked
             ELSE /\ owned' = [owned EXCEPT ![n] = holds \ {SysToken}]
                  /\ alg' = [alg EXCEPT ![n] = [numbered EXCEPT ![SysToken] = Popped(after)]]
                  /\ net' = Post(asked, n, {Head(after.queue)},
                                 <<GiveTokenMsg(SysToken, Popped(after), registered, 0)>>)
  BY DEF TakeSystemToken
<1>22. numbered = Numbered(loaded, n, new) /\ order \in Orderings(new)
  BY <1>1, <1>4
<1>5. /\ loaded \in [Token -> Alg] /\ \A t \in Monitor : loaded[t] = alg[n][t]
      /\ loaded[SysToken].rn = alg[n][SysToken].rn
      /\ loaded[SysToken].ln = msg.ln /\ loaded[SysToken].queue = msg.queue
  <2>1. alg[n] \in [Token -> Alg] /\ alg[n][SysToken] \in Alg
    BY <1>1, <1>2 DEF TypeOK
  <2>2. loaded \in [Token -> Alg]
    BY <1>2, <2>1, LoadType
  <2>3. LET next == LoadProperties(alg[n][SysToken], msg.ln, msg.queue)
        IN  next.rn = alg[n][SysToken].rn /\ next.ln = msg.ln /\ next.queue = msg.queue
    BY <2>1 DEF LoadProperties, Alg
  <2>4. loaded[SysToken] = LoadProperties(alg[n][SysToken], msg.ln, msg.queue)
    BY <1>2, <2>1
  <2>5. \A t \in Monitor : loaded[t] = alg[n][t]
    BY <1>2, <2>1 DEF Token
  <2> QED
    BY <2>2, <2>3, <2>4, <2>5
<1>6. ASSUME NEW t \in Token PROVE loaded[t].rn[n] + 1 < U32 /\ loaded[t].rn = alg[n][t].rn
  <2>1. loaded[t].rn = alg[n][t].rn
    BY <1>5 DEF Token
  <2>2. alg[n][t].rn[n] + 1 < U32
    BY <1>1, LowOwns, OwnsType DEF Low
  <2> QED
    BY <2>1, <2>2
<1> HIDE DEF loaded, numbered, asks
<1>7. /\ numbered \in [Token -> Alg]
      /\ numbered[SysToken] = loaded[SysToken]
  <2>1. numbered \in [Token -> Alg]
    BY <1>5, <1>22, NumberedType
  <2>2. SysToken \notin new
    BY <1>2, <1>3
  <2> QED
    BY <1>2, <1>22, <2>1, <2>2 DEF Numbered
<1>8. ASSUME NEW t \in Token
      PROVE  /\ numbered[t].ln = loaded[t].ln /\ numbered[t].queue = loaded[t].queue
             /\ numbered[t].rn[n] = IF t \in new THEN alg[n][t].rn[n] + 1 ELSE alg[n][t].rn[n]
             /\ \A k \in Node \ {n} : numbered[t].rn[k] = alg[n][t].rn[k]
  <2> HIDE DEF new
  <2> QED
    BY <1>5, <1>6, <1>22, NumberedIs
<1> DEFINE a == numbered[SysToken]
           asked == Post(first, n, links[n], RequestMsgs(numbered, n, order))
<1>9. /\ a \in Alg /\ a.rn = alg[n][SysToken].rn /\ a.ln = msg.ln /\ a.queue = msg.queue
  BY <1>2, <1>5, <1>7
<1>10. asked \in Channels /\ Follows(asked, net, Took(p, n))
  <2> HIDE DEF new, first
  <2> QED
    BY <1>1, <1>3, <1>7, <1>22, FollowsRequests
<1> HIDE DEF a, asked, new, adopted, holds, registered
<1>11. after \in Alg /\ after.rn = a.rn /\ (after.queue # <<>> => Popped(after).rn = after.rn)
  <2>1. Carries(net, p, n, 1, SysToken) /\ net[p][n][1] = msg
    BY <1>1, <1>2, TakenIsGone DEF Gives
  <2>2. Single(a.queue)
    BY <1>9, <2>1 DEF Right, Coming, Fits
  <2>3. after \in Released(a, n)
    BY <1>4 DEF a
  <2>4. after \in Alg /\ after.rn = a.rn
    BY <1>9, <2>2, <2>3, ReleasedQueue
  <2>5. after.queue # <<>> => Popped(after).rn = after.rn
    BY <2>4 DEF Popped, Alg
  <2> QED
    BY <2>4, <2>5
<1>12. PICK kept : /\ kept = IF after.queue = <<>> THEN after ELSE Popped(after)
                   /\ kept.rn = a.rn
  BY <1>11
<1>13. alg' = [alg EXCEPT ![n] = [numbered EXCEPT ![SysToken] = kept]]
  BY <1>4, <1>12
<1>14. /\ alg'[n][SysToken] = kept /\ \A t \in Monitor : alg'[n][t] = numbered[t]
  <2>1. alg'[n] = [numbered EXCEPT ![SysToken] = kept]
    BY <1>1, <1>13 DEF TypeOK
  <2>2. \A t \in Monitor : t \in Token /\ t # SysToken
    BY <1>2 DEF Token
  <2> QED
    BY <1>2, <1>7, <2>1, <2>2
<1>15. Asked(n, new)
  <2> SUFFICES ASSUME NEW t \in Token
               PROVE  /\ alg'[n][t].rn[n] = IF t \in new THEN alg[n][t].rn[n] + 1
                                                         ELSE alg[n][t].rn[n]
                      /\ \A k \in Node \ {n} : alg'[n][t].rn[k] = alg[n][t].rn[k]
    BY DEF Asked
  <2>1. CASE t \in Monitor
    BY <1>8, <1>14, <2>1
  <2>2. CASE t = SysToken
    BY <1>2, <1>3, <1>9, <1>12, <1>14, <2>2
  <2> QED
    BY <2>1, <2>2 DEF Token
<1>16. \A t \in Monitor : SameRecord(t, n)
  BY <1>5, <1>8, <1>14 DEF SameRecord, Token
<1>17. registered = known'[n]
  <2>1. known' = [known EXCEPT ![n] = registered]
    BY DEF TakeSystemToken, registered, adopted
  <2> QED
    BY <1>1, <2>1 DEF TypeOK
<1>18. \A t \in Token : numbered[t].rn[n] <= Last'[t][n] /\ Last[t][n] <= Last'[t][n]
  <2> SUFFICES ASSUME NEW t \in Token
               PROVE  numbered[t].rn[n] <= Last'[t][n] /\ Last[t][n] <= Last'[t][n]
    OBVIOUS
  <2>1. /\ Last'[t][n] = alg'[n][t].rn[n] /\ Last[t][n] = alg[n][t].rn[n]
        /\ Last'[t][n] \in Nat /\ Last[t][n] \in Nat
    BY <1>1, LastType, LastTypeNext DEF Counts, Numbers
  <2>2. numbered[t].rn[n] = alg'[n][t].rn[n]
    BY <1>8, <1>15 DEF Asked
  <2> QED
    BY <1>15, <2>1, <2>2 DEF Asked
<1>19. Honest(asked, Last')
  <2>1. Honest(first, Last)
    BY <1>1, HonestReceived DEF Truthful
  <2>2. ASSUME NEW t \in Token, NEW k \in Node PROVE Last[t][k] <= Last'[t][k]
    <3>1. CASE k = n
      BY <1>18, <3>1
    <3>2. CASE k # n
      <4>1. alg'[k] = alg[k]
        BY <1>1, <1>13, <3>2 DEF TypeOK
      <4>2. Last[t][k] = alg[k][t].rn[k] /\ Last'[t][k] = alg'[k][t].rn[k]
        BY <1>1, LastType, LastTypeNext
      <4>3. Last[t][k] \in Nat
        BY <1>1, LastType DEF Counts, Numbers
      <4> QED
        BY <4>1, <4>2, <4>3
    <3> QED
      BY <3>1, <3>2
  <2>3. Last \in Counts /\ Last' \in Counts
    BY <1>1, LastType, LastTypeNext
  <2>4. Honest(first, Last')
    <3> HIDE DEF first
    <3>1. PICK own2 : own2 = Last'
      OBVIOUS
    <3>2. Honest(first, own2)
      BY <1>1, <2>1, <2>2, <2>3, <3>1, HonestGrows
    <3> QED
      BY <3>1, <3>2
  <2> HIDE DEF first
  <2>5. PICK own2 : own2 = Last'
    OBVIOUS
  <2>6. Honest(asked, own2)
    BY <1>1, <1>3, <1>7, <1>18, <1>22, <2>3, <2>4, <2>5, HonestRequests DEF asked
  <2> QED
    BY <2>5, <2>6
<1>20. \A k \in Node \ {n} : owned'[k] = owned[k] /\ alg'[k] = alg[k]
  <2>1. owned' = [owned EXCEPT ![n] = holds] \/ owned' = [owned EXCEPT ![n] = holds \ {SysToken}]
    BY <1>4
  <2>2. owned \in [Node -> SUBSET Token] /\ alg \in [Node -> [Token -> Alg]]
    BY <1>1 DEF TypeOK
  <2>3. \A k \in Node \ {n} : owned'[k] = owned[k]
    BY <2>1, <2>2
  <2>4. \A k \in Node \ {n} : alg'[k] = alg[k]
    BY <1>13, <2>2
  <2> QED
    BY <2>3, <2>4
<1>21. /\ new = ((private[n] \ created[n]) \cap msg.monitors \cap pendingGrants[n])
                    \ pendingRequests[n]
       /\ adopted = (private[n] \ created[n]) \ msg.monitors
       /\ after \in Released(a, n)
  BY <1>4 DEF new, adopted, a
<1>23. CASE after.queue = <<>>
  <2>1. owned' = [owned EXCEPT ![n] = holds] /\ net' = asked
    BY <1>4, <1>23 DEF asked
  <2>2. SysToken \in owned'[n]
    BY <1>1, <2>1 DEF TypeOK, holds
  <2>3. Sorts(n, p, msg, new, adopted, a, after, asked)
    BY <1>9, <1>10, <1>12, <1>14, <1>23, <1>20, <1>21, <2>1, <2>2 DEF Sorts
  <2> QED
    BY <1>3, <1>9, <1>10, <1>11, <1>15, <1>16, <1>19, <2>3
<1>24. CASE after.queue # <<>>
  <2>1. owned' = [owned EXCEPT ![n] = holds \ {SysToken}]
    BY <1>4, <1>24
  <2>2. SysToken \notin owned'[n]
    BY <1>1, <2>1 DEF TypeOK
  <2>3. SentTo(asked, n, Head(after.queue),
               GiveTokenMsg(SysToken, Popped(after), known'[n], 0))
    BY <1>4, <1>17, <1>24 DEF SentTo, asked
  <2>4. Sorts(n, p, msg, new, adopted, a, after, asked)
    BY <1>9, <1>10, <1>12, <1>14, <1>24, <1>20, <1>21, <2>2, <2>3 DEF Sorts
  <2> QED
    BY <1>3, <1>9, <1>10, <1>11, <1>15, <1>16, <1>19, <2>4
<1> QED
  BY <1>23, <1>24

Sorted(n, new, adopted) ==
    /\ n \in startedCluster /\ Elsewhere(n)
    /\ UNCHANGED <<locks, public, startedCluster>>
    /\ pendingRequests'[n] = (pendingRequests[n] \ {SysToken}) \cup new
    /\ pendingGrants'[n] = pendingGrants[n] \ adopted
    /\ locked'[n] = locked[n] \cup (adopted \cap pendingGrants[n])
    /\ owned'[n] \subseteq owned[n] \cup adopted \cup {SysToken}
    /\ adopted \subseteq owned'[n]
    /\ \A k \in Node \ {n} : owned'[k] = owned[k] /\ locked'[k] = locked[k]
    /\ new \cap adopted = {} /\ new \cap Held(n) = {}
    /\ new \subseteq pendingGrants[n] \ pendingRequests[n]

LEMMA TakeSystemTokenMoves ==
    ASSUME IInv, IInv', Asking, Young, NEW n \in Node, NEW p \in Node,
           Arrives(n, p, "GiveToken"), NEW msg, msg = Head(net[p][n]),
           msg.token = SysToken, TakeSystemToken(n, p, msg),
           NEW new \in SUBSET Monitor, NEW adopted \in SUBSET Monitor, NEW a, NEW after,
           NEW asked, Sorts(n, p, msg, new, adopted, a, after, asked)
    PROVE  Sorted(n, new, adopted)
<1>1. /\ TypeOK /\ SysToken \in Token /\ SysToken \notin Monitor
      /\ owned \in [Node -> SUBSET Token] /\ locked \in [Node -> SUBSET Token]
      /\ pendingGrants \in [Node -> SUBSET Monitor]
      /\ pendingRequests \in [Node -> SUBSET Token]
      /\ alg \in [Node -> [Token -> Alg]]
  BY MonitorAssumption DEF IInv, TypeOK, Token
<1>2. n \in startedCluster /\ pendingGrants[n] \subseteq public[n]
  BY <1>1, ArrivesWanted DEF May, Asking, Wants
<1>3. /\ UNCHANGED <<locks, public, startedCluster>>
      /\ pendingRequests' = [pendingRequests EXCEPT ![n] = (@ \ {SysToken}) \cup new]
      /\ Grant(n, Grantable(n, adopted))
  BY DEF TakeSystemToken, Sorts, nodeVars
<1>4. \A k \in Node \ {n} : owned'[k] = owned[k] /\ alg'[k] = alg[k]
  BY DEF Sorts
<1>5. owned'[n] \subseteq owned[n] \cup adopted \cup {SysToken} /\ adopted \subseteq owned'[n]
  <2> DEFINE holds == (owned[n] \ ((private[n] \ created[n]) \cap msg.monitors)) \cup adopted
                         \cup {SysToken}
  <2>1. owned' = [owned EXCEPT ![n] = holds] \/ owned' = [owned EXCEPT ![n] = holds \ {SysToken}]
    BY DEF TakeSystemToken, Sorts
  <2>2. /\ holds \subseteq owned[n] \cup adopted \cup {SysToken}
        /\ adopted \subseteq holds \ {SysToken}
    BY <1>1
  <2> HIDE DEF holds
  <2>3. owned'[n] = holds \/ owned'[n] = holds \ {SysToken}
    BY <1>1, <2>1
  <2> QED
    BY <2>2, <2>3
<1>6. /\ pendingRequests'[n] = (pendingRequests[n] \ {SysToken}) \cup new
      /\ pendingGrants'[n] = pendingGrants[n] \ adopted
      /\ locked'[n] = locked[n] \cup (adopted \cap pendingGrants[n])
  <2>1. Grantable(n, adopted) = adopted \cap pendingGrants[n]
    BY <1>2 DEF Grantable
  <2> QED
    BY <1>1, <1>3, <2>1 DEF Grant
<1>7. \A k \in Node \ {n} :
         /\ owned'[k] = owned[k] /\ locked'[k] = locked[k] /\ alg'[k] = alg[k]
         /\ pendingRequests'[k] = pendingRequests[k] /\ pendingGrants'[k] = pendingGrants[k]
  BY <1>1, <1>3, <1>4 DEF Grant
<1>8. Elsewhere(n)
  BY <1>3, <1>7 DEF Elsewhere
<1>9. new \cap adopted = {} /\ new \subseteq pendingGrants[n] \ pendingRequests[n]
      /\ new \cap created[n] = {}
  BY DEF Sorts
<1>10. new \cap owned[n] = {}
  BY <1>9 DEF Young, YoungAt
<1>11. new \cap locked[n] = {}
  BY <1>9 DEF IInv, GrantHoldsLock, PendingWaits
<1> QED
  BY <1>2, <1>3, <1>5, <1>6, <1>7, <1>8, <1>9, <1>10, <1>11 DEF Held, Sorted

\* The node that got the token does not wait any more.
LEMMA FitsLeft ==
    ASSUME NEW own \in Numbers, NEW ln \in Numbers, NEW queue \in Seq(Node), NEW w, NEW w2,
           NEW n \in Node, FitsAll(own, w, ln, queue), ln[n] = own[n],
           \A k \in Node \ {n} : k \in w => k \in w2
    PROVE  FitsAt(own, w2, ln, queue, n) /\ FitsAll(own, w2, ln, queue)
<1>1. ASSUME NEW k \in Node, own[k] = ln[k] + 1 PROVE k # n /\ k \in w2
  <2>1. ln[n] \in Nat
    BY DEF Numbers
  <2> QED
    BY <1>1, <2>1 DEF FitsAll, Fits
<1>2. ASSUME NEW i \in DOMAIN queue PROVE queue[i] # n /\ own[queue[i]] = ln[queue[i]] + 1
  <2>1. queue[i] \in Node
    OBVIOUS
  <2>2. own[queue[i]] = ln[queue[i]] + 1
    BY DEF FitsAll, Fits
  <2> QED
    BY <1>1, <2>1, <2>2
<1> QED
  BY <1>1, <1>2 DEF FitsAt, FitsAll, Fits

LEMMA TakeSystemTokenNumbers ==
    ASSUME IInv, IInv', [Next]_vars, Asking, Young, Bounded, Few, Truthful,
           \A t \in Token : Right(t), NEW n \in Node, NEW p \in Node,
           Arrives(n, p, "GiveToken"), NEW msg, msg = Head(net[p][n]),
           msg.token = SysToken, TakeSystemToken(n, p, msg)
    PROVE  Bounded' /\ Truthful' /\ \A t \in Token : Right(t)'
<1>1. /\ TypeOK /\ TypeOK' /\ SysToken \in Token /\ SysToken \notin Monitor
      /\ net' \in Channels
  BY MonitorAssumption DEF IInv, TypeOK, Token, Channels
<1>2. PICK new \in SUBSET Monitor, adopted \in SUBSET Monitor, a \in Alg, after \in Alg,
           asked \in Channels :
         /\ Sorts(n, p, msg, new, adopted, a, after, asked)
         /\ Asked(n, new) /\ \A t \in Monitor : SameRecord(t, n)
         /\ Honest(asked, Last')
  <2>1. Right(SysToken)
    BY <1>1
  <2> QED
    BY <1>1, <2>1, TakeSystemTokenSorts
<1>3. /\ n \in startedCluster /\ Elsewhere(n)
      /\ UNCHANGED <<locks, public, startedCluster>>
      /\ pendingRequests'[n] = (pendingRequests[n] \ {SysToken}) \cup new
      /\ pendingGrants'[n] = pendingGrants[n] \ adopted
      /\ locked'[n] = locked[n] \cup (adopted \cap pendingGrants[n])
      /\ owned'[n] \subseteq owned[n] \cup adopted \cup {SysToken}
      /\ adopted \subseteq owned'[n]
      /\ \A k \in Node \ {n} : owned'[k] = owned[k] /\ locked'[k] = locked[k]
      /\ new \cap adopted = {} /\ new \cap Held(n) = {}
      /\ new \subseteq pendingGrants[n] \ pendingRequests[n]
  <2>1. Sorts(n, p, msg, new, adopted, a, after, asked)
    BY <1>2
  <2>2. Sorted(n, new, adopted)
    BY <2>1, TakeSystemTokenMoves
  <2> QED
    BY <2>2 DEF Sorted
<1>4. PICK give : give = GiveTokenMsg(SysToken, Popped(after), known'[n], 0)
  OBVIOUS
<1>5. PICK d : d = Head(after.queue)
  OBVIOUS
<1>6. after.queue # <<>> => /\ give \in Message /\ give.type = "GiveToken"
                            /\ give.token = SysToken /\ give.ln = Popped(after).ln
                            /\ give.queue = Popped(after).queue
                            /\ d \in Node /\ SentTo(asked, n, d, give)
  <2> SUFFICES ASSUME after.queue # <<>>
               PROVE  /\ give \in Message /\ give.type = "GiveToken"
                      /\ give.token = SysToken /\ give.ln = Popped(after).ln
                      /\ give.queue = Popped(after).queue
                      /\ d \in Node /\ SentTo(asked, n, d, give)
    OBVIOUS
  <2>1. Popped(after) \in Alg /\ d \in Node
    BY <1>5, PoppedType
  <2>2. known'[n] \in SUBSET Monitor
    BY <1>1 DEF TypeOK
  <2>3. give \in Message
    BY <1>1, <1>4, <2>1, <2>2, MessageTypes
  <2>4. SentTo(asked, n, d, give)
    BY <1>2, <1>4, <1>5 DEF Sorts
  <2> QED
    BY <1>4, <2>1, <2>3, <2>4 DEF GiveTokenMsg
<1>7. Bounded'
  <2>1. BoundedAt(n)
    BY DEF Bounded
  <2>2. BoundedAt(n)'
    <3>1. ASSUME NEW m \in Monitor
          PROVE  /\ alg'[n][m].rn[n] <= locks[n][m] /\ locks[n][m] <= MaxLocks[n]
                 /\ m \in pendingGrants'[n] \ pendingRequests'[n] =>
                       alg'[n][m].rn[n] < locks[n][m]
      <4>1. m \in Token /\ m # SysToken
        BY <1>1 DEF Token
      <4>2. alg[n][m].rn[n] \in Nat /\ locks[n][m] \in Nat
        BY <1>1, <4>1, OwnsType DEF Alg, RequestNumber, TypeOK
      <4>3. alg'[n][m].rn[n] = IF m \in new THEN alg[n][m].rn[n] + 1 ELSE alg[n][m].rn[n]
        BY <1>2, <4>1 DEF Asked
      <4>4. /\ alg[n][m].rn[n] <= locks[n][m] /\ locks[n][m] <= MaxLocks[n]
            /\ m \in pendingGrants[n] \ pendingRequests[n] => alg[n][m].rn[n] < locks[n][m]
        BY <2>1 DEF BoundedAt
      <4>5. CASE m \in new
        BY <1>3, <4>2, <4>3, <4>4, <4>5
      <4>6. CASE m \notin new
        BY <1>3, <4>1, <4>3, <4>4, <4>6
      <4> QED
        BY <4>5, <4>6
    <3>2. alg'[n][SysToken].rn[n] = alg[n][SysToken].rn[n] /\ SysToken \notin pendingRequests'[n]
      BY <1>1, <1>2, <1>3 DEF Asked
    <3> QED
      BY <1>3, <2>1, <3>1, <3>2 DEF BoundedAt
  <2> QED
    BY <1>3, <2>2, BoundedElsewhere
<1>8. Truthful'
  <2>1. CASE after.queue = <<>>
    <3>1. Honest(net', Last')
      BY <1>2, <2>1 DEF Sorts
    <3> QED
      BY <1>1, <1>2, <1>3, <3>1, TruthfulFrom
  <2>2. CASE after.queue # <<>>
    <3>1. PICK own2 : own2 = Last'
      OBVIOUS
    <3>2. give \in Message /\ give.type # "RequestToken"
      BY <1>6, <2>2
    <3>3. Honest(Post(asked, n, {d}, <<give>>), own2)
      BY <1>2, <3>1, <3>2, HonestSend
    <3>4. Honest(net', Last')
      BY <1>6, <2>2, <3>1, <3>3 DEF SentTo
    <3> QED
      BY <1>1, <1>2, <1>3, <3>4, TruthfulFrom
  <2> QED
    BY <2>1, <2>2
<1>9. ASSUME NEW t \in Token, t # SysToken, t \notin adopted PROVE Right(t)'
  <2>1. Steady(t)
    <3>1. t \in Monitor /\ SameRecord(t, n)
      BY <1>2, <1>9 DEF Token
    <3>2. t \in new => t \notin Held(n) /\ n \notin Waiting(t) /\ n \in Waiting(t)'
      BY <1>3, <1>9 DEF Waiting
    <3>3. t \notin new => t \in Held(n) \/ (n \in Waiting(t) => n \in Waiting(t)')
      BY <1>3, <1>9 DEF Waiting
    <3> QED
      BY <1>1, <1>2, <1>3, <3>1, <3>2, <3>3, SteadyFrom
  <2>2. ASSUME NEW k \in Node, t \in Held(k)'
        PROVE  t \in Held(k) /\ (t \notin locked'[k] => t \notin locked[k])
    <3>1. CASE k = n
      BY <1>3, <1>9, <2>2, <3>1 DEF Held
    <3>2. CASE k # n
      BY <1>3, <2>2, <3>2 DEF Held
    <3> QED
      BY <3>1, <3>2
  <2>3. Follows(asked, net, Took(p, n)) /\ Took(p, n) \in Offset
    BY <1>2 DEF Sorts, Took, Offset
  <2>4. CASE after.queue = <<>>
    <3>1. NoneSent
      BY <1>2, <2>3, <2>4 DEF Sorts, NoneSent
    <3>2. Made(t) => Made(t)'
      BY NextMade
    <3> QED
      BY <2>1, <2>2, <3>1, <3>2, RightQuiet
  <2>5. CASE after.queue # <<>>
    <3>1. Sends(n, give) /\ give \in Message /\ give.token # t
      BY <1>2, <1>6, <1>9, <2>3, <2>5 DEF Sends, SentTo
    <3> QED
      BY <2>1, <2>2, <3>1, RightOther
  <2> QED
    BY <2>4, <2>5
<1>10. /\ Carries(net, p, n, 1, SysToken) /\ net[p][n][1] = msg /\ Carried(SysToken)
       /\ \A k \in Node : SysToken \notin Held(k)
       /\ \A b, c \in Node : \A i \in Nat : ~Carries(asked, b, c, i, SysToken)
  <2>1. OneCarrierOf(SysToken) /\ net[p][n] # <<>> /\ Gives(Head(net[p][n]), SysToken)
    BY <1>1 DEF IInv, OneCarrier, Arrives, Gives
  <2>2. asked \in Channels /\ Follows(asked, net, Took(p, n))
    BY <1>2 DEF Sorts
  <2>3. /\ Carries(net, p, n, 1, SysToken) /\ net[p][n][1] = msg
        /\ \A k \in Node : SysToken \notin Held(k)
        /\ \A b, c \in Node : \A i \in Nat : ~Carries(asked, b, c, i, SysToken)
    BY <1>1, <2>1, <2>2, TakenIsGone
  <2> QED
    BY <2>3 DEF Carried
<1>11. ASSUME NEW t \in adopted PROVE Right(t)'
  <2>1. t \in Token /\ t \in Monitor /\ t # SysToken /\ t \notin new /\ t \notin msg.monitors
    BY <1>1, <1>2, <1>3 DEF Token, Sorts
  <2>2. ~Made(t)
    <3>1. 0 \in started
      BY <1>10 DEF IInv, OneCarrier, BeforeStart
    <3>2. ~KnownEverywhere(t)
      BY <1>10, <2>1 DEF KnownEverywhere
    <3> QED
      BY <2>1, <3>1, <3>2 DEF Made, Accounted
  <2>3. Pristine(t)
    BY <2>1, <2>2 DEF Right
  <2>4. Fits(Owns(t), Waiting(t), NoneServed, <<>>, {})
    BY <2>3 DEF Pristine
  <2>5. \A k \in Node : Owns(t)'[k] = Owns(t)[k]
    <3>1. \A k \in Node \ {n} : Owns(t)'[k] = Owns(t)[k]
      BY <1>1, <1>3, <2>1, GoesElsewhere
    <3>2. Owns(t)'[n] = Owns(t)[n]
      BY <1>1, <1>2, <2>1, OwnsType, OwnsTypeNext DEF Asked
    <3> QED
      BY <3>1, <3>2
  <2>6. \A k \in Node \ {n} : k \in Waiting(t) => k \in Waiting(t)'
    BY <1>3 DEF Waiting, Elsewhere
  <2>7. Fits(Owns(t)', Waiting(t)', NoneServed, <<>>, {n})
    BY <2>4, <2>5, <2>6 DEF Fits
  <2>8. alg'[n][t].ln = NoneServed /\ alg'[n][t].queue = <<>> /\ NoneServed[n] = 0
    BY <1>2, <2>1, <2>3 DEF Pristine, SameRecord, NoneServed
  <2>9. t \notin locked'[n] => Owns(t)'[n] = 0
    <3>1. t \notin locked'[n] => n \notin Waiting(t)
      BY <1>3, <2>1 DEF Waiting
    <3>2. Owns(t)[n] \in {0, 1} /\ (Owns(t)[n] = 1 => n \in Waiting(t))
      BY <2>4, <2>8 DEF Fits
    <3> QED
      BY <2>5, <3>1, <3>2
  <2>10. Holding(t, n)'
    BY <2>7, <2>8, <2>9 DEF Holding
  <2>11. t \in Held(n)'
    BY <1>3 DEF Held
  <2> QED
    BY <2>1, <2>10, <2>11, RightAt
<1>12. Right(SysToken)'
  <2>1. PICK own : own = Owns(SysToken)
    OBVIOUS
  <2>2. PICK w : w = Waiting(SysToken)
    OBVIOUS
  <2>3. Coming(SysToken, n, msg)
    BY <1>1, <1>10 DEF Right
  <2>4. /\ own \in Numbers /\ Low(own) /\ \A k \in Node : a.rn[k] <= own[k]
        /\ a.rn[n] = own[n] /\ a.ln = msg.ln /\ a.queue = msg.queue
    BY <1>1, <1>2, <2>1, OwnsType, LowOwns DEF Truthful, Last, Sorts
  <2>5. FitsAt(own, w, a.ln, a.queue, n)
    BY <2>1, <2>2, <2>3, <2>4 DEF Coming, Fits, FitsAt, QueueRange
  <2>6. /\ after.ln[n] = own[n] /\ FitsAll(own, w, after.ln, after.queue)
        /\ after.queue # <<>> =>
              /\ Popped(after) \in Alg
              /\ FitsAll(own, w, Popped(after).ln, Popped(after).queue)
              /\ d \notin QueueRange(Popped(after).queue)
              /\ own[d] = Popped(after).ln[d] + 1
    BY <1>2, <1>5, <2>4, <2>5, FitsReleased DEF Sorts
  <2>7. PICK own2 : own2 = Owns(SysToken)'
    OBVIOUS
  <2>8. PICK w2 : w2 = Waiting(SysToken)'
    OBVIOUS
  <2>9. own2 = own
    <3>1. \A k \in Node \ {n} : Owns(SysToken)'[k] = Owns(SysToken)[k]
      BY <1>1, <1>3, GoesElsewhere
    <3>2. Owns(SysToken)'[n] = Owns(SysToken)[n]
      BY <1>1, <1>2, OwnsType, OwnsTypeNext DEF Asked
    <3>3. own \in Numbers /\ own2 \in Numbers
      BY <1>1, <2>1, <2>7, OwnsType, OwnsTypeNext
    <3> QED
      BY <2>1, <2>7, <3>1, <3>2, <3>3 DEF Numbers
  <2>10. \A k \in Node \ {n} : k \in w => k \in w2
    BY <1>1, <1>3, <2>2, <2>8 DEF Waiting, Elsewhere
  <2>11. CASE after.queue = <<>>
    <3>1. after.ln \in Numbers /\ after.queue \in Seq(Node)
      BY DEF Alg, RequestNumber, Numbers
    <3>2. FitsAt(own, w2, after.ln, after.queue, n)
      BY <2>4, <2>6, <2>10, <3>1, FitsLeft
    <3>3. alg'[n][SysToken] = after /\ SysToken \in owned'[n]
      BY <1>2, <2>11 DEF Sorts
    <3>4. Holding(SysToken, n)'
      BY <2>6, <2>7, <2>8, <2>9, <2>11, <3>2, <3>3 DEF Holding, FitsAt
    <3>5. SysToken \in Held(n)'
      BY <3>3 DEF Held
    <3> QED
      BY <1>1, <3>4, <3>5, RightAt
  <2>12. CASE after.queue # <<>>
    <3>1. /\ give \in Message /\ give.ln = Popped(after).ln
          /\ give.queue = Popped(after).queue /\ d \in Node /\ SentTo(asked, n, d, give)
      BY <1>6, <2>12
    <3>2. Popped(after).ln = after.ln
      BY DEF Popped, Alg
    <3>3. /\ give.ln \in Numbers /\ give.queue \in Seq(Node) /\ give.ln[n] = own[n]
          /\ FitsAll(own, w, give.ln, give.queue)
      BY <2>6, <2>12, <3>1, <3>2 DEF Alg, RequestNumber, Numbers
    <3>4. FitsAll(own, w2, give.ln, give.queue)
      BY <2>4, <2>10, <3>3, FitsLeft
    <3>5. \A k \in Node : SysToken \notin Held(k)'
      <4>1. SysToken \notin owned'[n]
        BY <1>2, <2>12 DEF Sorts
      <4>2. SysToken \notin locked'[n]
        BY <1>1, <1>3, <1>10 DEF Held
      <4> QED
        BY <1>3, <1>10, <4>1, <4>2 DEF Held
    <3>6. \A b, c \in Node : \A i \in Nat :
             Carries(net', b, c, i, SysToken) => c = d /\ net'[b][c][i] = give
      BY <1>2, <1>10, <3>1, OnlySent
    <3>7. Made(SysToken)'
      <4>1. Made(SysToken)
        BY <1>1, <1>10, PlacedIsMade
      <4> QED
        BY <1>1, <4>1, NextMade
    <3>8. /\ Fits(Owns(SysToken)', Waiting(SysToken)', give.ln, give.queue, {})
          /\ d \notin QueueRange(give.queue) /\ Owns(SysToken)'[d] = give.ln[d] + 1
      BY <2>6, <2>7, <2>8, <2>9, <2>12, <3>1, <3>4 DEF FitsAll
    <3> QED
      BY <1>1, <3>1, <3>5, <3>6, <3>7, <3>8, RightSent
  <2> QED
    BY <2>11, <2>12
<1> QED
  BY <1>7, <1>8, <1>9, <1>11, <1>12

LEMMA PacketGiveTokenNumbers ==
    ASSUME IInv, IInv', [Next]_vars, Asking, Young, Bounded, Few, Truthful,
           \A t \in Token : Right(t), NEW n \in Node, NEW p \in Node, PacketGiveToken(n, p)
    PROVE  Bounded' /\ Truthful' /\ \A t \in Token : Right(t)'
<1>1. PICK msg : msg = Head(net[p][n])
  OBVIOUS
<1>2. Arrives(n, p, "GiveToken") /\ TypeOK /\ net \in Channels /\ Honest(net, Last)
  BY DEF PacketGiveToken, IInv, TypeOK, Truthful, Channels
<1>3. CASE Unexpected(n, msg.token)
  <2>1. /\ net' = Received(n, p) /\ net[p][n] # <<>>
        /\ UNCHANGED <<nodeVars, tokenVars, pendingVars, appVars, faultVars>>
    BY <1>1, <1>2, <1>3 DEF PacketGiveToken, Arrives
  <2>2. Unmoved /\ UNCHANGED <<owned, locked>>
    BY <2>1 DEF Unmoved, nodeVars, tokenVars, pendingVars, appVars
  <2>3. Honest(net', Last)
    BY <1>2, <2>1, HonestReceived
  <2>4. NoneSent
    BY <1>2, <2>1, TakeMonitorTokenSends
  <2> QED
    BY <2>2, <2>3, <2>4, IdleNumbers
<1>4. CASE ~Unexpected(n, msg.token) /\ msg.token = SysToken
  <2>1. TakeSystemToken(n, p, msg)
    BY <1>1, <1>4 DEF PacketGiveToken
  <2> QED
    BY <1>1, <1>2, <1>4, <2>1, TakeSystemTokenNumbers
<1>5. CASE ~Unexpected(n, msg.token) /\ msg.token # SysToken
  <2>1. TakeMonitorToken(n, p, msg)
    BY <1>1, <1>5 DEF PacketGiveToken
  <2> QED
    BY <1>1, <1>2, <1>5, <2>1, TakeMonitorTokenNumbers
<1> QED
  BY <1>3, <1>4, <1>5

-----------------------------------------------------------------------------
(* The invariant.                                                           *)

Numbering == Bounded /\ Truthful /\ \A t \in Token : Right(t)

LEMMA InitNumbering == Init => Numbering
<1>1. Init => IInv
  BY InitIInv
<1> QED
  BY <1>1, InitNumbers, InitRight DEF Numbering

LEMMA NextNumbering ==
    ASSUME IInv, IInv', Meeting, Asking, Young, Numbering, Few, [Next]_vars
    PROVE  Numbering'
<1>1. Bounded /\ Truthful /\ (\A t \in Token : Right(t)) /\ TypeOK
  BY DEF Numbering, IInv
<1> SUFFICES Bounded' /\ Truthful' /\ \A t \in Token : Right(t)'
  BY DEF Numbering
<1>2. ASSUME NEW n \in Node, NEW p \in Node, HandleConnect(n, p)
      PROVE  Bounded' /\ Truthful' /\ \A t \in Token : Right(t)'
  BY <1>1, <1>2, HandleConnectNumbers
<1>3. ASSUME NEW n \in Node, NEW p \in Node,
             PacketClusterHandshake(n, p) \/ CrashInHandshake(n, p) \/ Disconnect(n, p)
      PROVE  Bounded' /\ Truthful' /\ \A t \in Token : Right(t)'
  BY <1>1, <1>3, CalmActionsNumbers
<1>4. ASSUME NEW n \in Node, NEW p \in Node, PacketGiveToken(n, p)
      PROVE  Bounded' /\ Truthful' /\ \A t \in Token : Right(t)'
  BY <1>1, <1>4, PacketGiveTokenNumbers
<1>5. ASSUME NEW n \in Node, NEW p \in Node, PacketRequestToken(n, p)
      PROVE  Bounded' /\ Truthful' /\ \A t \in Token : Right(t)'
  BY <1>1, <1>5, PacketRequestTokenNumbers
<1>6. ASSUME NEW n \in Node, NEW m \in Monitor, HandleNew(n, m)
      PROVE  Bounded' /\ Truthful' /\ \A t \in Token : Right(t)'
  BY <1>1, <1>6, HandleNewNumbers
<1>7. ASSUME NEW n \in Node, NEW m \in Monitor, RequestLock(n, m)
      PROVE  Bounded' /\ Truthful' /\ \A t \in Token : Right(t)'
  BY <1>1, <1>7, RequestLockNumbers
<1>8. ASSUME NEW n \in Node, NEW m \in Monitor, TakeGrant(n, m)
      PROVE  Bounded' /\ Truthful' /\ \A t \in Token : Right(t)'
  BY <1>1, <1>8, TakeGrantNumbers
<1>9. ASSUME NEW n \in Node, NEW m \in Monitor, RequestUnlock(n, m)
      PROVE  Bounded' /\ Truthful' /\ \A t \in Token : Right(t)'
  BY <1>1, <1>9, RequestUnlockNumbers
<1>10. CASE UNCHANGED vars
  <2>1. Unmoved /\ UNCHANGED <<net, owned, locked>>
    BY <1>10 DEF Unmoved, vars, nodeVars, tokenVars, pendingVars, appVars
  <2>2. Honest(net', Last)
    BY <1>1, <2>1 DEF Truthful
  <2>3. NoneSent
    BY <1>1, <2>1, FollowsSelf DEF NoneSent, TypeOK, Channels
  <2> QED
    BY <1>1, <2>1, <2>2, <2>3, IdleNumbers
<1> QED
  BY <1>2, <1>3, <1>4, <1>5, <1>6, <1>7, <1>8, <1>9, <1>10 DEF Next, Handle

LEMMA YoungInvariant == Spec => []Young
<1>1. Init => IInv /\ Meeting /\ Asking /\ Young
  BY InitIInv, InitMeeting, InitAsking, InitYoung
<1>2. IInv /\ Meeting /\ Asking /\ Young /\ [Next]_vars => Young'
  BY NextYoung
<1> QED
  BY <1>1, <1>2, IInvInvariant, MeetingInvariant, AskingInvariant, PTL DEF Spec

LEMMA NumberingInvariant == ASSUME Few PROVE Spec => []Numbering
<1>1. Init => Numbering
  BY InitNumbering
<1>2. IInv /\ IInv' /\ Meeting /\ Asking /\ Young /\ Numbering /\ [Next]_vars => Numbering'
  BY NextNumbering
<1> QED
  BY <1>1, <1>2, IInvInvariant, MeetingInvariant, AskingInvariant, YoungInvariant, PTL
  DEF Spec

-----------------------------------------------------------------------------
(* What it is for.                                                          *)

\* The record that travels with a token fits all nodes but the one that has it.
LEMMA TravellingFits ==
    ASSUME IInv, Numbering, NEW t \in Token, NEW r \in Travelling(t)
    PROVE  /\ Single(r.queue) /\ r.at \notin QueueRange(r.queue)
           /\ \A k \in Node : Owns(t)[k] \in {r.ln[k], r.ln[k] + 1}
<1>1. CASE \E n \in Node : /\ t \in owned[n]
                           /\ r = [at |-> n, ln |-> alg[n][t].ln, queue |-> alg[n][t].queue]
  <2>1. PICK n \in Node : /\ t \in owned[n] /\ r.at = n /\ r.ln = alg[n][t].ln
                          /\ r.queue = alg[n][t].queue
    BY <1>1
  <2>2. Holding(t, n)
    BY <2>1 DEF Numbering, Right, Held
  <2> QED
    BY <2>1, <2>2 DEF Holding, Fits, QueueRange
<1>2. CASE \E f \in Flights(t) : r = [at |-> f[2], ln |-> net[f[1]][f[2]][f[3]].ln,
                                      queue |-> net[f[1]][f[2]][f[3]].queue]
  <2>0. PICK f \in Flights(t) : r = [at |-> f[2], ln |-> net[f[1]][f[2]][f[3]].ln,
                                     queue |-> net[f[1]][f[2]][f[3]].queue]
    BY <1>2
  <2> DEFINE msg == net[f[1]][f[2]][f[3]]
  <2> HIDE DEF msg
  <2>1. r.at = f[2] /\ r.ln = msg.ln /\ r.queue = msg.queue
    <3>1. r = [at |-> f[2], ln |-> msg.ln, queue |-> msg.queue]
      BY <2>0 DEF msg
    <3> QED
      BY <3>1
  <2>2. PICK a \in Node, b \in Node : \E i \in DOMAIN net[a][b] :
           Gives(net[a][b][i], t) /\ f = <<a, b, i>>
    BY DEF Flights
  <2>3. PICK i \in Nat : Carries(net, a, b, i, t) /\ f = <<a, b, i>>
    <3>1. net[a][b] \in Seq(Message)
      BY DEF IInv, TypeOK
    <3> QED
      BY <2>2, <3>1 DEF Carries
  <2>4. Coming(t, b, net[a][b][i])
    BY <2>3 DEF Numbering, Right
  <2> QED
    BY <2>1, <2>3, <2>4 DEF Coming, Fits, msg
<1> QED
  BY <1>1, <1>2 DEF Travelling

\* The queue that travels with a token names nobody twice, and never the node that
\* has the token or gets it: release and requestUnlock hand the token to somebody
\* else, and nobody is served twice for one request.
THEOREM QueueSaneHolds == ASSUME Few PROVE Spec => []QueueSane
<1>1. IInv /\ Numbering => QueueSane
  <2> SUFFICES ASSUME IInv, Numbering, NEW t \in Token, NEW r \in Travelling(t)
               PROVE  /\ \A i, j \in DOMAIN r.queue : r.queue[i] = r.queue[j] => i = j
                      /\ r.at \notin QueueRange(r.queue)
    BY DEF QueueSane
  <2> QED
    BY TravellingFits DEF Single
<1> QED
  BY <1>1, IInvInvariant, NumberingInvariant, PTL

\* Nobody believes in a request that was never made, and the token has served every
\* request of a node but the last: rn = ln + 1, as release and packetRequestToken
\* test it, says that the node waits.
THEOREM RequestWindowHolds == ASSUME Few PROVE Spec => []RequestWindow
<1>1. IInv /\ Numbering => RequestWindow
  <2> SUFFICES ASSUME IInv, Numbering, NEW t \in Token, NEW r \in Travelling(t),
                      NEW j \in Node, NEW k \in Node
               PROVE  /\ alg[j][t].rn[k] <= alg[k][t].rn[k]
                      /\ alg[k][t].rn[k] \in {r.ln[k], r.ln[k] + 1}
    BY DEF RequestWindow
  <2>1. Owns(t)[k] = alg[k][t].rn[k] /\ Last[t][k] = alg[k][t].rn[k]
    BY LastType DEF IInv
  <2>2. alg[j][t].rn[k] <= Last[t][k]
    BY DEF Numbering, Truthful
  <2> QED
    BY <2>1, <2>2, TravellingFits
<1> QED
  BY <1>1, IInvInvariant, NumberingInvariant, PTL

-----------------------------------------------------------------------------
(* A request is kept: its number is the next the token serves, and everybody *)
(* knows it or is sent it.                                                   *)

\* What the token has served, wherever it is; nothing before it is made.
Served(t, ln) ==
    \/ \E k \in Node : t \in Held(k) /\ ln = alg[k][t].ln
    \/ \E a, b \in Node : \E i \in Nat : Carries(net, a, b, i, t) /\ ln = net[a][b][i].ln
    \/ ~Made(t) /\ ln = NoneServed

\* The next request the token serves is the one n waits for.
Unserved(t) ==
    \A n \in Node : Needs(n, t) =>
        \A ln \in Numbers : Served(t, ln) => Owns(t)[n] = ln[n] + 1

\* msg is under way from a to b in w.
InTransit(w, a, b, msg) == \E i \in DOMAIN w[a][b] : w[a][b][i] = msg

\* k heard of the request x of n for t, or will.
Knows(t, n, k, x) == alg[k][t].rn[n] = x \/ InTransit(net, n, k, RequestTokenMsg(t, x))

Heralded(n, t) == \A k \in Node \ {n} : Knows(t, n, k, Owns(t)[n])

\* Nobody waits for what it owns.
Disjoint == \A n \in Node : pendingRequests[n] \cap owned[n] = {}

\* Whoever has started is connected with everybody.
Linked == \A n \in started : links[n] = Node \ {n}

Keeping ==
    /\ cut = {} /\ dead = {} /\ Linked /\ Disjoint
    /\ \A t \in Token : Unserved(t)
    /\ \A n \in Node, t \in Token : Needs(n, t) => Heralded(n, t)

-----------------------------------------------------------------------------
(* Requests stay under way until they arrive.                               *)

\* A request under way stays so when another packet arrives.
LEMMA InTransitReceived ==
    ASSUME net \in Channels, NEW n \in Node, NEW p \in Node, net[p][n] # <<>>,
           NEW a \in Node, NEW b \in Node, NEW msg, InTransit(net, a, b, msg),
           a = p /\ b = n => msg # Head(net[p][n])
    PROVE  InTransit(Received(n, p), a, b, msg)
<1>1. PICK i \in DOMAIN net[a][b] : net[a][b][i] = msg
  BY DEF InTransit
<1>2. net[a][b] \in Seq(Message) /\ net \in [Node -> [Node -> Seq(Message)]]
  BY DEF Channels
<1>3. CASE a = p /\ b = n
  <2>1. Received(n, p)[a][b] = Tail(net[a][b])
    BY <1>2, <1>3 DEF Received
  <2>2. i # 1
    BY <1>1, <1>2, <1>3
  <2>3. i - 1 \in DOMAIN Tail(net[a][b]) /\ Tail(net[a][b])[i - 1] = net[a][b][i]
    BY <1>2, <1>3, <2>2
  <2> QED
    BY <1>1, <2>1, <2>3 DEF InTransit
<1>4. CASE ~(a = p /\ b = n)
  <2>1. Received(n, p)[a][b] = net[a][b]
    BY <1>2, <1>4 DEF Received
  <2> QED
    BY <1>1, <2>1 DEF InTransit
<1> QED
  BY <1>3, <1>4

\* Posting takes nothing from a channel.
LEMMA InTransitPost ==
    ASSUME NEW w \in Channels, NEW n \in Node, NEW peers, NEW msgs \in Seq(Message),
           NEW a \in Node, NEW b \in Node, NEW msg, InTransit(w, a, b, msg)
    PROVE  InTransit(Post(w, n, peers, msgs), a, b, msg)
<1>1. PICK i \in DOMAIN w[a][b] : w[a][b][i] = msg
  BY DEF InTransit
<1>2. w[a][b] \in Seq(Message) /\ w \in [Node -> [Node -> Seq(Message)]]
  BY DEF Channels
<1>3. \/ Post(w, n, peers, msgs)[a][b] = w[a][b]
      \/ Post(w, n, peers, msgs)[a][b] = w[a][b] \o msgs
  BY <1>2 DEF Post
<1>4. i \in DOMAIN (w[a][b] \o msgs) /\ (w[a][b] \o msgs)[i] = w[a][b][i]
  BY <1>2
<1> QED
  BY <1>1, <1>3, <1>4 DEF InTransit

\* Over connections that hold, what is sent is under way.
LEMMA InTransitPosted ==
    ASSUME NEW w \in Channels, NEW n \in Node, NEW peers, NEW msgs \in Seq(Message), cut = {},
           NEW d \in Node, d \in peers, NEW j \in DOMAIN msgs
    PROVE  InTransit(Post(w, n, peers, msgs), n, d, msgs[j])
<1>1. w[n][d] \in Seq(Message) /\ w \in [Node -> [Node -> Seq(Message)]]
  BY DEF Channels
<1>2. Post(w, n, peers, msgs)[n][d] = w[n][d] \o msgs
  BY <1>1 DEF Post
<1>3. Len(w[n][d]) + j \in DOMAIN (w[n][d] \o msgs) /\ (w[n][d] \o msgs)[Len(w[n][d]) + j] = msgs[j]
  BY <1>1
<1> QED
  BY <1>2, <1>3 DEF InTransit

\* The requests for T: what was under way stays, and everybody is sent every one.
LEMMA InTransitRequests ==
    ASSUME NEW w \in Channels, NEW n \in Node, NEW peers,
           NEW x \in [Token -> Alg], NEW T \in SUBSET Token, NEW order \in Orderings(T),
           NEW v, v = Post(w, n, peers, RequestMsgs(x, n, order))
    PROVE  /\ \A a, b \in Node : \A msg : InTransit(w, a, b, msg) => InTransit(v, a, b, msg)
           /\ cut = {} => \A d \in Node \cap peers : \A t \in T :
                 InTransit(v, n, d, RequestTokenMsg(t, x[t].rn[n]))
<1> DEFINE msgs == RequestMsgs(x, n, order)
<1>1. msgs \in Seq(Message)
  BY RequestMsgsType
<1>2. \A a, b \in Node : \A msg : InTransit(w, a, b, msg) => InTransit(v, a, b, msg)
  <2> HIDE DEF msgs
  <2> QED
    BY <1>1, InTransitPost DEF msgs
<1>3. ASSUME cut = {}, NEW d \in Node, d \in peers, NEW t \in T
      PROVE  InTransit(v, n, d, RequestTokenMsg(t, x[t].rn[n]))
  <2>1. PICK j \in DOMAIN order : order[j] = t
    <3> DEFINE S == 1 .. Cardinality(T)
    <3>1. IsFiniteSet(T) /\ order \in [S -> T] /\ DOMAIN order = S /\ Cardinality(T) \in Nat
      BY TokenFinite, FS_CardinalityType DEF Orderings
    <3>2. \A i, j \in S : order[i] = order[j] => i = j
      BY <3>1 DEF Orderings
    <3>3. order \in Injection(S, T)
      BY <3>1, <3>2 DEF Injection, IsInjective
    <3>4. Cardinality(S) = Cardinality(T)
      BY <3>1, FS_Interval
    <3> HIDE DEF S
    <3>5. order \in Surjection(S, T)
      BY <3>1, <3>3, <3>4, FS_Injection
    <3> QED
      BY <3>1, <3>5 DEF Surjection
  <2>2. j \in DOMAIN msgs /\ msgs[j] = RequestTokenMsg(t, x[t].rn[n])
    BY <2>1 DEF RequestMsgs
  <2> HIDE DEF msgs
  <2>3. InTransit(Post(w, n, peers, msgs), n, d, msgs[j])
    BY <1>1, <1>3, <2>2, InTransitPosted
  <2> QED
    BY <2>2, <2>3 DEF msgs
<1> QED
  BY <1>2, <1>3

\* A node starts when it is connected with everybody, and connections hold.
LEMMA NextLinked ==
    ASSUME TypeOK, Meeting, Linked, [Next]_vars
    PROVE  Linked'
<1>1. ASSUME NEW n \in Node, NEW p \in Node, HandleConnect(n, p) PROVE Linked'
  <2> DEFINE peers == links[n] \cup {p}
             starts == Cardinality(peers) >= N - 1 /\ n \notin started
  <2>1. /\ net[p][n] \in Seq(Message) /\ net[p][n] # <<>> /\ Edge(Head(net[p][n]))
        /\ links \in [Node -> SUBSET Node]
    BY <1>1 DEF HandleConnect, Arrives, TypeOK, Edge
  <2>2. 1 \in DOMAIN net[p][n] /\ net[p][n][1] = Head(net[p][n])
    BY <2>1
  <2>3. p # n
    BY <2>1, <2>2 DEF Meeting, Met
  <2>4. peers \in SUBSET (Node \ {n})
    BY <2>3 DEF Meeting
  <2>5. starts => peers = Node \ {n}
    <3>1. \A S \in SUBSET (Node \ {n}) : Cardinality(S) >= N - 1 => S = Node \ {n}
      BY OthersCount
    <3> QED
      BY <2>4, <3>1
  <2>6. links' = [links EXCEPT ![n] = peers] /\ started' = IF starts THEN started \cup {n} ELSE started
    BY <1>1 DEF HandleConnect
  <2> HIDE DEF starts
  <2> QED
    BY <2>1, <2>4, <2>5, <2>6 DEF Linked
<1>2. ASSUME UNCHANGED <<links, started>> PROVE Linked'
  BY <1>2 DEF Linked
<1>3. ASSUME NEW n \in Node, NEW p \in Node,
             \/ PacketClusterHandshake(n, p) \/ PacketGiveToken(n, p)
             \/ PacketRequestToken(n, p) \/ CrashInHandshake(n, p) \/ Disconnect(n, p)
      PROVE  UNCHANGED <<links, started>>
  BY <1>3 DEF PacketClusterHandshake, PacketGiveToken, TakeSystemToken, TakeMonitorToken,
     PacketRequestToken, CrashInHandshake, Disconnect, nodeVars
<1>4. ASSUME NEW n \in Node, NEW m \in Monitor,
             HandleNew(n, m) \/ RequestLock(n, m) \/ TakeGrant(n, m) \/ RequestUnlock(n, m)
      PROVE  UNCHANGED <<links, started>>
  BY <1>4 DEF HandleNew, RequestLock, TakeGrant, RequestUnlock, nodeVars
<1>5. UNCHANGED vars => UNCHANGED <<links, started>>
  BY DEF vars, nodeVars
<1> QED
  BY <1>1, <1>2, <1>3, <1>4, <1>5 DEF Next, Handle

\* What a node comes to own it does not wait for, and what it owns it does not ask for.
LEMMA NextDisjoint ==
    ASSUME IInv, IInv', Asking, Young, Settles, Numbering, Few, Disjoint, [Next]_vars
    PROVE  Disjoint'
<1>1. /\ TypeOK /\ SysToken \in Token /\ SysToken \notin Monitor /\ Wants
      /\ owned \in [Node -> SUBSET Token] /\ pendingRequests \in [Node -> SUBSET Token]
  BY MonitorAssumption DEF IInv, TypeOK, Token, Asking
<1>2. ASSUME NEW n \in Node, owned'[n] \cap pendingRequests'[n] = {},
             \A k \in Node \ {n} : /\ owned'[k] \subseteq owned[k]
                                   /\ pendingRequests'[k] \subseteq pendingRequests[k]
      PROVE  Disjoint'
  BY <1>2 DEF Disjoint
<1>3. ASSUME \A k \in Node : owned'[k] \subseteq owned[k], pendingRequests' = pendingRequests
      PROVE  Disjoint'
  BY <1>3 DEF Disjoint
<1>4. ASSUME NEW n \in Node, NEW p \in Node, HandleConnect(n, p) PROVE Disjoint'
  <2>1. pendingRequests' = pendingRequests
    BY <1>4 DEF HandleConnect, pendingVars
  <2>2. CASE owned' = owned
    BY <1>3, <2>1, <2>2
  <2>3. CASE owned' # owned
    <3>1. n = 0 /\ n \notin started /\ owned' = [owned EXCEPT ![n] = @ \cup {SysToken}]
      BY <1>1, <1>4, <2>3 DEF HandleConnect
    <3>2. pendingRequests[n] = {}
      BY <3>1 DEF Young
    <3> QED
      BY <1>1, <1>2, <2>1, <3>1, <3>2
  <2> QED
    BY <2>2, <2>3
<1>5. ASSUME NEW n \in Node, NEW p \in Node, PacketGiveToken(n, p) PROVE Disjoint'
  <2> DEFINE msg == Head(net[p][n])
  <2>1. CASE UNCHANGED <<tokenVars, pendingVars>>
    BY <1>3, <2>1 DEF tokenVars, pendingVars
  <2>2. CASE TakeMonitorToken(n, p, msg)
    <3> DEFINE m == msg.token
    <3>1. /\ owned' = [owned EXCEPT ![n] = @ \cup {m}]
          /\ pendingRequests' = [pendingRequests EXCEPT ![n] = @ \ {m}]
      BY <2>2 DEF TakeMonitorToken
    <3> HIDE DEF m
    <3>2. owned'[n] \cap pendingRequests'[n] = {}
      BY <1>1, <3>1 DEF Disjoint
    <3> QED
      BY <1>1, <1>2, <3>1, <3>2
  <2>3. CASE msg.token = SysToken /\ TakeSystemToken(n, p, msg)
    <3>1. Arrives(n, p, "GiveToken") /\ Right(SysToken) /\ Bounded /\ Truthful /\ TypeOK'
      BY <1>1, <1>5 DEF PacketGiveToken, Numbering, IInv
    <3>2. PICK give : give = msg
      OBVIOUS
    <3>3. give = Head(net[p][n]) /\ give.token = SysToken /\ TakeSystemToken(n, p, give)
      BY <2>3, <3>2
    <3>4. PICK new \in SUBSET Monitor, adopted \in SUBSET Monitor, a \in Alg, after \in Alg,
               asked \in Channels : Sorts(n, p, give, new, adopted, a, after, asked)
      BY <3>1, <3>3, TakeSystemTokenSorts
    <3>5. Sorted(n, new, adopted)
      BY <3>1, <3>3, <3>4, TakeSystemTokenMoves
    <3>6. /\ pendingRequests'[n] = (pendingRequests[n] \ {SysToken}) \cup new
          /\ owned'[n] \subseteq owned[n] \cup adopted \cup {SysToken}
          /\ \A k \in Node \ {n} : /\ owned'[k] = owned[k]
                                   /\ pendingRequests'[k] = pendingRequests[k]
          /\ new \cap adopted = {} /\ new \cap owned[n] = {}
      BY <3>5 DEF Sorted, Held, Elsewhere
    <3>7. adopted \cap pendingRequests[n] = {}
      BY <1>1, <3>4 DEF Sorts, Settles
    <3>8. owned'[n] \cap pendingRequests'[n] = {}
      BY <1>1, <3>6, <3>7 DEF Disjoint
    <3> QED
      BY <1>2, <3>6, <3>8
  <2> QED
    BY <1>5, <2>1, <2>2, <2>3 DEF PacketGiveToken
<1>6. ASSUME NEW n \in Node, NEW p \in Node,
             \/ PacketClusterHandshake(n, p) \/ PacketRequestToken(n, p)
             \/ CrashInHandshake(n, p) \/ Disconnect(n, p)
      PROVE  Disjoint'
  <2>1. pendingRequests' = pendingRequests
    BY <1>6 DEF PacketClusterHandshake, PacketRequestToken, CrashInHandshake, Disconnect,
       pendingVars
  <2>2. owned' = owned \/ \E t : owned' = [owned EXCEPT ![n] = @ \ {t}]
    BY <1>6 DEF PacketClusterHandshake, PacketRequestToken, CrashInHandshake, Disconnect,
       tokenVars
  <2> QED
    BY <1>1, <1>3, <2>1, <2>2
<1>7. ASSUME NEW n \in Node, NEW m \in Monitor, HandleNew(n, m) PROVE Disjoint'
  <2>1. m \notin pendingRequests[n] \/ m \in private[n]
    BY <1>1 DEF Wants
  <2>2. \/ owned' = owned /\ pendingRequests' = pendingRequests
        \/ /\ m \notin private[n] /\ pendingRequests' = pendingRequests
           /\ owned' = [owned EXCEPT ![n] = @ \cup {m}]
        \/ /\ ~Exists(n, m) /\ ~Adopts(n, m) /\ owned' = owned
           /\ pendingRequests' = [pendingRequests EXCEPT ![n] = @ \cup {SysToken}]
    <3>1. CASE m \in private[n]
      BY <1>7, <3>1 DEF HandleNew
    <3>2. CASE m \notin private[n] /\ Adopts(n, m)
      BY <1>7, <3>2 DEF HandleNew
    <3>3. CASE m \notin private[n] /\ ~Adopts(n, m)
      <4>1. owned' = owned
        BY <1>1, <1>7, <3>3 DEF HandleNew
      <4>2. CASE Exists(n, m)
        BY <1>7, <3>3, <4>1, <4>2 DEF HandleNew
      <4>3. CASE ~Exists(n, m)
        <5>1. RequestTokens(n, {SysToken})
          BY <1>7, <3>3, <4>3 DEF HandleNew
        <5>2. pendingRequests' = [pendingRequests EXCEPT ![n] = @ \cup {SysToken}]
          BY <1>1, <5>1 DEF RequestTokens
        <5> QED
          BY <3>3, <4>1, <4>3, <5>2
      <4> QED
        BY <4>2, <4>3
    <3> QED
      BY <3>1, <3>2, <3>3
  <2>3. CASE owned' = owned /\ pendingRequests' = pendingRequests
    BY <1>3, <2>3
  <2>4. CASE /\ m \notin private[n] /\ pendingRequests' = pendingRequests
             /\ owned' = [owned EXCEPT ![n] = @ \cup {m}]
    <3>1. owned'[n] \cap pendingRequests'[n] = {}
      BY <1>1, <2>1, <2>4 DEF Disjoint
    <3> QED
      BY <1>1, <1>2, <2>4, <3>1
  <2>5. CASE /\ ~Exists(n, m) /\ ~Adopts(n, m) /\ owned' = owned
             /\ pendingRequests' = [pendingRequests EXCEPT ![n] = @ \cup {SysToken}]
    <3>1. SysToken \notin owned[n]
      BY <2>5 DEF Adopts, Young, YoungAt
    <3>2. owned'[n] \cap pendingRequests'[n] = {}
      BY <1>1, <2>5, <3>1 DEF Disjoint
    <3> QED
      BY <1>1, <1>2, <2>5, <3>2
  <2> QED
    BY <2>2, <2>3, <2>4, <2>5
<1>8. ASSUME NEW n \in Node, NEW m \in Monitor, RequestLock(n, m) PROVE Disjoint'
  <2>1. owned' = owned
    BY <1>8 DEF RequestLock
  <2>2. \/ pendingRequests' = pendingRequests
        \/ m \notin owned[n] /\ pendingRequests' = [pendingRequests EXCEPT ![n] = @ \cup {m}]
    BY <1>8 DEF RequestLock, RequestTokens, pendingVars
  <2>3. CASE pendingRequests' = pendingRequests
    BY <1>3, <2>1, <2>3
  <2>4. CASE m \notin owned[n] /\ pendingRequests' = [pendingRequests EXCEPT ![n] = @ \cup {m}]
    <3>1. owned'[n] \cap pendingRequests'[n] = {}
      BY <1>1, <2>1, <2>4 DEF Disjoint
    <3> QED
      BY <1>1, <1>2, <2>1, <2>4, <3>1
  <2> QED
    BY <2>2, <2>3, <2>4
<1>9. ASSUME NEW n \in Node, NEW m \in Monitor, TakeGrant(n, m) \/ RequestUnlock(n, m)
      PROVE  Disjoint'
  <2>1. pendingRequests' = pendingRequests
    BY <1>9 DEF TakeGrant, RequestUnlock, pendingVars
  <2>2. owned' = owned \/ owned' = [owned EXCEPT ![n] = @ \ {m}]
    BY <1>9 DEF TakeGrant, RequestUnlock, tokenVars
  <2> QED
    BY <1>1, <1>3, <2>1, <2>2
<1>10. CASE UNCHANGED vars
  BY <1>3, <1>10 DEF vars, tokenVars, pendingVars
<1> QED
  BY <1>4, <1>5, <1>6, <1>7, <1>8, <1>9, <1>10 DEF Next, Handle

-----------------------------------------------------------------------------
(* What a token has served: a step serves nobody who still waits after it.  *)

\* ln2 serves those who wait after the step no further than the token did before.
Descends(t, ln2) ==
    \E ln \in Numbers : Served(t, ln) /\ \A n \in Node : Needs(n, t)' => ln2[n] = ln[n]

Stems(t) == \A ln2 \in Numbers : Served(t, ln2)' => Descends(t, ln2)

\* A record that agrees with one held before the step.
LEMMA DescendsHeld ==
    ASSUME TypeOK, NEW t \in Token, NEW k \in Node, t \in Held(k), NEW ln2,
           \A n \in Node : Needs(n, t)' => ln2[n] = alg[k][t].ln[n]
    PROVE  Descends(t, ln2)
<1>1. alg[k][t].ln \in Numbers
  BY OwnsType
<1>2. Served(t, alg[k][t].ln)
  BY DEF Served
<1> QED
  BY <1>1, <1>2 DEF Descends

\* A record that agrees with one in a packet before the step.
LEMMA DescendsCarried ==
    ASSUME TypeOK, NEW t \in Token, NEW a \in Node, NEW b \in Node, NEW i \in Nat,
           Carries(net, a, b, i, t), NEW ln2,
           \A n \in Node : Needs(n, t)' => ln2[n] = net[a][b][i].ln[n]
    PROVE  Descends(t, ln2)
<1>1. net[a][b][i].ln \in Numbers
  BY CarriedType
<1>2. Served(t, net[a][b][i].ln)
  BY DEF Served
<1> QED
  BY <1>1, <1>2 DEF Descends

\* The first record of a token that was not made yet.
LEMMA DescendsNone ==
    ASSUME NEW t \in Token, ~Made(t)
    PROVE  Descends(t, NoneServed)
<1>1. NoneServed \in Numbers
  BY DEF NoneServed, Numbers
<1>2. Served(t, NoneServed)
  BY DEF Served
<1> QED
  BY <1>1, <1>2 DEF Descends

\* It is enough to look at who holds the token after the step, and at its packet.
LEMMA StemsFrom ==
    ASSUME NEW t \in Token, Made(t) => Made(t)',
           \A k \in Node : t \in Held(k)' => Descends(t, alg'[k][t].ln),
           \A a, b \in Node : \A i \in Nat :
              Carries(net', a, b, i, t) => Descends(t, net'[a][b][i].ln)
    PROVE  Stems(t)
<1> SUFFICES ASSUME NEW ln2 \in Numbers, Served(t, ln2)'
             PROVE  Descends(t, ln2)
  BY DEF Stems
<1>1. CASE \E k \in Node : t \in Held(k)' /\ ln2 = alg'[k][t].ln
  BY <1>1
<1>2. CASE \E a, b \in Node : \E i \in Nat :
              Carries(net', a, b, i, t) /\ ln2 = net'[a][b][i].ln
  BY <1>2
<1>3. CASE ~Made(t)' /\ ln2 = NoneServed
  BY <1>3, DescendsNone
<1> QED
  BY <1>1, <1>2, <1>3 DEF Served, NoneServed

\* A packet that was there before, or one place further back.
LEMMA DescendsEarlier ==
    ASSUME TypeOK, NEW t \in Token, NEW a \in Node, NEW b \in Node, NEW x, Earlier(a, b, t, x)
    PROVE  Descends(t, x.ln)
BY DescendsCarried DEF Earlier

\* The token stays where it is, or gets lost.
LEMMA StemsQuiet ==
    ASSUME IInv, IInv', NEW t \in Token, Made(t) => Made(t)', NoneSent,
           \A k \in Node : SameRecord(t, k),
           \A k \in Node : t \in Held(k)' => t \in Held(k)
    PROVE  Stems(t)
<1>1. TypeOK /\ net' \in Channels
  BY DEF IInv, TypeOK, Channels
<1>2. ASSUME NEW k \in Node, t \in Held(k)' PROVE Descends(t, alg'[k][t].ln)
  BY <1>1, <1>2, DescendsHeld DEF SameRecord
<1>3. ASSUME NEW a \in Node, NEW b \in Node, NEW i \in Nat, Carries(net', a, b, i, t)
      PROVE  Descends(t, net'[a][b][i].ln)
  BY <1>1, <1>3, NoneSentOrigin, DescendsEarlier
<1> QED
  BY <1>2, <1>3, StemsFrom

\* No step that sends and takes no token, and changes no record, serves anybody.
LEMMA StemsCalm ==
    ASSUME IInv, IInv', [Next]_vars, NoneSent, \A t \in Token : \A k \in Node : SameRecord(t, k),
           \A k \in Node : Held(k)' \subseteq Held(k)
    PROVE  \A t \in Token : Stems(t)
<1> SUFFICES ASSUME NEW t \in Token PROVE Stems(t)
  OBVIOUS
<1>1. Made(t) => Made(t)'
  BY NextMade
<1> QED
  BY <1>1, StemsQuiet

\* In a steady step no record changes.
LEMMA SteadyRecord ==
    ASSUME \A t \in Token : Steady(t)
    PROVE  \A t \in Token : \A k \in Node : SameRecord(t, k)
BY DEF Steady

\* Nor in an unmoved one.
LEMMA UnmovedRecord ==
    ASSUME Unmoved
    PROVE  \A t \in Token : \A k \in Node : SameRecord(t, k)
BY DEF Unmoved, SameRecord

\* Node 0 makes the system token: nobody was served.
LEMMA HandleConnectStems ==
    ASSUME IInv, IInv', [Next]_vars, \A t \in Token : Right(t),
           NEW n \in Node, NEW p \in Node, HandleConnect(n, p)
    PROVE  \A t \in Token : Stems(t)
<1>1. /\ TypeOK /\ SysToken \in Token /\ owned \in [Node -> SUBSET Token] /\ net' \in Channels
  BY DEF IInv, TypeOK, Token, Channels
<1>2. NoneSent
  BY <1>1, QuietActions
<1>3. locked' = locked /\ alg' = alg
  BY DEF HandleConnect
<1>4. \A t \in Token : \A k \in Node : SameRecord(t, k)
  BY <1>3 DEF SameRecord
<1>5. CASE owned' = owned
  <2>1. \A k \in Node : Held(k)' \subseteq Held(k)
    BY <1>3, <1>5 DEF Held
  <2> QED
    BY <1>2, <1>4, <2>1, StemsCalm
<1>6. CASE owned' # owned
  <2>1. /\ n = 0 /\ n \notin started /\ owned' = [owned EXCEPT ![n] = @ \cup {SysToken}]
    BY <1>1, <1>6 DEF HandleConnect
  <2> SUFFICES ASSUME NEW t \in Token PROVE Stems(t)
    OBVIOUS
  <2>2. Made(t) => Made(t)'
    BY NextMade
  <2>3. CASE t # SysToken
    <3>1. \A k \in Node : t \in Held(k)' => t \in Held(k)
      BY <1>1, <1>3, <2>1, <2>3 DEF Held
    <3> QED
      BY <1>2, <1>4, <2>2, <3>1, StemsQuiet
  <2>4. CASE t = SysToken
    <3>1. ~Made(t) /\ Pristine(t)
      BY <1>1, <2>1, <2>4 DEF Right, Made
    <3>2. \A k \in Node : alg'[k][t].ln = NoneServed
      BY <1>3, <3>1 DEF Pristine
    <3>3. \A k \in Node : t \in Held(k)' => Descends(t, alg'[k][t].ln)
      BY <3>1, <3>2, DescendsNone
    <3>4. \A a, b \in Node : \A i \in Nat :
             Carries(net', a, b, i, t) => Descends(t, net'[a][b][i].ln)
      BY <1>1, <1>2, NoneSentOrigin, DescendsEarlier
    <3> QED
      BY <2>2, <3>3, <3>4, StemsFrom
  <2> QED
    BY <2>3, <2>4
<1> QED
  BY <1>5, <1>6

\* Handshakes of the cluster, crashes and disconnects serve nobody.
LEMMA CalmStems ==
    ASSUME IInv, IInv', [Next]_vars, Asking, Young, Bounded, Few, Truthful,
           NEW n \in Node, NEW p \in Node,
           PacketClusterHandshake(n, p) \/ CrashInHandshake(n, p) \/ Disconnect(n, p)
    PROVE  \A t \in Token : Stems(t)
<1>1. TypeOK /\ Honest(net, Last)
  BY DEF IInv, Truthful
<1>2. \A t \in Token : \A k \in Node : SameRecord(t, k)
  <2>1. CASE PacketClusterHandshake(n, p)
    BY <2>1, PacketClusterHandshakeSteady, SteadyRecord
  <2>2. CASE CrashInHandshake(n, p) \/ Disconnect(n, p)
    <3>1. Unmoved
      BY <1>1, <2>2, UnmovedActions
    <3> QED
      BY <3>1, UnmovedRecord
  <2> QED
    BY <2>1, <2>2
<1>3. NoneSent
  BY <1>1, QuietActions
<1>4. owned \in [Node -> SUBSET Token] /\ locked \in [Node -> SUBSET Token]
  BY <1>1 DEF TypeOK
<1>5. /\ owned' = owned
      /\ locked' = locked \/ \E G \in SUBSET owned[n] : locked' = [locked EXCEPT ![n] = @ \cup G]
  <2>1. CASE PacketClusterHandshake(n, p)
    <3>1. owned' = owned
      BY <2>1 DEF PacketClusterHandshake
    <3> DEFINE due == pendingGrants[n] \cap public[n] \cap owned[n]
    <3>2. locked' = locked \/ \E G \in GrantOutcomes(due) : Grant(n, G)
      BY <2>1 DEF PacketClusterHandshake
    <3>3. \A G \in GrantOutcomes(due) : G \in SUBSET due
      BY DEF GrantOutcomes
    <3>4. due \subseteq owned[n]
      OBVIOUS
    <3> HIDE DEF due
    <3> QED
      BY <3>1, <3>2, <3>3, <3>4 DEF Grant
  <2>2. CASE CrashInHandshake(n, p) \/ Disconnect(n, p)
    BY <2>2 DEF CrashInHandshake, Disconnect, tokenVars
  <2> QED
    BY <2>1, <2>2
<1>6. \A k \in Node : Held(k)' \subseteq Held(k)
  BY <1>4, <1>5 DEF Held
<1> QED
  BY <1>2, <1>3, <1>6, StemsCalm

\* Locking serves nobody: it takes a token the node has, or asks.
LEMMA RequestLockStems ==
    ASSUME IInv, IInv', [Next]_vars, Bounded, Few, Truthful,
           NEW n \in Node, NEW m \in Monitor, RequestLock(n, m)
    PROVE  \A t \in Token : Stems(t)
<1>1. TypeOK
  BY DEF IInv
<1>2. \A t \in Token : \A k \in Node : SameRecord(t, k)
  BY RequestLockSteady, SteadyRecord
<1>3. NoneSent
  BY <1>1, QuietCalls
<1>4. /\ owned \in [Node -> SUBSET Token] /\ locked \in [Node -> SUBSET Token]
      /\ owned' = owned
      /\ locked' = locked \/ (m \in owned[n] /\ locked' = [locked EXCEPT ![n] = @ \cup {m}])
  <2>1. CASE m \notin locked[n] /\ n \in startedCluster /\ m \in owned[n]
    BY <1>1, <2>1 DEF RequestLock, TypeOK
  <2>2. CASE ~(m \notin locked[n] /\ n \in startedCluster /\ m \in owned[n])
    <3>1. locked' = locked
      BY <2>2 DEF RequestLock
    <3> QED
      BY <1>1, <3>1 DEF RequestLock, TypeOK
  <2> QED
    BY <2>1, <2>2
<1>5. \A k \in Node : Held(k)' \subseteq Held(k)
  BY <1>4 DEF Held
<1> QED
  BY <1>2, <1>3, <1>5, StemsCalm

\* A step that leaves the bookkeeping alone serves nobody.
LEMMA IdleStems ==
    ASSUME IInv, IInv', [Next]_vars, Unmoved, NoneSent, UNCHANGED <<owned, locked>>
    PROVE  \A t \in Token : Stems(t)
<1>1. \A t \in Token : \A k \in Node : SameRecord(t, k)
  BY UnmovedRecord
<1>2. \A k \in Node : Held(k)' \subseteq Held(k)
  BY DEF Held
<1> QED
  BY <1>1, <1>2, StemsCalm

\* Nor does taking a grant.
LEMMA TakeGrantStems ==
    ASSUME IInv, IInv', [Next]_vars, NEW n \in Node, NEW m \in Monitor, TakeGrant(n, m)
    PROVE  \A t \in Token : Stems(t)
<1>1. TypeOK
  BY DEF IInv
<1>2. Unmoved /\ UNCHANGED <<owned, locked>>
  BY DEF TakeGrant, Unmoved, nodeVars, tokenVars, pendingVars
<1>3. NoneSent
  BY <1>1, QuietCalls
<1> QED
  BY <1>2, <1>3, IdleStems

\* A new monitor's token has served nobody.
LEMMA HandleNewStems ==
    ASSUME IInv, IInv', [Next]_vars, Meeting, Bounded, Few, Truthful,
           \A t \in Token : Right(t), NEW n \in Node, NEW m \in Monitor, HandleNew(n, m)
    PROVE  \A t \in Token : Stems(t)
<1>1. /\ TypeOK /\ m \in Token /\ m # SysToken /\ net' \in Channels
      /\ owned \in [Node -> SUBSET Token] /\ locked' = locked
  <2>1. m \in Token /\ m # SysToken
    BY MonitorAssumption DEF Token
  <2>2. TypeOK /\ TypeOK'
    BY DEF IInv
  <2>3. locked' = locked
    BY DEF HandleNew
  <2> QED
    BY <2>1, <2>2, <2>3 DEF TypeOK, Channels
<1>2. \A t \in Token : \A k \in Node : SameRecord(t, k)
  BY HandleNewSteady, SteadyRecord
<1>3. NoneSent
  BY <1>1, QuietCalls
<1>4. CASE owned' = owned
  <2>1. \A k \in Node : Held(k)' \subseteq Held(k)
    BY <1>1, <1>4 DEF Held
  <2> QED
    BY <1>2, <1>3, <2>1, StemsCalm
<1>5. CASE owned' # owned
  <2>1. /\ m \notin private[n] /\ Adopts(n, m)
        /\ owned' = [owned EXCEPT ![n] = @ \cup {m}]
    <3>1. /\ m \notin private[n]
          /\ owned' = [owned EXCEPT ![n] = IF Adopts(n, m) THEN @ \cup {m} ELSE @]
      BY <1>5 DEF HandleNew
    <3>2. Adopts(n, m)
      BY <1>1, <1>5, <3>1
    <3> QED
      BY <3>1, <3>2
  <2> SUFFICES ASSUME NEW t \in Token PROVE Stems(t)
    OBVIOUS
  <2>2. Made(t) => Made(t)'
    BY NextMade
  <2>3. CASE t # m
    <3>1. \A k \in Node : t \in Held(k)' => t \in Held(k)
      BY <1>1, <2>1, <2>3 DEF Held
    <3> QED
      BY <1>2, <1>3, <2>2, <3>1, StemsQuiet
  <2>4. CASE t = m
    <3>1. ~Made(m)
      <4>1. CASE n \in started
        <5>1. m \notin known[n] /\ SysToken \in owned[n]
          BY <2>1, <4>1 DEF Adopts, Exists
        <5>2. 0 \in started
          BY <5>1 DEF IInv, OneCarrier, BeforeStart, Carried, Held
        <5> QED
          BY <1>1, <5>1, <5>2 DEF Made, Accounted, KnownEverywhere
      <4>2. CASE n \notin started
        BY <1>1, <2>1, <4>2 DEF Adopts, Made, Accounted
      <4> QED
        BY <4>1, <4>2
    <3>2. Pristine(m)
      BY <1>1, <3>1 DEF Right
    <3>3. \A k \in Node : alg'[k][m].ln = NoneServed
      BY <1>1, <1>2, <3>2 DEF Pristine, SameRecord
    <3>4. \A k \in Node : m \in Held(k)' => Descends(m, alg'[k][m].ln)
      BY <1>1, <3>1, <3>3, DescendsNone
    <3>5. \A a, b \in Node : \A i \in Nat :
             Carries(net', a, b, i, m) => Descends(m, net'[a][b][i].ln)
      BY <1>1, <1>3, NoneSentOrigin, DescendsEarlier
    <3> QED
      BY <1>1, <2>2, <2>4, <3>4, <3>5, StemsFrom
  <2> QED
    BY <2>3, <2>4
<1> QED
  BY <1>4, <1>5

\* The token brings what it has served.
LEMMA TakeMonitorTokenStems ==
    ASSUME IInv, IInv', [Next]_vars, Asking,
           NEW n \in Node, NEW p \in Node, Arrives(n, p, "GiveToken"),
           NEW msg, msg = Head(net[p][n]), msg.token # SysToken, TakeMonitorToken(n, p, msg)
    PROVE  \A t \in Token : Stems(t)
<1>m. PICK m : m = msg.token
  OBVIOUS
<1>1. /\ TypeOK /\ net \in Channels /\ net' \in Channels
      /\ owned \in [Node -> SUBSET Token] /\ locked \in [Node -> SUBSET Token]
      /\ alg \in [Node -> [Token -> Alg]]
  BY DEF IInv, TypeOK, Channels
<1>2. /\ msg \in Message /\ msg.type = "GiveToken" /\ m \in Monitor /\ m \in Token
      /\ net[p][n] # <<>> /\ May(n, m) /\ m # SysToken
      /\ msg.ln \in [Node -> RequestNumber] /\ msg.queue \in Seq(Node)
  BY <1>m, <1>1, ArrivesWanted, MessageFields DEF Token, Arrives
<1>3. n \in startedCluster /\ m \in public[n]
  BY <1>2 DEF May
<1>4. /\ owned' = [owned EXCEPT ![n] = @ \cup {m}]
      /\ alg' = [alg EXCEPT ![n][m] = LoadProperties(@, msg.ln, msg.queue)]
      /\ Grant(n, Grantable(n, {m})) /\ net' = Received(n, p)
  BY <1>m DEF TakeMonitorToken
<1>5. /\ Carries(net, p, n, 1, m) /\ net[p][n][1] = msg
      /\ \A a, b \in Node : \A i \in Nat : ~Carries(net', a, b, i, m)
  <2>1. OneCarrierOf(m) /\ Gives(Head(net[p][n]), m)
    BY <1>m, <1>2 DEF IInv, OneCarrier, Gives
  <2>2. Received(n, p) \in Channels /\ Follows(Received(n, p), net, Took(p, n))
    BY <1>1, <1>2, ReceivedType, FollowsReceived
  <2> QED
    BY <1>1, <1>2, <1>4, <2>1, <2>2, TakenIsGone
<1>6. OneCarrierOf(m) /\ \A k \in Node : m \notin Held(k)
  BY <1>2, <1>5 DEF IInv, OneCarrier, OneCarrierOf
<1>7. /\ \A t \in Token : \A k \in Node : t # m => alg'[k][t] = alg[k][t]
      /\ alg'[n][m].ln = msg.ln
  <2>1. alg[n][m] \in Alg
    BY <1>1, <1>2
  <2>2. LoadProperties(alg[n][m], msg.ln, msg.queue).ln = msg.ln
    BY <2>1 DEF LoadProperties, Alg
  <2> DEFINE next == LoadProperties(alg[n][m], msg.ln, msg.queue)
  <2>3. alg' = [alg EXCEPT ![n][m] = next]
    BY <1>4
  <2> HIDE DEF next
  <2>4. /\ alg'[n][m] = next
        /\ \A t \in Token : \A k \in Node : t # m => alg'[k][t] = alg[k][t]
    BY <1>1, <1>2, <2>3
  <2> QED
    BY <2>2, <2>4 DEF next
<1>8. \A k \in Node : /\ Held(k)' \subseteq Held(k) \cup {m}
                      /\ k # n => Held(k)' = Held(k)
  <2>1. Grantable(n, {m}) \subseteq {m}
    BY DEF Grantable
  <2>2. locked' = [locked EXCEPT ![n] = @ \cup Grantable(n, {m})]
    BY <1>4 DEF Grant
  <2> QED
    BY <1>1, <1>4, <2>1, <2>2 DEF Held
<1> SUFFICES ASSUME NEW t \in Token PROVE Stems(t)
  OBVIOUS
<1>9. Made(t) => Made(t)'
  BY NextMade
<1>10. CASE t # m
  <2>1. \A k \in Node : SameRecord(t, k)
    BY <1>7, <1>10 DEF SameRecord
  <2>2. NoneSent
    BY <1>1, <1>4, TakeMonitorTokenSends
  <2>3. \A k \in Node : t \in Held(k)' => t \in Held(k)
    BY <1>8, <1>10
  <2> QED
    BY <1>9, <2>1, <2>2, <2>3, StemsQuiet
<1>11. CASE t = m
  <2>1. \A k \in Node : m \in Held(k)' => k = n
    BY <1>6, <1>8
  <2>2. Descends(m, alg'[n][m].ln)
    BY <1>1, <1>2, <1>5, <1>7, DescendsCarried
  <2> QED
    BY <1>2, <1>5, <1>9, <1>11, <2>1, <2>2, StemsFrom
<1> QED
  BY <1>10, <1>11

\* A step that sends a token: its record must stem from one before.
LEMMA StemsSends ==
    ASSUME TypeOK, net' \in Channels, NEW t \in Token, Made(t) => Made(t)',
           NEW n \in Node, NEW msg \in Message, Sends(n, msg),
           \A k \in Node : t \in Held(k)' => Descends(t, alg'[k][t].ln),
           msg.token = t => Descends(t, msg.ln)
    PROVE  Stems(t)
<1>1. ASSUME NEW a \in Node, NEW b \in Node, NEW i \in Nat, Carries(net', a, b, i, t)
      PROVE  Descends(t, net'[a][b][i].ln)
  <2>1. Earlier(a, b, t, net'[a][b][i]) \/ (Gives(msg, t) /\ net'[a][b][i] = msg)
    BY <1>1, SendsOrigin
  <2> QED
    BY <2>1, DescendsEarlier DEF Gives
<1> QED
  BY <1>1, StemsFrom

\* The owner gives the token away as it is.
LEMMA PacketRequestTokenStems ==
    ASSUME IInv, IInv', [Next]_vars, NEW n \in Node, NEW p \in Node, PacketRequestToken(n, p)
    PROVE  \A t \in Token : Stems(t)
<1>h. PICK head : head = Head(net[p][n])
  OBVIOUS
<1>o. PICK o : o = head.token
  OBVIOUS
<1>u. PICK updated : updated = UpdateRequestNumber(alg[n][o], p, head.number)
  OBVIOUS
<1>f. PICK first : first = Received(n, p)
  OBVIOUS
<1>g. PICK give : give = TokenMsg(n, o, updated)
  OBVIOUS
<1>1. /\ TypeOK /\ net \in Channels /\ net' \in Channels
      /\ alg \in [Node -> [Token -> Alg]]
      /\ owned \in [Node -> SUBSET Token] /\ net[p][n] # <<>>
      /\ head.type = "RequestToken"
  <2>1. TypeOK /\ TypeOK'
    BY DEF IInv
  <2> QED
    BY <1>h, <2>1 DEF TypeOK, Channels, PacketRequestToken, Arrives
<1>2. /\ head \in Message /\ first \in Channels
      /\ o \in Token /\ head.number \in RequestNumber
      /\ Follows(first, net, Took(p, n)) /\ Took(p, n) \in Offset
  <2>1. /\ head \in Message /\ first \in Channels
        /\ Follows(first, net, Took(p, n)) /\ Took(p, n) \in Offset
    BY <1>1, <1>f, <1>h, ReceivedType, FollowsReceived
  <2> QED
    BY <1>1, <1>o, <2>1, MessageFields
<1>4. /\ locked' = locked
      /\ \/ net' = first /\ owned' = owned
         \/ /\ n \in started /\ Serves(n, o, p, updated)
            /\ owned' = [owned EXCEPT ![n] = @ \ {o}]
            /\ net' = Post(first, n, {p}, <<give>>)
      /\ alg' = alg \/ alg' = [alg EXCEPT ![n][o] = updated]
  <2>1. locked' = locked
    BY DEF PacketRequestToken
  <2>2. CASE n \notin started
    BY <1>f, <2>1, <2>2 DEF PacketRequestToken
  <2>3. CASE n \in started /\ Serves(n, o, p, updated)
    BY <1>f, <1>g, <1>h, <1>o, <1>u, <2>1, <2>3 DEF PacketRequestToken
  <2>4. CASE n \in started /\ ~Serves(n, o, p, updated)
    BY <1>f, <1>h, <1>o, <1>u, <2>1, <2>4 DEF PacketRequestToken
  <2> QED
    BY <2>2, <2>3, <2>4
<1>5. /\ updated \in Alg /\ updated.ln = alg[n][o].ln /\ updated.queue = alg[n][o].queue
  <2>1. alg[n][o] \in Alg
    BY <1>1, <1>2
  <2> QED
    BY <1>2, <1>u, <2>1, UpdateType
<1>6. \A t \in Token : \A k \in Node : SameRecord(t, k)
  <2>1. \A t \in Token : \A k \in Node : k # n \/ t # o => alg'[k][t] = alg[k][t]
    BY <1>1, <1>2, <1>4
  <2>2. alg'[n][o] = alg[n][o] \/ alg'[n][o] = updated
    BY <1>1, <1>2, <1>4
  <2> QED
    BY <1>5, <2>1, <2>2 DEF SameRecord
<1>7. \A k \in Node : Held(k)' \subseteq Held(k)
  BY <1>1, <1>4 DEF Held
<1>8. CASE net' = first
  <2>1. NoneSent
    BY <1>2, <1>8 DEF NoneSent
  <2> QED
    BY <1>6, <1>7, <2>1, StemsCalm
<1>9. CASE net' # first
  <2>1. Serves(n, o, p, updated) /\ net' = Post(first, n, {p}, <<give>>)
    BY <1>4, <1>9
  <2>2. give \in Message /\ give.token = o /\ give.ln = updated.ln
    <3>1. known[n] \in SUBSET Monitor /\ (o # SysToken => data[n][o] \in Nat)
      BY <1>1, <1>2 DEF TypeOK, Token
    <3>2. give \in Message
      BY <1>2, <1>5, <3>1, TokenMsgType, <1>g
    <3> QED
      BY <1>g, <3>2 DEF TokenMsg, GiveTokenMsg
  <2>3. Sends(n, give)
    BY <1>2, <2>1 DEF Sends
  <2>4. o \in Held(n)
    BY <2>1 DEF Serves, Held
  <2> SUFFICES ASSUME NEW t \in Token PROVE Stems(t)
    OBVIOUS
  <2>5. Made(t) => Made(t)'
    BY NextMade
  <2>6. ASSUME NEW k \in Node, t \in Held(k)' PROVE Descends(t, alg'[k][t].ln)
    BY <1>1, <1>6, <1>7, <2>6, DescendsHeld DEF SameRecord
  <2>7. give.token = t => Descends(t, give.ln)
    BY <1>1, <1>5, <2>2, <2>4, DescendsHeld
  <2> QED
    BY <1>1, <2>2, <2>3, <2>5, <2>6, <2>7, StemsSends
<1> QED
  BY <1>8, <1>9

\* release serves the node that was inside, and it does not wait.
LEMMA RequestUnlockStems ==
    ASSUME IInv, IInv', [Next]_vars, \A t \in Token : Right(t), Settles, Disjoint,
           NEW n \in Node, NEW m \in Monitor, RequestUnlock(n, m)
    PROVE  \A t \in Token : Stems(t)
<1>1. /\ TypeOK /\ m \in Token /\ m # SysToken
      /\ net \in Channels /\ net' \in Channels /\ alg \in [Node -> [Token -> Alg]]
      /\ owned \in [Node -> SUBSET Token] /\ locked \in [Node -> SUBSET Token]
  <2>1. TypeOK /\ TypeOK'
    BY DEF IInv
  <2>2. m \in Token /\ m # SysToken
    BY MonitorAssumption DEF Token
  <2> QED
    BY <2>1, <2>2 DEF TypeOK, Channels
<1>2. UNCHANGED <<locks, public, pendingRequests, pendingGrants, startedCluster>>
  BY DEF RequestUnlock, nodeVars, pendingVars
<1>3. CASE m \notin private[n] \/ m \notin locked[n]
  <2>1. Unmoved /\ UNCHANGED <<owned, locked, net>>
    BY <1>2, <1>3 DEF RequestUnlock, Unmoved
  <2>2. NoneSent
    BY <1>1, <2>1, FollowsSelf DEF NoneSent
  <2> QED
    BY <2>1, <2>2, IdleStems
<1>4. CASE m \in private[n] /\ m \in locked[n]
  <2>a. PICK a : a = alg[n][m]
    OBVIOUS
  <2>1. PICK after \in Released(a, n) :
           /\ locked' = [locked EXCEPT ![n] = @ \ {m}]
           /\ IF after.queue = <<>>
              THEN /\ alg' = [alg EXCEPT ![n][m] = after]
                   /\ UNCHANGED <<owned, net>>
              ELSE /\ alg' = [alg EXCEPT ![n][m] = Popped(after)]
                   /\ owned' = [owned EXCEPT ![n] = @ \ {m}]
                   /\ net' = Post(net, n, {Head(after.queue)},
                                  <<TokenMsg(n, m, Popped(after))>>)
    BY <1>4, <2>a DEF RequestUnlock
  <2>2. m \in Held(n) /\ Holding(m, n) /\ m \notin pendingRequests'[n]
    BY <1>1, <1>2, <1>4 DEF Held, Right, Settles, Disjoint
  <2>3. a \in Alg /\ Single(a.queue)
    BY <1>1, <2>2, <2>a DEF Holding, Fits
  <2>4. after \in Alg /\ after.ln = [a.ln EXCEPT ![n] = a.rn[n]]
    BY <2>1, <2>3, ReleasedQueue
  <2>5. after.queue # <<>> => /\ Popped(after) \in Alg /\ Head(after.queue) \in Node
                              /\ Popped(after).ln = after.ln
    BY <2>4, PoppedType DEF Popped, Alg
  <2>6. PICK kept \in Alg : /\ alg' = [alg EXCEPT ![n][m] = kept] /\ kept.ln = after.ln
                            /\ after.queue # <<>> => kept = Popped(after)
    BY <2>1, <2>4, <2>5
  <2>7. /\ alg'[n][m] = kept
        /\ \A t \in Token : \A k \in Node : k # n \/ t # m => alg'[k][t] = alg[k][t]
    <3>1. alg'[n][m] = kept
      BY <1>1, <2>6
    <3>2. \A t \in Token : \A k \in Node : k # n \/ t # m => alg'[k][t] = alg[k][t]
      BY <1>1, <2>6
    <3> QED
      BY <3>1, <3>2
  <2>8. Descends(m, kept.ln)
    <3>1. ASSUME NEW k \in Node, Needs(k, m)' PROVE kept.ln[k] = alg[n][m].ln[k]
      <4>1. k # n
        BY <2>2, <3>1 DEF Needs
      <4> QED
        BY <2>3, <2>4, <2>6, <2>a, <4>1 DEF Alg
    <3> QED
      BY <1>1, <2>2, <3>1, DescendsHeld
  <2>9. \A k \in Node : Held(k)' \subseteq Held(k)
    BY <1>1, <2>1 DEF Held
  <2>10. OneCarrierOf(m)
    BY <1>1 DEF IInv, OneCarrier
  <2>11. ASSUME NEW t \in Token, NEW k \in Node, t \in Held(k)' PROVE Descends(t, alg'[k][t].ln)
    <3>1. CASE t = m
      <4>1. k = n
        BY <2>2, <2>9, <2>10, <2>11, <3>1 DEF OneCarrierOf
      <4> QED
        BY <2>7, <2>8, <3>1, <4>1
    <3>2. CASE t # m
      <4>1. alg'[k][t].ln = alg[k][t].ln
        BY <2>7, <3>2
      <4> QED
        BY <1>1, <2>9, <2>11, <4>1, DescendsHeld
    <3> QED
      BY <3>1, <3>2
  <2> SUFFICES ASSUME NEW t \in Token PROVE Stems(t)
    OBVIOUS
  <2>12. Made(t) => Made(t)'
    BY NextMade
  <2>13. CASE after.queue = <<>>
    <3>1. NoneSent
      BY <1>1, <2>1, <2>13, FollowsSelf DEF NoneSent
    <3>2. \A b, c \in Node : \A i \in Nat :
             Carries(net', b, c, i, t) => Descends(t, net'[b][c][i].ln)
      BY <1>1, <3>1, NoneSentOrigin, DescendsEarlier
    <3> QED
      BY <2>11, <2>12, <3>2, StemsFrom
  <2>14. CASE after.queue # <<>>
    <3> DEFINE give == TokenMsg(n, m, Popped(after))
               d == Head(after.queue)
    <3>1. give \in Message /\ give.token = m /\ give.ln = kept.ln
      <4>1. known[n] \in SUBSET Monitor /\ data[n][m] \in Nat
        BY <1>1 DEF TypeOK
      <4>2. give \in Message
        BY <1>1, <2>5, <2>14, <4>1, TokenMsgType
      <4> QED
        BY <1>1, <2>6, <2>14, <4>2 DEF TokenMsg, GiveTokenMsg
    <3>2. net' = Post(net, n, {d}, <<give>>) /\ d \in Node
      BY <2>1, <2>5, <2>14
    <3> HIDE DEF give, d
    <3>3. Sends(n, give)
      BY <1>1, <3>2, FollowsSelf DEF Sends
    <3> QED
      BY <1>1, <2>8, <2>11, <2>12, <3>1, <3>3, StemsSends
  <2> QED
    BY <2>13, <2>14
<1> QED
  BY <1>3, <1>4

\* The system token serves the node that got it, and what that node adopts served nobody.
LEMMA TakeSystemTokenStems ==
    ASSUME IInv, IInv', [Next]_vars, Asking, Young, Bounded, Few, Truthful,
           \A t \in Token : Right(t), NEW n \in Node, NEW p \in Node,
           Arrives(n, p, "GiveToken"), NEW msg, msg = Head(net[p][n]),
           msg.token = SysToken, TakeSystemToken(n, p, msg)
    PROVE  \A t \in Token : Stems(t)
<1>1. /\ TypeOK /\ TypeOK' /\ SysToken \in Token /\ SysToken \notin Monitor
      /\ net' \in Channels
  BY MonitorAssumption DEF IInv, TypeOK, Token, Channels
<1>2. PICK new \in SUBSET Monitor, adopted \in SUBSET Monitor, a \in Alg, after \in Alg,
           asked \in Channels :
         /\ Sorts(n, p, msg, new, adopted, a, after, asked)
         /\ \A t \in Monitor : SameRecord(t, n)
  <2>1. Right(SysToken)
    BY <1>1
  <2> QED
    BY <1>1, <2>1, TakeSystemTokenSorts
<1>3. /\ Elsewhere(n)
      /\ pendingRequests'[n] = (pendingRequests[n] \ {SysToken}) \cup new
      /\ locked'[n] = locked[n] \cup (adopted \cap pendingGrants[n])
      /\ owned'[n] \subseteq owned[n] \cup adopted \cup {SysToken}
      /\ \A k \in Node \ {n} : owned'[k] = owned[k] /\ locked'[k] = locked[k]
  <2>1. Sorts(n, p, msg, new, adopted, a, after, asked)
    BY <1>2
  <2>2. Sorted(n, new, adopted)
    BY <2>1, TakeSystemTokenMoves
  <2> QED
    BY <2>2 DEF Sorted
<1>4. /\ Carries(net, p, n, 1, SysToken) /\ net[p][n][1] = msg /\ Carried(SysToken)
      /\ \A k \in Node : SysToken \notin Held(k)
      /\ \A b, c \in Node : \A i \in Nat : ~Carries(asked, b, c, i, SysToken)
  <2>1. OneCarrierOf(SysToken) /\ net[p][n] # <<>> /\ Gives(Head(net[p][n]), SysToken)
    BY <1>1 DEF IInv, OneCarrier, Arrives, Gives
  <2>2. asked \in Channels /\ Follows(asked, net, Took(p, n))
    BY <1>2 DEF Sorts
  <2>3. /\ Carries(net, p, n, 1, SysToken) /\ net[p][n][1] = msg
        /\ \A k \in Node : SysToken \notin Held(k)
        /\ \A b, c \in Node : \A i \in Nat : ~Carries(asked, b, c, i, SysToken)
    BY <1>1, <2>1, <2>2, TakenIsGone
  <2> QED
    BY <2>3 DEF Carried
<1>5. after.ln = [msg.ln EXCEPT ![n] = a.rn[n]]
  <2>1. Single(a.queue) /\ after \in Released(a, n) /\ a.ln = msg.ln
    BY <1>1, <1>2, <1>4 DEF Right, Coming, Fits, Sorts
  <2> QED
    BY <2>1, ReleasedQueue
<1>6. ASSUME NEW ln2, ln2 = after.ln PROVE Descends(SysToken, ln2)
  <2>1. msg.ln \in Numbers
    BY <1>1, <1>4, CarriedType
  <2>2. ASSUME NEW k \in Node, Needs(k, SysToken)' PROVE ln2[k] = net[p][n][1].ln[k]
    <3>1. k # n
      BY <1>1, <1>3, <2>2 DEF Needs
    <3> QED
      BY <1>4, <1>5, <1>6, <2>1, <3>1 DEF Numbers
  <2> QED
    BY <1>1, <1>4, <2>2, DescendsCarried
<1>7. alg'[n][SysToken].ln = after.ln
  BY <1>2 DEF Sorts, Popped, Alg
<1>8. \A t \in Monitor : \A k \in Node : SameRecord(t, k)
  BY <1>2 DEF Sorts, SameRecord
<1>9. ASSUME NEW t \in adopted PROVE Descends(t, alg'[n][t].ln)
  <2>1. t \in Token /\ t \in Monitor /\ t # SysToken /\ t \notin msg.monitors
    BY <1>1, <1>2 DEF Token, Sorts
  <2>2. ~Made(t)
    <3>1. 0 \in started
      BY <1>4 DEF IInv, OneCarrier, BeforeStart
    <3>2. ~KnownEverywhere(t)
      BY <1>4, <2>1 DEF KnownEverywhere
    <3> QED
      BY <2>1, <3>1, <3>2 DEF Made, Accounted
  <2>3. alg'[n][t].ln = NoneServed
    BY <1>8, <2>1, <2>2 DEF Right, Pristine, SameRecord
  <2> QED
    BY <2>1, <2>2, <2>3, DescendsNone
<1> SUFFICES ASSUME NEW t \in Token PROVE Stems(t)
  OBVIOUS
<1>10. Made(t) => Made(t)'
  BY NextMade
<1>11. ASSUME NEW k \in Node, t \in Held(k)' PROVE Descends(t, alg'[k][t].ln)
  <2>1. CASE t = SysToken
    <3>1. k = n
      BY <1>3, <1>4, <1>11, <2>1 DEF Held
    <3> QED
      BY <1>6, <1>7, <2>1, <3>1
  <2>2. CASE t # SysToken /\ t \in Held(k)
    <3>1. alg'[k][t].ln = alg[k][t].ln
      BY <1>8, <2>2 DEF Token, SameRecord
    <3> QED
      BY <1>1, <2>2, <3>1, DescendsHeld
  <2>3. CASE t # SysToken /\ t \notin Held(k)
    <3>1. k = n /\ t \in adopted
      BY <1>3, <1>11, <2>3 DEF Held
    <3> QED
      BY <1>9, <3>1
  <2> QED
    BY <2>1, <2>2, <2>3
<1>12. Follows(asked, net, Took(p, n)) /\ Took(p, n) \in Offset
  BY <1>2 DEF Sorts, Took, Offset
<1>13. CASE after.queue = <<>>
  <2>1. NoneSent
    BY <1>2, <1>12, <1>13 DEF Sorts, NoneSent
  <2>2. \A b, c \in Node : \A i \in Nat :
           Carries(net', b, c, i, t) => Descends(t, net'[b][c][i].ln)
    BY <1>1, <2>1, NoneSentOrigin, DescendsEarlier
  <2> QED
    BY <1>10, <1>11, <2>2, StemsFrom
<1>14. CASE after.queue # <<>>
  <2>1. PICK give : give = GiveTokenMsg(SysToken, Popped(after), known'[n], 0)
    OBVIOUS
  <2>2. PICK d : d = Head(after.queue)
    OBVIOUS
  <2>3. Popped(after) \in Alg /\ d \in Node /\ Popped(after).ln = after.ln
    BY <1>14, <2>2, PoppedType DEF Popped, Alg
  <2>4. known'[n] \in SUBSET Monitor
    BY <1>1 DEF TypeOK
  <2>5. give \in Message
    BY <1>1, <2>1, <2>3, <2>4, MessageTypes
  <2>6. give.token = SysToken /\ give.ln = after.ln
    BY <2>1, <2>3, <2>5 DEF GiveTokenMsg
  <2>7. Sends(n, give)
    BY <1>2, <1>12, <1>14, <2>1, <2>2, <2>3 DEF Sends, Sorts, SentTo
  <2>8. give.token = t => Descends(t, give.ln)
    BY <1>6, <2>6
  <2> QED
    BY <1>1, <1>10, <1>11, <2>5, <2>7, <2>8, StemsSends
<1> QED
  BY <1>13, <1>14

\* A token arrives: its record may be changed, but for nobody who still waits.
LEMMA PacketGiveTokenStems ==
    ASSUME IInv, IInv', [Next]_vars, Asking, Young, Bounded, Few, Truthful,
           \A t \in Token : Right(t), NEW n \in Node, NEW p \in Node, PacketGiveToken(n, p)
    PROVE  \A t \in Token : Stems(t)
<1>1. PICK msg : msg = Head(net[p][n])
  OBVIOUS
<1>2. Arrives(n, p, "GiveToken") /\ TypeOK
  BY DEF PacketGiveToken, IInv
<1>3. CASE Unexpected(n, msg.token)
  <2>1. /\ net' = Received(n, p)
        /\ UNCHANGED <<nodeVars, tokenVars, pendingVars, appVars, faultVars>>
    BY <1>1, <1>2, <1>3 DEF PacketGiveToken
  <2>2. Unmoved /\ UNCHANGED <<owned, locked>>
    BY <2>1 DEF Unmoved, nodeVars, tokenVars, pendingVars, appVars
  <2>3. NoneSent
    BY <1>2, <2>1, TakeMonitorTokenSends
  <2> QED
    BY <2>2, <2>3, IdleStems
<1>4. CASE ~Unexpected(n, msg.token) /\ msg.token = SysToken
  <2>1. TakeSystemToken(n, p, msg)
    BY <1>1, <1>4 DEF PacketGiveToken
  <2> QED
    BY <1>1, <1>2, <1>4, <2>1, TakeSystemTokenStems
<1>5. CASE ~Unexpected(n, msg.token) /\ msg.token # SysToken
  <2>1. TakeMonitorToken(n, p, msg)
    BY <1>1, <1>5 DEF PacketGiveToken
  <2> QED
    BY <1>1, <1>2, <1>5, <2>1, TakeMonitorTokenStems
<1> QED
  BY <1>3, <1>4, <1>5

\* Every step.
LEMMA NextStems ==
    ASSUME IInv, IInv', Meeting, Asking, Young, Numbering, Few, Settles, Disjoint, [Next]_vars
    PROVE  \A t \in Token : Stems(t)
<1>1. Bounded /\ Truthful /\ (\A t \in Token : Right(t)) /\ TypeOK
  BY DEF Numbering, IInv
<1>2. ASSUME NEW n \in Node, NEW p \in Node, HandleConnect(n, p)
      PROVE  \A t \in Token : Stems(t)
  BY <1>1, <1>2, HandleConnectStems
<1>3. ASSUME NEW n \in Node, NEW p \in Node,
             PacketClusterHandshake(n, p) \/ CrashInHandshake(n, p) \/ Disconnect(n, p)
      PROVE  \A t \in Token : Stems(t)
  BY <1>1, <1>3, CalmStems
<1>4. ASSUME NEW n \in Node, NEW p \in Node, PacketGiveToken(n, p)
      PROVE  \A t \in Token : Stems(t)
  BY <1>1, <1>4, PacketGiveTokenStems
<1>5. ASSUME NEW n \in Node, NEW p \in Node, PacketRequestToken(n, p)
      PROVE  \A t \in Token : Stems(t)
  BY <1>1, <1>5, PacketRequestTokenStems
<1>6. ASSUME NEW n \in Node, NEW m \in Monitor, HandleNew(n, m)
      PROVE  \A t \in Token : Stems(t)
  BY <1>1, <1>6, HandleNewStems
<1>7. ASSUME NEW n \in Node, NEW m \in Monitor, RequestLock(n, m)
      PROVE  \A t \in Token : Stems(t)
  BY <1>1, <1>7, RequestLockStems
<1>8. ASSUME NEW n \in Node, NEW m \in Monitor, TakeGrant(n, m)
      PROVE  \A t \in Token : Stems(t)
  BY <1>1, <1>8, TakeGrantStems
<1>9. ASSUME NEW n \in Node, NEW m \in Monitor, RequestUnlock(n, m)
      PROVE  \A t \in Token : Stems(t)
  BY <1>1, <1>9, RequestUnlockStems
<1>10. CASE UNCHANGED vars
  <2>1. Unmoved /\ UNCHANGED <<net, owned, locked>>
    BY <1>10 DEF Unmoved, vars, nodeVars, tokenVars, pendingVars, appVars
  <2>2. NoneSent
    BY <1>1, <2>1, FollowsSelf DEF NoneSent, TypeOK, Channels
  <2> QED
    BY <1>1, <2>1, <2>2, IdleStems
<1> QED
  BY <1>2, <1>3, <1>4, <1>5, <1>6, <1>7, <1>8, <1>9, <1>10 DEF Next, Handle

-----------------------------------------------------------------------------
(* Who waits goes on being heard of, and who asks is heard of.              *)

\* The requests that are under way in v are under way in w.
Remain(v, w) ==
    \A a, b \in Node, t \in Token : \A x :
        InTransit(v, a, b, RequestTokenMsg(t, x)) => InTransit(w, a, b, RequestTokenMsg(t, x))

HeraldedAll == \A n \in Node, t \in Token : Needs(n, t) => Heralded(n, t)

\* Who waits after the step is heard of, and waited before or asked in the step.
Renews(n, t) ==
    Needs(n, t)' =>
        /\ Heralded(n, t)'
        /\ \/ Needs(n, t) /\ Owns(t)'[n] = Owns(t)[n]
           \/ ~Needs(n, t) /\ Owns(t)'[n] = Owns(t)[n] + 1

\* Taking another packet takes no request.
LEMMA RemainReceived ==
    ASSUME net \in Channels, NEW n \in Node, NEW p \in Node, net[p][n] # <<>>,
           Head(net[p][n]).type # "RequestToken"
    PROVE  Remain(net, Received(n, p))
<1> SUFFICES ASSUME NEW a \in Node, NEW b \in Node, NEW t \in Token, NEW x,
                    InTransit(net, a, b, RequestTokenMsg(t, x))
             PROVE  InTransit(Received(n, p), a, b, RequestTokenMsg(t, x))
  BY DEF Remain
<1>1. PICK msg : msg = RequestTokenMsg(t, x)
  OBVIOUS
<1>2. msg.type = "RequestToken"
  BY <1>1 DEF RequestTokenMsg
<1>3. msg # Head(net[p][n])
  BY <1>2
<1> QED
  BY <1>1, <1>3, InTransitReceived

\* Posting loses no request.
LEMMA RemainPost ==
    ASSUME NEW w \in Channels, NEW n \in Node, NEW peers, NEW msgs \in Seq(Message),
           Remain(net, w)
    PROVE  Remain(net, Post(w, n, peers, msgs))
  BY InTransitPost DEF Remain

\* Nor does a step that leaves the channels alone.
LEMMA RemainSelf == Remain(net, net)
  BY DEF Remain

\* The step asks for nothing and takes no request.
LEMMA RenewsQuiet ==
    ASSUME TypeOK, TypeOK', HeraldedAll, Remain(net, net'), startedCluster' = startedCluster,
           \A k \in Node : pendingRequests'[k] \subseteq pendingRequests[k],
           \A t \in Token : \A j, k \in Node : alg'[k][t].rn[j] = alg[k][t].rn[j]
    PROVE  \A n \in Node, t \in Token : Renews(n, t)
<1> SUFFICES ASSUME NEW n \in Node, NEW t \in Token, Needs(n, t)'
             PROVE  /\ Heralded(n, t)'
                    /\ Needs(n, t) /\ Owns(t)'[n] = Owns(t)[n]
  BY DEF Renews
<1>1. Needs(n, t)
  BY DEF Needs
<1>2. Owns(t)'[n] = Owns(t)[n]
  BY OwnsType, OwnsTypeNext
<1>3. ASSUME NEW k \in Node \ {n} PROVE Knows(t, n, k, Owns(t)[n])'
  <2>1. Knows(t, n, k, Owns(t)[n])
    BY <1>1 DEF HeraldedAll, Heralded
  <2> QED
    BY <1>2, <2>1 DEF Knows, Remain
<1> QED
  BY <1>1, <1>2, <1>3 DEF Heralded

\* n asks for the tokens of A, and tells everybody.
LEMMA RenewsAsking ==
    ASSUME TypeOK, TypeOK', HeraldedAll, Remain(net, net'), NEW n \in Node, NEW A,
           Asked(n, A),
           \A k \in Node \ {n} : /\ alg'[k] = alg[k] /\ pendingRequests'[k] = pendingRequests[k]
                                 /\ k \in startedCluster' <=> k \in startedCluster,
           \A t \in Token : Needs(n, t)' => \/ t \in A /\ ~Needs(n, t)
                                            \/ t \notin A /\ Needs(n, t),
           \A t \in Token : t \in A => \A k \in Node \ {n} :
              InTransit(net', n, k, RequestTokenMsg(t, alg'[n][t].rn[n]))
    PROVE  \A k \in Node, t \in Token : Renews(k, t)
<1>1. ASSUME NEW t \in Token, NEW k \in Node \ {n}, Needs(k, t)' PROVE Renews(k, t)
  <2>1. Needs(k, t)
    BY <1>1 DEF Needs
  <2>2. Owns(t)'[k] = Owns(t)[k]
    BY OwnsType, OwnsTypeNext
  <2>3. ASSUME NEW j \in Node \ {k} PROVE Knows(t, k, j, Owns(t)[k])'
    <3>1. Knows(t, k, j, Owns(t)[k])
      BY <2>1 DEF HeraldedAll, Heralded
    <3>2. alg'[j][t].rn[k] = alg[j][t].rn[k]
      BY DEF Asked
    <3> QED
      BY <2>2, <3>1, <3>2 DEF Knows, Remain
  <2> QED
    BY <2>1, <2>2, <2>3 DEF Heralded, Renews
<1>2. ASSUME NEW t \in Token, Needs(n, t)', t \in A PROVE Renews(n, t)
  <2>1. Owns(t)'[n] = alg'[n][t].rn[n] /\ Owns(t)'[n] = Owns(t)[n] + 1
    BY <1>2, OwnsType, OwnsTypeNext DEF Asked
  <2>2. ASSUME NEW k \in Node \ {n} PROVE Knows(t, n, k, Owns(t)[n])'
    BY <1>2, <2>1 DEF Knows
  <2> QED
    BY <1>2, <2>1, <2>2 DEF Heralded, Renews
<1>3. ASSUME NEW t \in Token, Needs(n, t)', t \notin A PROVE Renews(n, t)
  <2>1. Needs(n, t) /\ Owns(t)'[n] = Owns(t)[n]
    BY <1>3, OwnsType, OwnsTypeNext DEF Asked
  <2>2. ASSUME NEW k \in Node \ {n} PROVE Knows(t, n, k, Owns(t)[n])'
    <3>1. Knows(t, n, k, Owns(t)[n])
      BY <2>1 DEF HeraldedAll, Heralded
    <3> QED
      BY <2>1, <3>1 DEF Knows, Remain
  <2> QED
    BY <2>1, <2>2 DEF Heralded, Renews
<1>4. ASSUME NEW k \in Node, NEW t \in Token, ~Needs(k, t)' PROVE Renews(k, t)
  BY <1>4 DEF Renews
<1> QED
  BY <1>1, <1>2, <1>3, <1>4

\* Nobody asks when a connection is there.
LEMMA HandleConnectRenews ==
    ASSUME TypeOK, TypeOK', HeraldedAll, NEW n \in Node, NEW p \in Node, HandleConnect(n, p)
    PROVE  \A k \in Node, t \in Token : Renews(k, t)
<1>1. /\ net \in Channels /\ net[p][n] # <<>> /\ Head(net[p][n]).type # "RequestToken"
      /\ startedCluster' = startedCluster /\ pendingRequests' = pendingRequests /\ alg' = alg
  BY DEF HandleConnect, Arrives, TypeOK, Channels, pendingVars
<1>2. PICK hello : hello = ClusterHandshakeMsg
  OBVIOUS
<1>3. PICK first : first = Received(n, p)
  OBVIOUS
<1>4. net' = first \/ net' = Post(first, n, links[n] \cup {p}, <<hello>>)
  BY <1>2, <1>3 DEF HandleConnect
<1>5. Remain(net, first) /\ first \in Channels /\ hello \in Message
  BY <1>1, <1>2, <1>3, RemainReceived, ReceivedType, MessageTypes
<1>6. Remain(net, net')
  <2>1. <<hello>> \in Seq(Message)
    BY <1>5
  <2> QED
    BY <1>4, <1>5, <2>1, RemainPost
<1> QED
  BY <1>1, <1>6, RenewsQuiet

\* m_rn is not touched by release.
LEMMA RequestUnlockRenews ==
    ASSUME TypeOK, TypeOK', HeraldedAll, \A t \in Token : Right(t),
           NEW n \in Node, NEW m \in Monitor, RequestUnlock(n, m)
    PROVE  \A k \in Node, t \in Token : Renews(k, t)
<1>1. /\ m \in Token /\ net \in Channels /\ alg \in [Node -> [Token -> Alg]]
      /\ startedCluster' = startedCluster /\ pendingRequests' = pendingRequests
  BY DEF Token, TypeOK, Channels, RequestUnlock, nodeVars, pendingVars
<1>2. CASE m \notin private[n] \/ m \notin locked[n]
  <2>1. net' = net /\ alg' = alg
    BY <1>2 DEF RequestUnlock
  <2> QED
    BY <1>1, <2>1, RemainSelf, RenewsQuiet
<1>3. CASE m \in private[n] /\ m \in locked[n]
  <2>a. PICK a : a = alg[n][m]
    OBVIOUS
  <2>1. PICK after \in Released(a, n) :
           IF after.queue = <<>>
           THEN /\ alg' = [alg EXCEPT ![n][m] = after]
                /\ net' = net
           ELSE /\ alg' = [alg EXCEPT ![n][m] = Popped(after)]
                /\ net' = Post(net, n, {Head(after.queue)},
                               <<TokenMsg(n, m, Popped(after))>>)
    BY <1>3, <2>a DEF RequestUnlock
  <2>2. a \in Alg /\ Single(a.queue)
    BY <1>1, <1>3, <2>a DEF Held, Right, Holding, Fits
  <2>3. after \in Alg /\ after.rn = a.rn
    BY <2>1, <2>2, ReleasedQueue
  <2>4. after.queue # <<>> => Popped(after) \in Alg /\ Popped(after).rn = after.rn
    BY <2>3, PoppedType DEF Popped, Alg
  <2>5. PICK kept \in Alg : alg' = [alg EXCEPT ![n][m] = kept] /\ kept.rn = a.rn
    BY <2>1, <2>3, <2>4
  <2>6. \A t \in Token : \A j, k \in Node : alg'[k][t].rn[j] = alg[k][t].rn[j]
    <3>1. alg'[n][m] = kept
      BY <1>1, <2>5
    <3>2. \A t \in Token : \A k \in Node : k # n \/ t # m => alg'[k][t] = alg[k][t]
      BY <1>1, <2>5
    <3> QED
      BY <2>5, <2>a, <3>1, <3>2
  <2>7. Remain(net, net')
    <3>1. CASE after.queue = <<>>
      BY <2>1, <3>1, RemainSelf
    <3>2. CASE after.queue # <<>>
      <4>1. PICK give : give = TokenMsg(n, m, Popped(after))
        OBVIOUS
      <4>2. known[n] \in SUBSET Monitor /\ data[n][m] \in Nat
        BY DEF TypeOK
      <4>3. give \in Message
        BY <1>1, <2>4, <3>2, <4>1, <4>2, TokenMsgType
      <4>4. <<give>> \in Seq(Message)
        BY <4>3
      <4>5. PICK to : to = {Head(after.queue)}
        OBVIOUS
      <4>6. net' = Post(net, n, to, <<give>>)
        BY <2>1, <3>2, <4>1, <4>5
      <4> QED
        BY <1>1, <4>4, <4>6, RemainSelf, RemainPost
    <3> QED
      BY <3>1, <3>2
  <2> QED
    BY <1>1, <2>6, <2>7, RenewsQuiet
<1> QED
  BY <1>2, <1>3

\* Nor by loadProperties.
LEMMA TakeMonitorTokenRenews ==
    ASSUME TypeOK, TypeOK', HeraldedAll, NEW n \in Node, NEW p \in Node,
           Arrives(n, p, "GiveToken"), NEW msg, msg = Head(net[p][n]),
           msg.token # SysToken, TakeMonitorToken(n, p, msg)
    PROVE  \A k \in Node, t \in Token : Renews(k, t)
<1>1. /\ net \in Channels /\ net[p][n] # <<>> /\ msg.type = "GiveToken"
      /\ alg \in [Node -> [Token -> Alg]] /\ pendingRequests \in [Node -> SUBSET Token]
      /\ startedCluster' = startedCluster /\ net' = Received(n, p)
  BY DEF Arrives, TypeOK, Channels, TakeMonitorToken, nodeVars
<1>2. PICK o : o = msg.token
  OBVIOUS
<1>3. o \in Token
  BY <1>1, <1>2, ReceivedType, MessageFields
<1>4. /\ alg' = [alg EXCEPT ![n][o] = LoadProperties(@, msg.ln, msg.queue)]
      /\ pendingRequests' = [pendingRequests EXCEPT ![n] = @ \ {o}]
  BY <1>2 DEF TakeMonitorToken
<1>l. PICK loaded : loaded = LoadProperties(alg[n][o], msg.ln, msg.queue)
  OBVIOUS
<1>5. loaded.rn = alg[n][o].rn
  <2>1. alg[n][o] \in Alg
    BY <1>1, <1>3
  <2> QED
    BY <1>l, <2>1 DEF LoadProperties, Alg
<1>6. \A t \in Token : \A j, k \in Node : alg'[k][t].rn[j] = alg[k][t].rn[j]
  <2>1. alg'[n][o] = loaded
    BY <1>1, <1>3, <1>4, <1>l
  <2>2. \A t \in Token : \A k \in Node : k # n \/ t # o => alg'[k][t] = alg[k][t]
    BY <1>1, <1>4
  <2> QED
    BY <1>5, <2>1, <2>2
<1>7. \A k \in Node : pendingRequests'[k] \subseteq pendingRequests[k]
  BY <1>1, <1>4
<1>8. Remain(net, net')
  BY <1>1, RemainReceived
<1> QED
  BY <1>1, <1>6, <1>7, <1>8, RenewsQuiet

\* A node that has met everybody is connected with everybody.
LEMMA StartedLinks ==
    ASSUME Meeting, Linked, startedCluster # {}, NEW n \in Node
    PROVE  links[n] = Node \ {n} /\ n \in started
  BY DEF Meeting, Linked

\* Who asks tells everybody: it is connected with all of them.
LEMMA RequestTokensRenews ==
    ASSUME TypeOK, TypeOK', HeraldedAll, Bounded, Few, Meeting, Linked, cut = {},
           NEW n \in Node, NEW T \in SUBSET Token, RequestTokens(n, T),
           startedCluster' = startedCluster
    PROVE  \A k \in Node, t \in Token : Renews(k, t)
<1>1. PICK new : new = IF n \in startedCluster THEN T \ pendingRequests[n] ELSE {}
  OBVIOUS
<1>2. /\ Asked(n, new)
      /\ \A k \in Node \ {n} : alg'[k] = alg[k] /\ pendingRequests'[k] = pendingRequests[k]
      /\ pendingRequests'[n] = pendingRequests[n] \cup T
  BY <1>1, RequestTokensNumbers
<1>3. \A t \in Token :
         Needs(n, t)' => (t \in new /\ ~Needs(n, t)) \/ (t \notin new /\ Needs(n, t))
  BY <1>1, <1>2 DEF Needs
<1>4. /\ Remain(net, net')
      /\ \A t \in Token : t \in new => \A k \in Node \ {n} :
            InTransit(net', n, k, RequestTokenMsg(t, alg'[n][t].rn[n]))
  <2>1. CASE n \notin startedCluster
    BY <1>1, <2>1, RemainSelf DEF RequestTokens
  <2>2. CASE n \in startedCluster
    <3>1. PICK numbered : numbered = Numbered(alg[n], n, new)
      OBVIOUS
    <3>2. new = T \ pendingRequests[n] /\ new \in SUBSET Token
      BY <1>1, <2>2
    <3>3. PICK order \in Orderings(new) :
             /\ alg' = [alg EXCEPT ![n] = numbered]
             /\ net' = Post(net, n, links[n], RequestMsgs(numbered, n, order))
      BY <2>2, <3>1, <3>2 DEF RequestTokens
    <3>4. numbered \in [Token -> Alg] /\ alg'[n] = numbered /\ net \in Channels
      <4>1. alg \in [Node -> [Token -> Alg]] /\ net \in Channels
        BY DEF TypeOK, Channels
      <4> QED
        BY <3>1, <3>3, <4>1, NumberedType
    <3>5. links[n] = Node \ {n}
      BY <2>2, StartedLinks
    <3>6. PICK peers : peers = links[n]
      OBVIOUS
    <3>w. PICK w : w = net
      OBVIOUS
    <3>7. PICK v : v = Post(w, n, peers, RequestMsgs(numbered, n, order))
      OBVIOUS
    <3>8. /\ \A a, b \in Node : \A msg : InTransit(w, a, b, msg) => InTransit(v, a, b, msg)
          /\ \A d \in Node \cap peers : \A t \in new :
                InTransit(v, n, d, RequestTokenMsg(t, numbered[t].rn[n]))
      <4>1. new \in SUBSET Token /\ numbered \in [Token -> Alg] /\ w \in Channels
        BY <3>2, <3>4, <3>w
      <4> QED
        BY <3>7, <4>1, InTransitRequests
    <3>9. net' = v
      BY <3>3, <3>6, <3>7, <3>w
    <3> QED
      BY <3>4, <3>5, <3>6, <3>8, <3>9, <3>w DEF Remain
  <2> QED
    BY <2>1, <2>2
<1> QED
  BY <1>2, <1>3, <1>4, RenewsAsking

\* The calls of the application ask, or change nothing here.
LEMMA CallsRenew ==
    ASSUME TypeOK, TypeOK', HeraldedAll, Bounded, Few, Meeting, Linked, cut = {},
           NEW n \in Node, NEW m \in Monitor, HandleNew(n, m) \/ RequestLock(n, m) \/ TakeGrant(n, m)
    PROVE  \A k \in Node, t \in Token : Renews(k, t)
<1>1. startedCluster' = startedCluster
  BY DEF HandleNew, RequestLock, TakeGrant, nodeVars
<1>2. CASE UNCHANGED <<alg, pendingRequests, net>>
  BY <1>1, <1>2, RemainSelf, RenewsQuiet
<1>3. CASE \E T \in SUBSET Token : RequestTokens(n, T)
  BY <1>1, <1>3, RequestTokensRenews
<1>4. {SysToken} \in SUBSET Token /\ {m} \in SUBSET Token
  BY DEF Token
<1>5. HandleNew(n, m) => UNCHANGED <<alg, pendingRequests, net>> \/ RequestTokens(n, {SysToken})
  BY DEF HandleNew
<1>6. RequestLock(n, m) => UNCHANGED <<alg, pendingRequests, net>> \/ RequestTokens(n, {m})
  BY DEF RequestLock, pendingVars
<1>7. TakeGrant(n, m) => UNCHANGED <<alg, pendingRequests, net>>
  BY DEF TakeGrant, tokenVars, pendingVars
<1> QED
  BY <1>2, <1>3, <1>4, <1>5, <1>6, <1>7

\* The last handshake sends the requests that waited for it.
LEMMA PacketClusterHandshakeRenews ==
    ASSUME TypeOK, TypeOK', HeraldedAll, Bounded, Few, Meeting', Linked, cut = {},
           NEW n \in Node, NEW p \in Node, PacketClusterHandshake(n, p)
    PROVE  \A k \in Node, t \in Token : Renews(k, t)
<1>1. /\ net \in Channels /\ net[p][n] # <<>> /\ Head(net[p][n]).type # "RequestToken"
      /\ pendingRequests' = pendingRequests /\ alg \in [Node -> [Token -> Alg]]
      /\ started' = started /\ pendingRequests[n] \in SUBSET Token
  BY DEF PacketClusterHandshake, Arrives, TypeOK, Channels
<1>2. PICK first : first = Received(n, p)
  OBVIOUS
<1>3. first \in Channels /\ Remain(net, first)
  BY <1>1, <1>2, RemainReceived, ReceivedType
<1> DEFINE completes == AllIntroduced(handshakes[n] + 1) /\ n \notin startedCluster
<1>4. CASE ~completes
  <2>1. alg' = alg /\ startedCluster' = startedCluster /\ net' = first
    BY <1>2, <1>4 DEF PacketClusterHandshake
  <2> QED
    BY <1>1, <1>3, <2>1, RenewsQuiet
<1>5. CASE completes
  <2>1. PICK A : A = pendingRequests[n]
    OBVIOUS
  <2>2. PICK numbered : numbered = Numbered(alg[n], n, A)
    OBVIOUS
  <2>3. PICK order \in Orderings(A) :
           /\ startedCluster' = startedCluster \cup {n}
           /\ alg' = [alg EXCEPT ![n] = numbered]
           /\ net' = Post(first, n, links[n], RequestMsgs(numbered, n, order))
    BY <1>2, <1>5, <2>1, <2>2 DEF PacketClusterHandshake
  <2>4. /\ numbered \in [Token -> Alg] /\ alg'[n] = numbered /\ A \in SUBSET Token
        /\ \A k \in Node \ {n} : alg'[k] = alg[k]
    <3>1. alg[n] \in [Token -> Alg]
      BY <1>1
    <3>2. numbered \in [Token -> Alg]
      BY <2>2, <3>1, NumberedType
    <3> QED
      BY <1>1, <2>1, <2>3, <3>2
  <2>5. ASSUME NEW t \in Token PROVE alg[n][t].rn[n] + 1 < U32
    BY LowOwns, OwnsType DEF Low
  <2>6. Asked(n, A)
    <3> SUFFICES ASSUME NEW t \in Token
                 PROVE  /\ alg'[n][t].rn[n] = IF t \in A THEN alg[n][t].rn[n] + 1
                                                         ELSE alg[n][t].rn[n]
                        /\ \A k \in Node \ {n} : alg'[n][t].rn[k] = alg[n][t].rn[k]
      BY DEF Asked
    <3>1. alg[n] \in [Token -> Alg]
      BY <1>1
    <3> QED
      BY <2>2, <2>4, <2>5, <3>1, NumberedIs
  <2>7. links[n] = Node \ {n}
    <3>1. n \in started
      BY <1>1, <2>3 DEF Meeting
    <3> QED
      BY <3>1 DEF Linked
  <2>8. PICK peers : peers = links[n]
    OBVIOUS
  <2>9. PICK v : v = Post(first, n, peers, RequestMsgs(numbered, n, order))
    OBVIOUS
  <2>10. /\ \A a, b \in Node : \A msg : InTransit(first, a, b, msg) => InTransit(v, a, b, msg)
         /\ \A d \in Node \cap peers : \A t \in A :
               InTransit(v, n, d, RequestTokenMsg(t, numbered[t].rn[n]))
    <3>1. A \in SUBSET Token /\ numbered \in [Token -> Alg] /\ first \in Channels
      BY <1>3, <2>4
    <3> QED
      BY <2>9, <3>1, InTransitRequests
  <2>11. net' = v
    BY <2>3, <2>8, <2>9
  <2>12. Remain(net, net')
    BY <1>3, <2>10, <2>11 DEF Remain
  <2>13. \A t \in Token : t \in A => \A k \in Node \ {n} :
            InTransit(net', n, k, RequestTokenMsg(t, alg'[n][t].rn[n]))
    BY <2>4, <2>7, <2>8, <2>10, <2>11
  <2>14. /\ \A k \in Node \ {n} : k \in startedCluster' <=> k \in startedCluster
         /\ \A t \in Token : Needs(n, t)' => t \in A /\ ~Needs(n, t)
    BY <1>1, <1>5, <2>1, <2>3 DEF Needs
  <2> QED
    BY <1>1, <2>4, <2>6, <2>12, <2>13, <2>14, RenewsAsking
<1> QED
  BY <1>4, <1>5

\* When the system token arrives, the monitors found in it are asked for, everywhere.
LEMMA TakeSystemTokenTells ==
    ASSUME TypeOK, SysEntryCreated, cut = {}, NEW n \in Node, NEW p \in Node, n \in startedCluster,
           Arrives(n, p, "GiveToken"), NEW msg, msg = Head(net[p][n]),
           msg.token = SysToken, TakeSystemToken(n, p, msg),
           NEW T, T = ((private[n] \ created[n]) \cap msg.monitors \cap pendingGrants[n])
                             \ pendingRequests[n]
    PROVE  /\ Remain(net, net')
           /\ \A t \in T : \A k \in Node \cap links[n] :
                 InTransit(net', n, k, RequestTokenMsg(t, alg'[n][t].rn[n]))
<1> DEFINE fresh == private[n] \ created[n]
           found == fresh \cap msg.monitors
           adopted == fresh \ msg.monitors
           new == (found \cap pendingGrants[n]) \ pendingRequests[n]
           holds == (owned[n] \ found) \cup adopted \cup {SysToken}
           registered == msg.monitors \cup adopted
           loaded == [alg[n] EXCEPT ![SysToken] = LoadProperties(@, msg.ln, msg.queue)]
           numbered == IF n \in startedCluster THEN Numbered(loaded, n, new) ELSE loaded
           asks == IF n \in startedCluster THEN new ELSE {}
<1>4. PICK after \in Released(numbered[SysToken], n), order \in Orderings(asks) :
         LET asked == Post(Received(n, p), n, links[n], RequestMsgs(numbered, n, order))
         IN  IF after.queue = <<>>
             THEN /\ owned' = [owned EXCEPT ![n] = holds]
                  /\ alg' = [alg EXCEPT ![n] = [numbered EXCEPT ![SysToken] = after]]
                  /\ net' = asked
             ELSE /\ owned' = [owned EXCEPT ![n] = holds \ {SysToken}]
                  /\ alg' = [alg EXCEPT ![n] = [numbered EXCEPT ![SysToken] = Popped(after)]]
                  /\ net' = Post(asked, n, {Head(after.queue)},
                                 <<GiveTokenMsg(SysToken, Popped(after), registered, 0)>>)
  BY DEF TakeSystemToken
<1>f. PICK first : first = Received(n, p)
  OBVIOUS
<1>1. /\ net \in Channels /\ msg.type = "GiveToken" /\ msg \in Message
      /\ first \in Channels /\ net[p][n] # <<>> /\ Remain(net, first)
      /\ known' = [known EXCEPT ![n] = registered]
  <2>1. net \in Channels /\ net[p][n] # <<>> /\ msg.type = "GiveToken"
    BY DEF TypeOK, Channels, Arrives
  <2>2. known' = [known EXCEPT ![n] = registered]
    BY DEF TakeSystemToken
  <2> QED
    BY <1>f, <2>1, <2>2, ReceivedType, RemainReceived
<1>2. /\ msg.ln \in [Node -> RequestNumber] /\ msg.queue \in Seq(Node)
      /\ msg.monitors \in SUBSET Monitor /\ SysToken \in Token /\ SysToken \notin Monitor
  BY <1>1, MonitorAssumption, MessageFields DEF Token
<1>3. new \in SUBSET Monitor /\ new \in SUBSET Token /\ registered \in SUBSET Monitor
  <2>1. private[n] \ {SysToken} \in SUBSET Monitor
    BY DEF TypeOK, Token
  <2>2. SysToken \notin fresh
    BY DEF SysEntryCreated
  <2> QED
    BY <1>2, <2>1, <2>2 DEF Token
<1>5. order \in Orderings(T) /\ T = new
  <2>1. T = new
    OBVIOUS
  <2> HIDE DEF new
  <2>2. asks = T
    BY <2>1
  <2> QED
    BY <1>4, <2>1, <2>2
<1>6. numbered \in [Token -> Alg]
  <2>1. alg[n] \in [Token -> Alg] /\ alg[n][SysToken] \in Alg
    BY <1>2 DEF TypeOK
  <2>2. loaded \in [Token -> Alg]
    BY <1>2, <2>1, LoadType
  <2> HIDE DEF loaded
  <2>3. Numbered(loaded, n, new) \in [Token -> Alg]
    BY <2>2, NumberedType
  <2> QED
    BY <2>2, <2>3
<1> HIDE DEF new, loaded, numbered, asks, holds, registered
<1>x. PICK x : x = numbered
  OBVIOUS
<1>p. PICK peers : peers = links[n]
  OBVIOUS
<1>v. PICK v : v = Post(first, n, peers, RequestMsgs(x, n, order))
  OBVIOUS
<1>7. /\ \A a, b \in Node : \A m : InTransit(first, a, b, m) => InTransit(v, a, b, m)
      /\ \A d \in Node \cap peers : \A t \in T :
            InTransit(v, n, d, RequestTokenMsg(t, x[t].rn[n]))
  <2>1. T \in SUBSET Token /\ x \in [Token -> Alg] /\ first \in Channels
    BY <1>1, <1>3, <1>5, <1>6, <1>x
  <2>2. PICK S : S = T
    OBVIOUS
  <2>o. PICK ord : ord = order
    OBVIOUS
  <2>3. S \in SUBSET Token /\ ord \in Orderings(S) /\ v = Post(first, n, peers, RequestMsgs(x, n, ord))
    BY <1>5, <1>v, <2>1, <2>2, <2>o
  <2>4. /\ \A a, b \in Node : \A m : InTransit(first, a, b, m) => InTransit(v, a, b, m)
        /\ \A d \in Node \cap peers : \A t \in S :
              InTransit(v, n, d, RequestTokenMsg(t, x[t].rn[n]))
    BY <2>1, <2>3, InTransitRequests
  <2> QED
    BY <2>2, <2>4
<1>8. v \in Channels
  <2>1. T \in SUBSET Token /\ x \in [Token -> Alg] /\ first \in Channels
    BY <1>1, <1>3, <1>5, <1>6, <1>x
  <2>2. RequestMsgs(x, n, order) \in Seq(Message)
    BY <1>5, <2>1, RequestMsgsType
  <2> QED
    BY <1>v, <2>1, <2>2, PostType
<1>9. \/ net' = v
      \/ \E to, give : give \in Message /\ net' = Post(v, n, to, <<give>>)
  <2>1. CASE after.queue = <<>>
    BY <1>4, <1>f, <1>p, <1>v, <1>x, <2>1
  <2>2. CASE after.queue # <<>>
    <3>1. PICK give : give = GiveTokenMsg(SysToken, Popped(after), registered, 0)
      OBVIOUS
    <3>2. PICK to : to = {Head(after.queue)}
      OBVIOUS
    <3>3. net' = Post(v, n, to, <<give>>)
      BY <1>4, <1>f, <1>p, <1>v, <1>x, <2>2, <3>1, <3>2
    <3>4. after \in Alg
      BY <1>2, <1>4, <1>6, ReleasedType
    <3>5. Popped(after) \in Alg
      BY <2>2, <3>4, PoppedType
    <3>6. give \in Message
      BY <1>2, <1>3, <3>1, <3>5, MessageTypes
    <3> QED
      BY <3>3, <3>6
  <2> QED
    BY <2>1, <2>2
<1>10. \A a, b \in Node : \A m : InTransit(v, a, b, m) => InTransit(net', a, b, m)
  <2>1. CASE net' = v
    BY <2>1
  <2>2. CASE \E to, give : give \in Message /\ net' = Post(v, n, to, <<give>>)
    <3>1. PICK to, give : give \in Message /\ net' = Post(v, n, to, <<give>>)
      BY <2>2
    <3>2. <<give>> \in Seq(Message)
      BY <3>1
    <3> QED
      BY <1>8, <3>1, <3>2, InTransitPost
  <2> QED
    BY <1>9, <2>1, <2>2
<1>11. \A t \in T : alg'[n][t] = x[t]
  <2>1. \E kept : alg' = [alg EXCEPT ![n] = [numbered EXCEPT ![SysToken] = kept]]
    BY <1>4
  <2>2. PICK kept : alg'[n] = [x EXCEPT ![SysToken] = kept]
    BY <1>x, <2>1 DEF TypeOK
  <2>3. \A t \in T : t \in Token /\ t # SysToken
    BY <1>2, <1>3, <1>5
  <2>4. x \in [Token -> Alg]
    BY <1>6, <1>x
  <2> QED
    BY <2>2, <2>3, <2>4
<1>12. Remain(net, net')
  BY <1>1, <1>7, <1>10 DEF Remain
<1> QED
  BY <1>7, <1>10, <1>11, <1>12, <1>p

\* The system token arrives: the monitors in it are asked for, everywhere.
LEMMA TakeSystemTokenRenews ==
    ASSUME IInv, IInv', Asking, Young, Bounded, Few, Truthful, \A t \in Token : Right(t),
           HeraldedAll, Meeting, Linked, cut = {}, NEW n \in Node, NEW p \in Node,
           Arrives(n, p, "GiveToken"), NEW msg, msg = Head(net[p][n]),
           msg.token = SysToken, TakeSystemToken(n, p, msg)
    PROVE  \A k \in Node, t \in Token : Renews(k, t)
<1>1. TypeOK /\ TypeOK' /\ SysEntryCreated /\ SysToken \in Token /\ SysToken \notin Monitor
  BY MonitorAssumption DEF IInv, Token
<1>2. PICK new \in SUBSET Monitor, adopted \in SUBSET Monitor, a \in Alg, after \in Alg,
           asked \in Channels :
         Sorts(n, p, msg, new, adopted, a, after, asked) /\ Asked(n, new)
  <2>1. Right(SysToken)
    BY <1>1
  <2> QED
    BY <1>1, <2>1, TakeSystemTokenSorts
<1>3. Sorted(n, new, adopted)
  BY <1>2, TakeSystemTokenMoves
<1>4. n \in startedCluster /\ links[n] = Node \ {n}
  BY <1>3, StartedLinks DEF Sorted
<1>5. new = ((private[n] \ created[n]) \cap msg.monitors \cap pendingGrants[n])
               \ pendingRequests[n]
  BY <1>2 DEF Sorts
<1>6. /\ Remain(net, net')
      /\ \A t \in new : \A k \in Node \cap links[n] :
            InTransit(net', n, k, RequestTokenMsg(t, alg'[n][t].rn[n]))
  BY <1>1, <1>4, <1>5, TakeSystemTokenTells
<1>7. /\ pendingRequests'[n] = (pendingRequests[n] \ {SysToken}) \cup new
      /\ startedCluster' = startedCluster /\ new \cap pendingRequests[n] = {}
      /\ \A k \in Node \ {n} : /\ alg'[k] = alg[k]
                               /\ pendingRequests'[k] = pendingRequests[k]
  BY <1>2, <1>3, <1>5 DEF Sorts, Sorted, Elsewhere
<1>8. \A t \in Token :
         Needs(n, t)' => (t \in new /\ ~Needs(n, t)) \/ (t \notin new /\ Needs(n, t))
  BY <1>7 DEF Needs
<1>9. \A t \in Token : t \in new => \A k \in Node \ {n} :
         InTransit(net', n, k, RequestTokenMsg(t, alg'[n][t].rn[n]))
  BY <1>4, <1>6
<1> QED
  BY <1>1, <1>2, <1>6, <1>7, <1>8, <1>9, RenewsAsking

\* A token arrives.
LEMMA PacketGiveTokenRenews ==
    ASSUME IInv, IInv', Asking, Young, Bounded, Few, Truthful, \A t \in Token : Right(t),
           HeraldedAll, Meeting, Linked, cut = {}, NEW n \in Node, NEW p \in Node,
           PacketGiveToken(n, p)
    PROVE  \A k \in Node, t \in Token : Renews(k, t)
<1>1. PICK msg : msg = Head(net[p][n])
  OBVIOUS
<1>2. Arrives(n, p, "GiveToken") /\ TypeOK /\ TypeOK'
  BY DEF PacketGiveToken, IInv
<1>3. CASE Unexpected(n, msg.token)
  <2>1. /\ net' = Received(n, p)
        /\ UNCHANGED <<nodeVars, tokenVars, pendingVars, appVars, faultVars>>
    BY <1>1, <1>2, <1>3 DEF PacketGiveToken
  <2>2. /\ alg' = alg /\ pendingRequests' = pendingRequests
        /\ startedCluster' = startedCluster
    BY <2>1 DEF nodeVars, tokenVars, pendingVars
  <2>3. Remain(net, net')
    BY <1>2, <2>1, RemainReceived DEF Arrives, TypeOK, Channels
  <2> QED
    BY <1>2, <2>2, <2>3, RenewsQuiet
<1>4. CASE ~Unexpected(n, msg.token) /\ msg.token = SysToken
  <2>1. TakeSystemToken(n, p, msg)
    BY <1>1, <1>4 DEF PacketGiveToken
  <2> QED
    BY <1>1, <1>2, <1>4, <2>1, TakeSystemTokenRenews
<1>5. CASE ~Unexpected(n, msg.token) /\ msg.token # SysToken
  <2>1. TakeMonitorToken(n, p, msg)
    BY <1>1, <1>5 DEF PacketGiveToken
  <2> QED
    BY <1>1, <1>2, <1>5, <2>1, TakeMonitorTokenRenews
<1> QED
  BY <1>3, <1>4, <1>5

\* A request that arrives is recorded: it is the last one its sender made, or an older one.
LEMMA PacketRequestTokenRenews ==
    ASSUME IInv, IInv', Truthful, HeraldedAll, Meeting, NEW n \in Node, NEW p \in Node,
           PacketRequestToken(n, p)
    PROVE  \A k \in Node, t \in Token : Renews(k, t)
<1>h. PICK head : head = Head(net[p][n])
  OBVIOUS
<1>o. PICK o : o = head.token
  OBVIOUS
<1>u. PICK updated : updated = UpdateRequestNumber(alg[n][o], p, head.number)
  OBVIOUS
<1>f. PICK first : first = Received(n, p)
  OBVIOUS
<1>g. PICK give : give = TokenMsg(n, o, updated)
  OBVIOUS
<1>1. /\ TypeOK /\ TypeOK' /\ net \in Channels /\ Honest(net, Last)
      /\ alg \in [Node -> [Token -> Alg]] /\ net[p][n] # <<>>
      /\ head.type = "RequestToken"
      /\ startedCluster' = startedCluster /\ pendingRequests' = pendingRequests
  <2>1. TypeOK /\ TypeOK' /\ Honest(net, Last)
    BY DEF IInv, Truthful
  <2>2. startedCluster' = startedCluster /\ pendingRequests' = pendingRequests
    BY DEF PacketRequestToken, nodeVars, pendingVars
  <2> QED
    BY <1>h, <2>1, <2>2 DEF TypeOK, Channels, PacketRequestToken, Arrives
<1>2. /\ head \in Message /\ first \in Channels
      /\ o \in Token /\ head.number \in RequestNumber
  <2>1. head \in Message /\ first \in Channels
    BY <1>1, <1>f, <1>h, ReceivedType
  <2> QED
    BY <1>1, <1>o, <2>1, MessageFields
<1>3. head.number <= Last[o][p]
  <2>1. net[p][n] \in Seq(Message)
    BY <1>1 DEF Channels
  <2>2. 1 \in DOMAIN net[p][n] /\ net[p][n][1] = head
    BY <1>1, <1>h, <2>1
  <2> QED
    BY <1>1, <1>o, <2>2 DEF Honest
<1>4. /\ n \in started => alg' = [alg EXCEPT ![n][o] = updated]
      /\ alg' = alg \/ alg' = [alg EXCEPT ![n][o] = updated]
      /\ net' = first \/ net' = Post(first, n, {p}, <<give>>)
  <2>1. CASE n \notin started
    BY <1>f, <2>1 DEF PacketRequestToken
  <2>2. CASE n \in started /\ Serves(n, o, p, updated)
    BY <1>f, <1>g, <1>h, <1>o, <1>u, <2>2 DEF PacketRequestToken
  <2>3. CASE n \in started /\ ~Serves(n, o, p, updated)
    BY <1>f, <1>h, <1>o, <1>u, <2>3 DEF PacketRequestToken
  <2> QED
    BY <2>1, <2>2, <2>3
<1>5. /\ updated \in Alg
      /\ \A k \in Node : k # p => updated.rn[k] = alg[n][o].rn[k]
      /\ updated.rn[p] = IF head.number > alg[n][o].rn[p] THEN head.number ELSE alg[n][o].rn[p]
      /\ head.number \in Nat /\ alg[n][o].rn[p] \in Nat /\ Last[o][p] \in Nat
      /\ alg[n][o].rn[p] <= Last[o][p] /\ Last[o][p] = Owns(o)[p]
      /\ Last[o][p] = alg[p][o].rn[p]
  <2>1. alg[n][o] \in Alg
    BY <1>1, <1>2
  <2>2. updated \in Alg
    BY <1>2, <1>u, <2>1, UpdateType
  <2>3. \A k \in Node : updated.rn[k] = IF k = p /\ head.number > alg[n][o].rn[p]
                                        THEN head.number ELSE alg[n][o].rn[k]
    BY <1>u, <2>1 DEF UpdateRequestNumber, Alg
  <2>4. head.number \in Nat /\ alg[n][o].rn[p] \in Nat
    BY <1>2, <2>1 DEF RequestNumber, Alg
  <2>5. /\ Last[o][p] \in Nat /\ Last[o][p] = Owns(o)[p] /\ alg[n][o].rn[p] <= Last[o][p]
        /\ Last[o][p] = alg[p][o].rn[p]
    BY <1>1, <1>2, LastType DEF Truthful, Counts, Numbers
  <2> QED
    BY <2>2, <2>3, <2>4, <2>5
<1>m. alg[n][o].rn[p] = Last[o][p] \/ head.number = Last[o][p] => updated.rn[p] = Last[o][p]
  <2>1. PICK x, y, z : x = head.number /\ y = alg[n][o].rn[p] /\ z = Last[o][p]
    OBVIOUS
  <2>2. /\ x \in Nat /\ y \in Nat /\ z \in Nat /\ x <= z /\ y <= z
        /\ updated.rn[p] = IF x > y THEN x ELSE y
    BY <1>3, <1>5, <2>1
  <2>3. y = z \/ x = z => updated.rn[p] = z
    BY <2>2
  <2> QED
    BY <2>1, <2>3
<1>6. /\ \A t \in Token : \A k \in Node : k # n \/ t # o => alg'[k][t] = alg[k][t]
      /\ alg'[n][o] = alg[n][o] \/ alg'[n][o] = updated
      /\ n \in started => alg'[n][o] = updated
  <2>1. \A t \in Token : \A k \in Node : k # n \/ t # o => alg'[k][t] = alg[k][t]
    BY <1>1, <1>2, <1>4
  <2>2. alg'[n][o] = alg[n][o] \/ alg'[n][o] = updated
    BY <1>1, <1>2, <1>4
  <2>3. n \in started => alg'[n][o] = updated
    BY <1>1, <1>2, <1>4
  <2> QED
    BY <2>1, <2>2, <2>3
<1>7. \A a, b \in Node : \A m : InTransit(first, a, b, m) => InTransit(net', a, b, m)
  <2>1. CASE net' = first
    BY <2>1
  <2>2. CASE net' = Post(first, n, {p}, <<give>>)
    <3>1. known[n] \in SUBSET Monitor /\ (o # SysToken => data[n][o] \in Nat)
      BY <1>1, <1>2 DEF TypeOK, Token
    <3>2. give \in Message
      BY <1>2, <1>5, <1>g, <3>1, TokenMsgType
    <3>3. <<give>> \in Seq(Message)
      BY <3>2
    <3>4. PICK to : to = {p}
      OBVIOUS
    <3> QED
      BY <1>2, <2>2, <3>3, <3>4, InTransitPost
  <2> QED
    BY <1>4, <2>1, <2>2
<1> SUFFICES ASSUME NEW a \in Node, NEW t \in Token, Needs(a, t)' PROVE Renews(a, t)
  BY DEF Renews
<1>8. Needs(a, t) /\ n \in started
  BY <1>1 DEF Needs, Meeting
<1>9. Owns(t)'[a] = Owns(t)[a]
  <2>1. Owns(t)'[a] = alg'[a][t].rn[a] /\ Owns(t)[a] = alg[a][t].rn[a]
    BY <1>1, OwnsType, OwnsTypeNext
  <2>2. CASE a # n \/ t # o
    BY <1>6, <2>1, <2>2
  <2>3. CASE a = n /\ t = o
    <3>1. updated.rn[n] = alg[n][o].rn[n]
      <4>1. CASE n = p
        BY <1>3, <1>5, <4>1
      <4> QED
        BY <1>5, <4>1
    <3> QED
      BY <1>6, <2>1, <2>3, <3>1
  <2> QED
    BY <2>2, <2>3
<1>10. ASSUME NEW k \in Node \ {a} PROVE Knows(t, a, k, Owns(t)[a])'
  <2>1. Knows(t, a, k, Owns(t)[a])
    BY <1>8 DEF HeraldedAll, Heralded
  <2>2. CASE alg[k][t].rn[a] = Owns(t)[a]
    <3>1. alg'[k][t].rn[a] = Owns(t)[a]
      <4>1. CASE k # n \/ t # o
        BY <1>6, <2>2, <4>1
      <4>2. CASE k = n /\ t = o /\ a # p
        BY <1>5, <1>6, <2>2, <4>2
      <4>3. CASE k = n /\ t = o /\ a = p
        <5>1. updated.rn[p] = alg[n][o].rn[p]
          <6>1. alg[n][o].rn[p] = Last[o][p]
            BY <1>5, <2>2, <4>3
          <6> QED
            BY <1>m, <6>1
        <5> QED
          BY <1>6, <2>2, <4>3, <5>1
      <4> QED
        BY <4>1, <4>2, <4>3
    <3> QED
      BY <1>9, <3>1 DEF Knows
  <2>3. CASE InTransit(net, a, k, RequestTokenMsg(t, Owns(t)[a]))
    <3>1. PICK msg : msg = RequestTokenMsg(t, Owns(t)[a])
      OBVIOUS
    <3>2. CASE a = p /\ k = n /\ msg = head
      <4>1. t = o /\ head.number = Owns(o)[p]
        BY <1>o, <3>1, <3>2 DEF RequestTokenMsg
      <4>2. updated.rn[p] = Owns(o)[p]
        <5>1. Owns(o)[p] = Last[o][p] /\ head.number = Last[o][p]
          BY <1>5, <4>1
        <5> QED
          BY <1>m, <5>1
      <4>3. alg'[n][o].rn[p] = Owns(o)[p]
        BY <1>6, <1>8, <4>2
      <4> QED
        BY <1>9, <3>2, <4>1, <4>3 DEF Knows
    <3>3. CASE ~(a = p /\ k = n /\ msg = head)
      <4>1. InTransit(first, a, k, msg)
        BY <1>1, <1>f, <1>h, <2>3, <3>1, <3>3, InTransitReceived
      <4>2. InTransit(net', a, k, msg)
        BY <1>7, <4>1
      <4> QED
        BY <1>9, <3>1, <4>2 DEF Knows
    <3> QED
      BY <3>2, <3>3
  <2> QED
    BY <2>1, <2>2, <2>3 DEF Knows
<1> QED
  BY <1>8, <1>9, <1>10 DEF Heralded, Renews

\* Every step.
LEMMA NextRenews ==
    ASSUME IInv, IInv', Meeting, Meeting', Asking, Young, Numbering, Few, HeraldedAll, Linked,
           Reliable, cut = {}, dead = {}, [Next]_vars
    PROVE  \A k \in Node, t \in Token : Renews(k, t)
<1>1. /\ Bounded /\ Truthful /\ (\A t \in Token : Right(t)) /\ TypeOK /\ TypeOK'
      /\ \A n, p \in Node : ~CrashInHandshake(n, p) /\ ~Disconnect(n, p)
  BY NextFaults DEF Numbering, IInv
<1>2. ASSUME NEW n \in Node, NEW p \in Node, HandleConnect(n, p)
      PROVE  \A k \in Node, t \in Token : Renews(k, t)
  BY <1>1, <1>2, HandleConnectRenews
<1>3. ASSUME NEW n \in Node, NEW p \in Node, PacketClusterHandshake(n, p)
      PROVE  \A k \in Node, t \in Token : Renews(k, t)
  BY <1>1, <1>3, PacketClusterHandshakeRenews
<1>4. ASSUME NEW n \in Node, NEW p \in Node, PacketGiveToken(n, p)
      PROVE  \A k \in Node, t \in Token : Renews(k, t)
  BY <1>1, <1>4, PacketGiveTokenRenews
<1>5. ASSUME NEW n \in Node, NEW p \in Node, PacketRequestToken(n, p)
      PROVE  \A k \in Node, t \in Token : Renews(k, t)
  BY <1>1, <1>5, PacketRequestTokenRenews
<1>6. ASSUME NEW n \in Node, NEW m \in Monitor,
             HandleNew(n, m) \/ RequestLock(n, m) \/ TakeGrant(n, m)
      PROVE  \A k \in Node, t \in Token : Renews(k, t)
  BY <1>1, <1>6, CallsRenew
<1>7. ASSUME NEW n \in Node, NEW m \in Monitor, RequestUnlock(n, m)
      PROVE  \A k \in Node, t \in Token : Renews(k, t)
  BY <1>1, <1>7, RequestUnlockRenews
<1>8. CASE UNCHANGED vars
  <2>1. UNCHANGED <<alg, pendingRequests, startedCluster, net>>
    BY <1>8 DEF vars, nodeVars, tokenVars, pendingVars
  <2> QED
    BY <1>1, <2>1, RemainSelf, RenewsQuiet
<1> QED
  BY <1>1, <1>2, <1>3, <1>4, <1>5, <1>6, <1>7, <1>8 DEF Next, Handle

-----------------------------------------------------------------------------
(* The invariant.                                                           *)

\* What a token has served is at most one request behind.
Abreast ==
    \A t \in Token : \A ln \in Numbers :
        Served(t, ln) => \A k \in Node : Owns(t)[k] \in {ln[k], ln[k] + 1}

\* Every record fits the requesters' own numbers.
LEMMA ServedFits == IInv /\ Numbering => Abreast
<1> SUFFICES ASSUME IInv, Numbering, NEW t \in Token, NEW ln \in Numbers, Served(t, ln)
             PROVE  \A k \in Node : Owns(t)[k] \in {ln[k], ln[k] + 1}
  BY DEF Abreast
<1>1. CASE \E k \in Node : t \in Held(k) /\ ln = alg[k][t].ln
  <2>1. PICK k \in Node : t \in Held(k) /\ ln = alg[k][t].ln
    BY <1>1
  <2>2. Holding(t, k)
    BY <2>1 DEF Numbering, Right
  <2> QED
    BY <2>1, <2>2 DEF Holding, Fits
<1>2. CASE \E a, b \in Node : \E i \in Nat : Carries(net, a, b, i, t) /\ ln = net[a][b][i].ln
  <2>1. PICK a \in Node, b \in Node, i \in Nat :
           Carries(net, a, b, i, t) /\ ln = net[a][b][i].ln
    BY <1>2
  <2>2. Coming(t, b, net[a][b][i])
    BY <2>1 DEF Numbering, Right
  <2> QED
    BY <2>1, <2>2 DEF Coming, Fits
<1>3. CASE ~Made(t) /\ ln = NoneServed
  <2>1. Pristine(t)
    BY <1>3 DEF Numbering, Right
  <2> QED
    BY <1>3, <2>1 DEF Pristine, Fits
<1> QED
  BY <1>1, <1>2, <1>3 DEF Served

\* Who waited is still next; who asks was served before, or never asked.
LEMMA UnservedStep ==
    ASSUME IInv, IInv', Numbering, Numbering', NEW t \in Token, Stems(t),
           \A n \in Node : Renews(n, t), Unserved(t)
    PROVE  Unserved(t)'
<1>1. ASSUME NEW n \in Node, Needs(n, t)', NEW ln2 \in Numbers, Served(t, ln2)'
      PROVE  Owns(t)'[n] = ln2[n] + 1
  <2>1. PICK ln \in Numbers : Served(t, ln) /\ ln2[n] = ln[n]
    BY <1>1 DEF Stems, Descends
  <2>2. Owns(t)[n] \in {ln[n], ln[n] + 1}
    BY <2>1, ServedFits DEF Abreast
  <2>3. Owns(t)'[n] \in {ln2[n], ln2[n] + 1}
    <3>1. (IInv /\ Numbering => Abreast)'
      BY ServedFits, PTL
    <3> QED
      BY <1>1, <3>1 DEF Abreast
  <2>4. ln[n] \in Nat
    BY <2>1 DEF Numbers
  <2>5. CASE Needs(n, t) /\ Owns(t)'[n] = Owns(t)[n]
    BY <2>1, <2>5 DEF Unserved
  <2>6. CASE Owns(t)'[n] = Owns(t)[n] + 1
    BY <2>1, <2>2, <2>3, <2>4, <2>6
  <2> QED
    BY <1>1, <2>5, <2>6 DEF Renews
<1> QED
  BY <1>1 DEF Unserved

\* Nobody waits at first; a cluster of one node has nobody to connect with.
LEMMA InitKeeping == Init => Keeping
<1> SUFFICES ASSUME Init PROVE Keeping
  OBVIOUS
<1>1. cut = {} /\ dead = {} /\ \A n \in Node : pendingRequests[n] = {} /\ links[n] = {}
  BY DEF Init
<1>2. Linked
  <2> SUFFICES ASSUME NEW n \in started PROVE links[n] = Node \ {n}
    BY DEF Linked
  <2>1. N = 1 /\ n \in Node
    BY DEF Init
  <2>2. Node = {n}
    BY <2>1 DEF Node
  <2> QED
    BY <1>1, <2>2
<1>3. Disjoint /\ \A n \in Node, t \in Token : ~Needs(n, t)
  BY <1>1 DEF Disjoint, Needs
<1> QED
  BY <1>1, <1>2, <1>3 DEF Keeping, Unserved

\* Every step keeps it.
LEMMA NextKeeping ==
    ASSUME IInv, IInv', Meeting, Meeting', Asking, Young, Settles, Numbering, Numbering',
           Few, Reliable, Keeping, [Next]_vars
    PROVE  Keeping'
<1>1. TypeOK /\ cut = {} /\ dead = {} /\ Linked /\ Disjoint /\ HeraldedAll
  BY DEF IInv, Keeping, HeraldedAll
<1>2. cut' = {} /\ dead' = {}
  BY <1>1, NextFaults
<1>3. Linked' /\ Disjoint'
  BY <1>1, NextLinked, NextDisjoint
<1>4. \A n \in Node, t \in Token : Renews(n, t)
  BY <1>1, NextRenews
<1>5. \A t \in Token : Stems(t)
  BY <1>1, NextStems
<1>6. \A t \in Token : Unserved(t)'
  BY <1>4, <1>5, UnservedStep DEF Keeping
<1>7. \A n \in Node, t \in Token : Needs(n, t)' => Heralded(n, t)'
  BY <1>4 DEF Renews
<1> QED
  BY <1>2, <1>3, <1>6, <1>7 DEF Keeping

\* So it always holds.
LEMMA KeepingInvariant == ASSUME Patient, Reliable, Few PROVE Spec => []Keeping
<1> DEFINE Base == IInv /\ Meeting /\ Asking /\ Young /\ Settles /\ Numbering
<1>1. Spec => []Base
  BY IInvInvariant, MeetingInvariant, AskingInvariant, YoungInvariant, SettlesInvariant,
     NumberingInvariant, PTL
<1>2. Base /\ Base' /\ Keeping /\ [Next]_vars => Keeping'
  BY NextKeeping
<1> HIDE DEF Base
<1> QED
  BY <1>1, <1>2, InitKeeping, PTL DEF Spec

-----------------------------------------------------------------------------
(* What it is for.                                                          *)

\* The records that RequestKept looks at are what the token has served.
LEMMA TravellingServed ==
    ASSUME TypeOK, NEW t \in Token, NEW r \in Travelling(t)
    PROVE  r.ln \in Numbers /\ Served(t, r.ln)
<1>1. CASE \E n \in Node : /\ t \in owned[n]
                           /\ r = [at |-> n, ln |-> alg[n][t].ln, queue |-> alg[n][t].queue]
  <2>1. PICK n \in Node : t \in owned[n] /\ r.ln = alg[n][t].ln
    BY <1>1
  <2>2. alg[n][t].ln \in Numbers
    BY OwnsType
  <2> QED
    BY <2>1, <2>2 DEF Served, Held
<1>2. CASE \E f \in Flights(t) : r = [at |-> f[2], ln |-> net[f[1]][f[2]][f[3]].ln,
                                      queue |-> net[f[1]][f[2]][f[3]].queue]
  <2>1. PICK f \in Flights(t) : r.ln = net[f[1]][f[2]][f[3]].ln
    BY <1>2
  <2>2. PICK a \in Node, b \in Node : \E i \in DOMAIN net[a][b] :
           Gives(net[a][b][i], t) /\ f = <<a, b, i>>
    BY DEF Flights
  <2>3. PICK i \in Nat : Carries(net, a, b, i, t) /\ f = <<a, b, i>>
    <3>1. net[a][b] \in Seq(Message)
      BY DEF TypeOK
    <3> QED
      BY <2>2, <3>1 DEF Carries
  <2>4. r.ln = net[a][b][i].ln
    BY <2>1, <2>3
  <2>5. net[a][b][i].ln \in Numbers
    BY <2>3, CarriedType
  <2> QED
    BY <2>3, <2>4, <2>5 DEF Served
<1> QED
  BY <1>1, <1>2 DEF Travelling

\* A node that has a request pending will be served, as far as the bookkeeping can tell:
\* its number is the next one the token serves, wherever the token is, and every other
\* node has recorded it or has it on its way.  Nothing that takes, gives, loads or
\* releases the token forgets a request, if connections hold, the undefined loop does
\* not crash, applications do not lock a monitor while it is being created and no
\* request number wraps around.
THEOREM RequestKeptHolds == ASSUME Patient, Reliable, Few PROVE Spec => []RequestKept
<1>1. IInv /\ Numbering /\ Keeping => RequestKept
  <2> SUFFICES ASSUME IInv, Numbering, Keeping,
                      NEW n \in startedCluster, NEW t \in pendingRequests[n],
                      NEW number, number = alg[n][t].rn[n]
               PROVE  /\ \A r \in Travelling(t) : number = Inc32(r.ln[n])
                      /\ \A k \in Node \ {n} :
                            \/ alg[k][t].rn[n] = number
                            \/ RequestTokenMsg(t, number) \in QueueRange(net[n][k])
    BY DEF RequestKept
  <2>1. /\ TypeOK /\ n \in Node /\ t \in Token /\ Needs(n, t) /\ Bounded
    BY DEF IInv, TypeOK, Needs, Numbering
  <2>2. number = Owns(t)[n] /\ number \in Nat /\ number + 1 < U32
    <3>1. Owns(t) \in Numbers /\ Owns(t)[n] = alg[n][t].rn[n]
      BY <2>1, OwnsType
    <3>2. Owns(t)[n] + 1 < U32
      BY <2>1, LowOwns DEF Low
    <3> QED
      BY <2>1, <3>1, <3>2 DEF Numbers
  <2>3. ASSUME NEW r \in Travelling(t) PROVE number = Inc32(r.ln[n])
    <3>1. r.ln \in Numbers /\ Served(t, r.ln)
      BY <2>1, TravellingServed
    <3>2. Unserved(t)
      BY <2>1 DEF Keeping
    <3>3. number = r.ln[n] + 1 /\ r.ln[n] \in Nat
      BY <2>1, <2>2, <3>1, <3>2 DEF Unserved, Numbers
    <3> QED
      BY <2>2, <3>3, U32Assumption DEF Inc32
  <2>4. ASSUME NEW k \in Node \ {n}
        PROVE  \/ alg[k][t].rn[n] = number
               \/ RequestTokenMsg(t, number) \in QueueRange(net[n][k])
    <3>1. Heralded(n, t)
      BY <2>1 DEF Keeping
    <3>2. Knows(t, n, k, number)
      BY <2>2, <3>1 DEF Heralded
    <3> QED
      BY <3>2 DEF Knows, InTransit, QueueRange
  <2> QED
    BY <2>3, <2>4
<1> QED
  BY <1>1, IInvInvariant, NumberingInvariant, KeepingInvariant, PTL

====
