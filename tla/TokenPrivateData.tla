---------------------------- MODULE TokenPrivateData ----------------------------
(***************************************************************************)
(* The Suzuki-Kasami bookkeeping a node keeps for one token: class         *)
(* TokenPrivateData of src/lib/token.cpp.  RN (rn) holds the highest       *)
(* request number the node knows of every node, LN (ln) the number of the  *)
(* request that was last served, Q (queue) the nodes the token still has   *)
(* to visit.  ln and queue travel with the token, rn never does.           *)
(*                                                                         *)
(* Request numbers are u32: they are counted modulo U32 (2^32 in the       *)
(* program, a parameter here).                                             *)
(***************************************************************************)
EXTENDS Naturals, Sequences, FiniteSets

CONSTANTS N,    \* the number of nodes of the cluster
          U32   \* the number of values of a u32

ASSUME NAssumption == N \in Nat \ {0}
ASSUME U32Assumption == U32 \in Nat \ {0, 1}

Node == 0 .. N-1

RequestNumber == 0 .. U32-1

Alg == [rn : [Node -> RequestNumber],
        ln : [Node -> RequestNumber],
        queue : Seq(Node)]

-----------------------------------------------------------------------------
\* The sequences that list every element of the finite set S once.
Orderings(S) ==
    {s \in [1 .. Cardinality(S) -> S] : \A i, j \in DOMAIN s : i # j => s[i] # s[j]}

\* The ascending one: the order of a loop over node ids.
Ascending(S) ==
    {s \in Orderings(S) : \A i, j \in DOMAIN s : i < j => s[i] < s[j]}

QueueRange(q) == {q[i] : i \in DOMAIN q}

\* Mutant of Inc32: the number is wider than a u32.
Inc32Wide(x) == x + 1

\* u32 x + 1
Inc32(x) == IF x + 1 = U32 THEN 0 ELSE x + 1

-----------------------------------------------------------------------------
NewAlg == [rn |-> [i \in Node |-> 0], ln |-> [i \in Node |-> 0], queue |-> <<>>]

IncrementRequestNumber(a, node) == [a EXCEPT !.rn[node] = Inc32(@)]

\* Mutant of UpdateRequestNumber: the request is not recorded.
UpdateNothing(a, node, request) == a

\* The larger number wins, also when the sender's number has wrapped around.
UpdateRequestNumber(a, node, request) ==
    [a EXCEPT !.rn[node] = IF request > @ THEN request ELSE @]

\* The node has a request the token did not serve yet.
Outstanding(a, node) == a.rn[node] = Inc32(a.ln[node])

\* Mutants of Latecomers: a node that is queued already is appended again; the
\* loop starts at node 1.
LatecomersAgain(a) == {i \in Node : Outstanding(a, i)}
LatecomersFromOne(a) == {i \in Node \ {0} : Outstanding(a, i) /\ i \notin QueueRange(a.queue)}

Latecomers(a) == {i \in Node : Outstanding(a, i) /\ i \notin QueueRange(a.queue)}

\* What release(node) can leave behind: the one record whose queue is extended
\* by the outstanding requesters it lacks, in the order of their ids.
Released(a, node) ==
    LET served == [a EXCEPT !.ln[node] = a.rn[node]]
    IN  {[served EXCEPT !.queue = @ \o late] : late \in Ascending(Latecomers(served))}

\* The queue after queue().pop().
Popped(a) == [a EXCEPT !.queue = Tail(@)]

\* Mutant of LoadProperties: LN is not loaded.
LoadQueueOnly(a, ln, queue) == [a EXCEPT !.queue = queue]

\* loadProperties: LN and Q come from the packet, RN stays.
LoadProperties(a, ln, queue) == [a EXCEPT !.ln = ln, !.queue = queue]

=============================================================================
