------------------------- MODULE PacketPipelineProofs -------------------------
(***************************************************************************)
(* Proofs about the end of the process in PacketPipeline, for any number   *)
(* of workers, packets and requests: the destructor of Cluster joins every *)
(* thread that uses the members before it destroys them.                   *)
(***************************************************************************)
EXTENDS PacketPipeline, TLAPS

\* The TCP thread has left before the loop's threads are joined, and these before the
\* members are destroyed.
Joined ==
    /\ cluster \in {"joining", "freed"} => tcp = "left"
    /\ cluster = "freed" => ThreadsEnded

\* What the destructor destroys.
members == <<buffer, received, introduced, tcp, queueVars, loopVars>>

\* A sender only writes to the connection.
LEMMA SendersKeep ==
    ASSUME Introduce \/ SendToken \/ SendSystemToken \/ SendRequest \/ SendSignal
    PROVE  UNCHANGED <<members, cluster>>
<1>1. ASSUME NEW parcel, Send(parcel) PROVE UNCHANGED <<members, cluster>>
  BY <1>1 DEF Send, members
<1>2. CASE Introduce
  BY <1>1, <1>2 DEF Introduce
<1>3. CASE SendToken
  BY <1>1, <1>3 DEF SendToken
<1>4. CASE SendSystemToken
  BY <1>1, <1>4 DEF SendSystemToken
<1>5. CASE SendRequest \/ SendSignal
  BY <1>1, <1>5 DEF SendRequest, SendSignal
<1> QED
  BY <1>2, <1>3, <1>4, <1>5

\* A TCP thread that has left does nothing any more.
LEMMA LeftIsOver ==
    ASSUME TcpThread
    PROVE  tcp # "left" /\ cluster' = cluster
  BY DEF TcpThread, ReadEvent, ReadSome, Refuse, TerminateLoop

\* Neither does a thread of the event loop.
LEMMA EndedIsOver ==
    ASSUME NEW w \in Worker, LoopThread(w) \/ WakeSpuriously(w)
    PROVE  worker[w] # "left"
  BY DEF LoopThread, Handle, Handled, Pop, WakeSpuriously

LEMMA DestructorGoesOn ==
    ASSUME Destructor
    PROVE  /\ cluster # "freed" /\ tcp' = tcp
           /\ cluster' = "joining" => tcp = "left"
           /\ cluster' = "freed" => cluster = "joining" /\ ThreadsEnded /\ worker' = worker
  BY DEF Destructor, StopLoop, StopQueue, JoinTcp, JoinWorkers, Drained, tcpVars

\* Only a process that runs posts.
LEMMA PostsWhileRunning == ASSUME Post PROVE cluster = "running" /\ cluster' = cluster /\ tcp' = tcp
  BY DEF Post, tcpVars

LEMMA InitJoined == Init => Joined
  BY DEF Init, Joined

LEMMA NextJoined == Joined /\ [Next]_vars => Joined'
<1> SUFFICES ASSUME Joined, [Next]_vars PROVE Joined'
  OBVIOUS
<1>1. ASSUME UNCHANGED <<members, cluster>> PROVE Joined'
  BY <1>1 DEF members, queueVars, Joined, ThreadsEnded
<1>2. CASE TcpThread
  BY <1>2, LeftIsOver DEF Joined
<1>3. CASE Post
  BY <1>3, PostsWhileRunning DEF Joined
<1>4. ASSUME NEW w \in Worker, LoopThread(w) PROVE Joined'
  <2>1. cluster # "freed"
    BY <1>4, EndedIsOver DEF Joined, ThreadsEnded
  <2>2. cluster' = cluster /\ tcp' = tcp
    BY <1>4 DEF LoopThread, tcpVars
  <2> QED
    BY <2>1, <2>2 DEF Joined
<1>5. CASE Wake
  <2>1. cluster # "freed"
    BY <1>5, EndedIsOver DEF Joined, ThreadsEnded, Wake
  <2>2. cluster' = cluster /\ tcp' = tcp
    BY <1>5 DEF Wake, tcpVars
  <2> QED
    BY <2>1, <2>2 DEF Joined
<1>6. CASE Destructor
  BY <1>6, DestructorGoesOn DEF Joined, ThreadsEnded
<1>7. CASE UNCHANGED vars
  BY <1>1, <1>7 DEF vars, members, tcpVars
<1> QED
  BY <1>1, <1>2, <1>3, <1>4, <1>5, <1>6, <1>7, SendersKeep DEF Next

\* NothingAfterFree: no thread of the library reads into the buffer, appends, pops or
\* handles an event once ~Cluster has destroyed what these use, for it has joined the
\* TCP thread and every thread of the event loop before.
THEOREM NothingAfterFreeHolds == Spec => NothingAfterFree
<1>1. Spec => []Joined
  BY InitJoined, NextJoined, PTL DEF Spec
<1>2. Joined /\ [Next]_vars => [cluster # "freed"]_members
  <2> SUFFICES ASSUME Joined, [Next]_vars, cluster = "freed" PROVE UNCHANGED members
    OBVIOUS
  <2>1. tcp = "left" /\ \A w \in Worker : worker[w] = "left"
    BY DEF Joined, ThreadsEnded
  <2>2. ~ TcpThread /\ ~ Post /\ ~ Destructor
    BY <2>1, LeftIsOver, PostsWhileRunning, DestructorGoesOn
  <2>3. ~ Wake /\ \A w \in Worker : ~ LoopThread(w)
    BY <2>1, EndedIsOver DEF Wake
  <2>4. UNCHANGED vars => UNCHANGED members
    BY DEF vars, members, tcpVars
  <2> QED
    BY <2>2, <2>3, <2>4, SendersKeep DEF Next
<1> QED
  BY <1>1, <1>2, PTL DEF Spec, NothingAfterFree, members

=============================================================================
