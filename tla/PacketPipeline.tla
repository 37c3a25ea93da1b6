----------------------------- MODULE PacketPipeline -----------------------------
(***************************************************************************)
(* The way of a packet from the handlers of one node to those of another:   *)
(* sendToken marshals the properties of a token, encode makes bytes, the    *)
(* TCP thread of the receiver reads them in pieces into its buffer, decodes *)
(* them and appends an event, and the thread of the event loop pops and     *)
(* handles it, next to the requests of the receiver's application and until *)
(* ~Cluster ends both threads.                                              *)
(*                                                                         *)
(* TcpManager says why the bytes of packets leave whole and in order; here  *)
(* they are one stream.  ClusterLoop says who sends what; here the sender   *)
(* sends what it likes, the two handshakes first.                           *)
(***************************************************************************)
EXTENDS TokenProperties, EventQueue

CONSTANTS
    Setups,     \* what the two nodes bind, and the order of their hash tables
    Contents(_),\* what a token can hold, given the sender's bindings
    Garbage,    \* what can be in four bytes of memory nobody set
    Pieces(_),  \* how many of the bytes it wants a read may return
    MaxSent,    \* bound: packets sent
    MaxPosts    \* bound: requests of the receiver's application

Monitor == "monitor"
SystemToken == "___system_token"

VARIABLES
    setup,      \* the chosen one of Setups
    sent,       \* the packets sent so far
    contents,   \* what the sender put into each of them
    wire,       \* bytes under way
    buffer,     \* TcpReceiveBuffer::data
    received,   \* TcpReceiveBuffer::received
    introduced, \* the sender is in m_clientNodeMapping
    tcp,        \* the TCP thread: "reading", "refusing" the connection, "left"
    delivered,  \* the packets the event loop has handled
    variables,  \* the receiver's variables of the monitor
    alg,        \* the receiver's LN and queue, of both tokens
    monitors,   \* its SystemToken::m_monitors
    posted,     \* requests appended
    done,       \* requests handled
    cluster     \* ~Cluster: "running" before it, "freed" behind it

senderVars == <<setup, sent, contents>>
tcpVars == <<wire, buffer, received, introduced, tcp>>
loopVars == <<delivered, variables, alg, monitors, done>>
vars == <<senderVars, tcpVars, queueVars, loopVars, posted, cluster>>

NewAlg == [ln |-> [n \in NodeIds |-> 0], queue |-> <<>>]

Init ==
    /\ setup \in Setups
    /\ sent = <<>>
    /\ contents = <<>>
    /\ wire = <<>>
    /\ buffer = NewBuffer
    /\ received = 0
    /\ introduced = FALSE
    /\ tcp = "reading"
    /\ QueueInit
    /\ delivered = <<>>
    /\ variables = [id \in DOMAIN setup.receiver |-> Zero(setup.receiver[id])]
    /\ alg = [t \in {Monitor, SystemToken} |-> NewAlg]
    /\ monitors = {}
    /\ posted = 0
    /\ done = 0
    /\ cluster = "running"

-----------------------------------------------------------------------------
(* The sender.                                                              *)

\* A packet, what is in it, and its bytes.
Parcel(packet, content) ==
    [packet |-> packet, content |-> content, bytes |-> Encode(packet)]

Marshalled(map, s, garbage) ==
    MarshallMap(map, SelectSeq(s.order, LAMBDA id : id \in DOMAIN map), garbage)

\* sendToken of the monitor: callSaveProperties adds the sender's variables.
MonitorToken(s, c, garbage) ==
    LET map == SavePrivate(c.ln, c.queue) @@ SaveProperties(s.sender, c.variables)
    IN  Parcel(GiveToken(Monitor, Marshalled(map, s, garbage)), c)

\* sendToken of the system token.
SystemTokenWith(s, c, garbage) ==
    LET map == SaveSystem(c.ln, c.queue, c.monitors)
    IN  Parcel(GiveToken(SystemToken, Marshalled(map, s, garbage)), c)

MonitorTokens ==
    [s \in Setups |-> {MonitorToken(s, c, garbage) : c \in Contents(s.sender),
                                                     garbage \in Garbage}]

SystemTokens ==
    [s \in Setups |-> {SystemTokenWith(s, c, garbage) : c \in Contents(s.sender),
                                                        garbage \in Garbage}]

Send(parcel) ==
    /\ Len(sent) < MaxSent
    /\ sent' = Append(sent, parcel.packet)
    /\ contents' = Append(contents, parcel.content)
    /\ wire' = wire \o parcel.bytes
    /\ UNCHANGED <<setup, buffer, received, introduced, tcp, queueVars, loopVars,
                   posted, cluster>>

\* tcpState or tcpNew, then handleConnect.
Introduce ==
    \/ Len(sent) = 0 /\ Send(Parcel(EdgeHandshake(1), <<>>))
    \/ Len(sent) = 1 /\ Send(Parcel(ClusterHandshake(1), <<>>))

SendToken == Len(sent) >= 2 /\ \E parcel \in MonitorTokens[setup] : Send(parcel)
SendSystemToken == Len(sent) >= 2 /\ \E parcel \in SystemTokens[setup] : Send(parcel)

\* requestToken and requestSignal.
SendRequest == Len(sent) >= 2 /\ Send(Parcel(RequestToken(Monitor, 258), <<>>))
SendSignal == Len(sent) >= 2 /\ Send(Parcel(Signal(Monitor, "condition"), <<>>))

-----------------------------------------------------------------------------
(* The receiver's TCP thread: readEvent.                                    *)

Smallest(a, b) == IF a < b THEN a ELSE b

\* How many bytes a read of wanted ones returns.
ReadSizes(wanted) == {Smallest(piece, Len(wire)) : piece \in Pieces(wanted)} \ {0}

\* tcpReceive.  A connection that sends nonsense, or a packet before its
\* EdgeHandshake, is ended; a second EdgeHandshake is dropped.
Receive(data) ==
    \E packet \in {Factory(HeaderType(data), data)} :
        LET edge == packet.value.type = "EdgeHandshake"
        IN  IF packet.bad \/ (~edge /\ ~introduced)
            THEN tcp' = "refusing" /\ UNCHANGED <<introduced, queueVars>>
            ELSE /\ tcp' = tcp
                 /\ introduced' = TRUE
                 /\ IF edge /\ introduced THEN UNCHANGED queueVars
                    ELSE QueueAppend([type |-> IF edge THEN "Connected" ELSE "Packet",
                                      packet |-> packet.value])

TooLarge == received >= HeaderSize /\ PayloadSize(buffer) > MaxPayloadSize

\* The rest of the header, or of the payload.
Wanted == IF received < HeaderSize THEN HeaderSize - received
          ELSE PayloadSize(buffer) - (received - HeaderSize)

\* One read into data + received.
ReadSome ==
    /\ tcp = "reading" /\ ~TooLarge
    /\ \E n \in ReadSizes(Wanted) :
          /\ buffer' = Stored(buffer, received, SubSeq(wire, 1, n))
          /\ wire' = SubSeq(wire, n + 1, Len(wire))

\* Mutant of Complete: the header does not count.
CompleteEarly(data, count) == count >= HeaderSize /\ count >= PayloadSize(data)

Complete(data, count) == count >= HeaderSize /\ count >= PayloadSize(data) + HeaderSize

ReadEvent ==
    /\ ReadSome
    /\ LET count == received + Len(wire) - Len(wire')
       IN  IF Complete(buffer', count)
           THEN received' = 0 /\ Receive(buffer')
           ELSE received' = count /\ UNCHANGED <<introduced, tcp, queueVars>>

\* EYAICINVPACKET.
Refuse ==
    /\ tcp = "reading" /\ TooLarge
    /\ tcp' = "refusing"
    /\ UNCHANGED <<wire, buffer, received, introduced, queueVars>>

\* The message of stopLoop is read from the pipe: runLoop returns.
TerminateLoop ==
    /\ cluster # "running"
    /\ tcp # "left"
    /\ tcp' = "left"
    /\ UNCHANGED <<wire, buffer, received, introduced, queueVars>>

TcpThread ==
    /\ ReadEvent \/ Refuse \/ TerminateLoop
    /\ UNCHANGED <<senderVars, loopVars, posted, cluster>>

-----------------------------------------------------------------------------
(* The receiver's application and its event loop.                           *)

\* sendLockRequest and its like.
Post ==
    /\ cluster = "running"
    /\ posted < MaxPosts
    /\ posted' = posted + 1
    /\ QueueAppend([type |-> "Request"])
    /\ UNCHANGED <<senderVars, tcpVars, loopVars, cluster>>

\* packetGiveToken, what it does with the properties.
LoadToken(p) ==
    \E map \in {UnmarshallMap(p.data).value} :
        /\ alg' = [alg EXCEPT ![p.token] = LoadPrivate(@, map)]
        /\ monitors' = IF p.token = SystemToken THEN LoadMonitors(monitors, map)
                       ELSE monitors
        /\ variables' = IF p.token = Monitor
                        THEN LoadProperties(setup.receiver, variables, map)
                        ELSE variables

\* ClusterLoop::handle of the event w has taken.
Handle(w) ==
    /\ Handled(w)
    /\ LET event == taken[w]
       IN  IF event.type = "Request"
           THEN done' = done + 1 /\ UNCHANGED <<delivered, variables, alg, monitors>>
           ELSE /\ delivered' = Append(delivered, event.packet)
                /\ done' = done
                /\ IF event.packet.type = "GiveToken" THEN LoadToken(event.packet)
                   ELSE UNCHANGED <<variables, alg, monitors>>

LoopThread(w) ==
    /\ \/ Handle(w)
       \/ Pop(w) /\ UNCHANGED loopVars
    /\ UNCHANGED <<senderVars, tcpVars, posted, cluster>>

-----------------------------------------------------------------------------
(* ~Cluster.                                                                *)

\* stopLoop, m_evq->stop, join of the TCP thread, waitForThreads; then the
\* members are destroyed.
StopLoop == cluster = "running" /\ cluster' = "terminating" /\ UNCHANGED queueVars

StopQueue == cluster = "terminating" /\ cluster' = "stopping" /\ Stop

JoinTcp ==
    cluster = "stopping" /\ tcp = "left" /\ cluster' = "joining" /\ UNCHANGED queueVars

\* Mutant of JoinWorkers: the destructor does not wait for the event loop.
JoinNobody == cluster = "joining" /\ cluster' = "freed" /\ Drained

JoinWorkers == cluster = "joining" /\ ThreadsEnded /\ cluster' = "freed" /\ Drained

Destructor ==
    /\ StopLoop \/ StopQueue \/ JoinTcp \/ JoinWorkers
    /\ UNCHANGED <<senderVars, tcpVars, loopVars, posted>>

Wake ==
    /\ \E w \in Worker : WakeSpuriously(w)
    /\ UNCHANGED <<senderVars, tcpVars, loopVars, posted, cluster>>

Next ==
    \/ Introduce \/ SendToken \/ SendSystemToken \/ SendRequest \/ SendSignal
    \/ TcpThread
    \/ Post
    \/ \E w \in Worker : LoopThread(w)
    \/ Wake
    \/ Destructor

Spec == Init /\ [][Next]_vars

\* Threads are scheduled: the TCP thread reads and leaves, the event loop pops
\* and returns from its handlers, and a destructor that has begun goes on.
\* Nobody has to send, to post or to begin it.
Fairness ==
    /\ WF_wire(ReadSome)
    /\ WF_tcp(TerminateLoop)
    /\ \A w \in Worker : WF_queueVars(Pop(w) \/ Handled(w))
    /\ WF_cluster(StopQueue \/ JoinTcp \/ JoinWorkers)

FairSpec == Spec /\ Fairness

-----------------------------------------------------------------------------
\* The last token of t that was handled, as an index of sent, or 0.
LastGiven(t) ==
    LET given == {i \in DOMAIN delivered : sent[i].type = "GiveToken" /\ sent[i].token = t}
    IN  IF given = {} THEN 0 ELSE CHOOSE i \in given : \A j \in given : j <= i

\* Both nodes bind these ids, with these types.
Shared(types) ==
    {id \in DOMAIN setup.sender \cap DOMAIN setup.receiver :
        setup.sender[id] = setup.receiver[id] /\ setup.sender[id] \in types}

Travelled(types) ==
    LastGiven(Monitor) # 0 =>
        \A id \in Shared(types) :
            variables[id] = contents[LastGiven(Monitor)].variables[id]

\* A variable that both nodes bind has the value of the last holder once the
\* token is handled (saveProperties, marshallMap, GiveToken, unmarshallMap,
\* loadProperties), whatever else travels with it, in whatever order, and
\* whatever was in the buffer before.  Doubles are the exception.
VariablesArrive ==
    Travelled((Primitives \cup Vectors \cup {"Vector<String>"}) \ Doubles)

\* The same of doubles.
DoublesArrive == Travelled(Doubles)

\* LN and the queue of both tokens, and the set of monitors, are those the
\* sender gave away: the bookkeeping of TokenPrivateData crosses the wire.
BookkeepingArrives ==
    \A t \in {Monitor, SystemToken} :
        LastGiven(t) # 0 =>
            LET c == contents[LastGiven(t)]
            IN  /\ alg[t].ln = c.ln /\ alg[t].queue = c.queue
                /\ t = SystemToken => monitors = Range(c.monitors)

\* The size checks of Packet::read compare with the whole buffer, in which an
\* earlier, longer packet may still be.  Even so a packet that is complete is
\* decoded from exactly its own bytes.
ReadsOwnBytes ==
    [][received # 0 /\ received' = 0 =>
          LET packet == Factory(HeaderType(buffer'), buffer')
          IN  ~packet.bad /\ packet.pos = HeaderSize + PayloadSize(buffer')]_received

\* What the handlers of the receiver see is what the sender sent, in its order:
\* pieces, the one buffer, the queue shared with other threads and the end of
\* the process change, repeat or swap nothing.
Delivery == INSTANCE OrderedDelivery
ImplementsDelivery == Delivery!Spec

\* Once ~Cluster has destroyed the members no thread of the library touches the
\* queue or the state behind it.
NothingAfterFree ==
    [][cluster # "freed"]_<<buffer, received, introduced, tcp, queueVars, loopVars>>

\* A packet that the buffer can hold; only tokens can be larger.
FitsBuffer(packet) ==
    packet.type = "GiveToken" =>
        HeaderSize + 8 + Len(Chars(packet.token)) + Len(packet.data) <= MaxSize

\* While the process runs every event is handled: every request, and every
\* packet unless it or one before it is larger than the buffer.  (As many are
\* sent and posted as the bounds allow, so that there is always a last one.)
EventsHandled ==
    []<>(cluster = "running" =>
            /\ done = posted
            /\ delivered = sent \/ ~FitsBuffer(sent[Len(delivered) + 1]))

\* ~Cluster returns, whatever the threads were doing when it began.
DestructorReturns == cluster = "terminating" ~> cluster = "freed"

=============================================================================
