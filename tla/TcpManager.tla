------------------------------- MODULE TcpManager -------------------------------
(***************************************************************************)
(* The connections of one process: class TcpManager with its thread, its   *)
(* Client objects, the select loop and the notification pipe               *)
(* (src/lib/tcp_manager.cpp), and what Cluster makes of its callbacks      *)
(* (src/lib/cluster.cpp).  The kernel and the other nodes are the          *)
(* environment.                                                            *)
(*                                                                         *)
(* A packet has two pieces, as readEvent sees it: a header and a payload.  *)
(* The packets sent to a client have numbers, and the pieces of packet n   *)
(* are 2n - 1 and 2n.                                                      *)
(***************************************************************************)
EXTENDS Naturals, Sequences, FiniteSets

CONSTANTS
    Nodes,        \* their number; a process connects to the nodes before its own
    Attempts,     \* connects for one node, 100 in the code
    Rounds,       \* m_rrRounds
    PipeSize,     \* messages that fit into the pipe
    OutSize,      \* pieces that fit into a socket's send buffer
    EventLimit,   \* descriptors that epoll hands out at a time, 32 in the code
    MaxPosts,     \* bound: packets sent to a client after the handshake
    MaxTheirs,    \* bound: packets received from a client
    Kind          \* what other nodes send after the handshake

ASSUME AttemptsAssumption == Attempts \in Nat \ {0} /\ Nodes \in Nat \ {0}
ASSUME SizeAssumption == PipeSize \in Nat \ {0} /\ OutSize \in Nat \ {0} /\ Rounds \in Nat
ASSUME LimitAssumption == EventLimit \in Nat \ {0}
ASSUME BoundAssumption == MaxPosts \in Nat /\ MaxTheirs \in Nat
ASSUME KindAssumption == Kind \subseteq {"data", "oversize", "undecodable"}

Peer == 0 .. Nodes - 2

\* m_nextClientId: every attempt and every accepted connection makes a Client.
Client == 1 .. ((Nodes - 1) * Attempts)

None == Nodes

VARIABLES
    clients,   \* the Client objects
    sockets,   \* their sockets and entries in the selector
    known,     \* m_clients: ids of the clients the loop knows
    made,      \* ids given out so far
    planned,   \* m_plannedConnections
    attempts,  \* info->attempts of each peer
    told,      \* the last state a connect call was told
    backlog,   \* connections waiting for accept
    incoming,  \* connections still to be made by the nodes after this one
    pipe,      \* messages in m_pipe
    sender,    \* the client to which the event loop's thread is sending
    batch,     \* events that select->wait returned and that are still to be handled
    doing,     \* what the TCP thread does
    erase,     \* eraseList
    events,    \* what was appended to the event queue for each client
    alive      \* the process runs

managerVars == <<known, made, planned, attempts, told>>
kernelVars == <<backlog, incoming>>
vars == <<clients, sockets, managerVars, kernelVars, pipe, sender, batch, doing, erase,
          events, alive>>

\* --- Client objects ---------------------------------------------------------
\* "buffer" and "sent" are m_sendBuffer and the pieces of it that are written; "info" says
\* whether m_connectionsInProgress has the client; "posted" counts its packets.
NewClient(peer, state) ==
    [peer |-> peer, state |-> state, info |-> peer # None, readError |-> FALSE,
     writeError |-> FALSE, dead |-> FALSE, queue |-> <<>>, buffer |-> 0, sent |-> 0, posted |-> 0]

\* "theirs" are the packets of the other node, "arrived" and "taken" count the pieces of
\* them in our kernel and read by us; "out" is the socket's send buffer, "wire"
\* what left it.
NewSocket(link, interest) ==
    [link |-> link, interest |-> interest, closed |-> FALSE, theirs |-> <<>>, arrived |-> 0,
     taken |-> 0, out |-> <<>>, wire |-> <<>>]

\* Client::attachSendBuffer
Attached(k) ==
    [k EXCEPT !.posted = @ + 1, !.queue = Append(@, k.posted + 1)]

\* Mutant: a buffer that is written in part is given up for the next one.
SendBufferNext(k) ==
    IF k.writeError THEN k
    ELSE IF k.queue # <<>> THEN [k EXCEPT !.buffer = Head(k.queue), !.sent = 0, !.queue = Tail(@)]
    ELSE IF k.buffer # 0 /\ k.sent < 2 THEN k
    ELSE [k EXCEPT !.buffer = 0, !.sent = 0]

\* Client::sendBuffer: what it leaves of the client...
SendBuffer(k) ==
    IF k.writeError \/ (k.buffer # 0 /\ k.sent < 2) THEN k
    ELSE IF k.queue # <<>>
    THEN [k EXCEPT !.buffer = Head(k.queue), !.sent = 0, !.queue = Tail(@)]
    ELSE [k EXCEPT !.buffer = 0, !.sent = 0]

\* ... and whether it returned one.
HasBuffer(k) == ~ SendBuffer(k).writeError /\ SendBuffer(k).buffer # 0

\* Messages of the pipe and events of the selector.
ConnectMsg(p) == [type |-> "Connect", peer |-> p]
SentMsg(c) == [type |-> "SendBufferReceived", client |-> c]
DisconnectMsg(c) == [type |-> "Disconnect", client |-> c]

PipeEvent == [type |-> "Pipe"]
TimerEvent == [type |-> "Timer"]
ListenEvent == [type |-> "Listen"]
ReadEv(c) == [type |-> "Read", client |-> c]
WriteEv(c) == [type |-> "Write", client |-> c]

\* What Cluster appends to the event queue.
ConnectedEvent == [type |-> "Connected"]
PacketEvent(n) == [type |-> "Packet", number |-> n]
DisconnectedEvent == [type |-> "Disconnected"]

Idle == [at |-> "idle"]
Reading(c, round) == [at |-> "read", client |-> c, round |-> round]
Writing(c, round) == [at |-> "write", client |-> c, round |-> round]
Checking(c, round) == [at |-> "check", client |-> c, round |-> round]
Stopping(c, error) == [at |-> "stop", client |-> c, error |-> error]
Connecting(peers) == [at |-> "connect", peers |-> peers]

Event == {PipeEvent, TimerEvent, ListenEvent} \cup [type : {"Read", "Write"}, client : Client]

Msg == [type : {"Connect"}, peer : Peer]
    \cup [type : {"SendBufferReceived", "Disconnect"}, client : Client]

\* "finished": their end is closed; "reset": an RST came while both were open; "pipe": it
\* came after their end was closed, or its error was read already; "gone": we closed it.
Link == {"connecting", "refused", "open", "finished", "reset", "pipe", "gone"}

TypeOK ==
    /\ DOMAIN clients = 1 .. made /\ DOMAIN sockets = 1 .. made
    /\ \A c \in 1 .. made :
          /\ clients[c] \in [peer : Peer \cup {None}, state : {"Connected", "Disconnected"}, info : BOOLEAN,
                 readError : BOOLEAN, writeError : BOOLEAN, dead : BOOLEAN, queue : Seq(Nat),
                 buffer : Nat, sent : 0 .. 2, posted : 0 .. MaxPosts + 1]
          /\ sockets[c] \in [link : Link, interest : SUBSET {"Read", "Write"}, closed : BOOLEAN,
                 theirs : Seq(Kind \cup {"handshake"}), arrived : 0 .. 2 * MaxTheirs,
                 taken : 0 .. 2 * MaxTheirs, out : Seq(Nat), wire : Seq(Nat)]
    /\ made \in 0 .. Cardinality(Client)
    /\ known \subseteq 1 .. made
    /\ planned \in Seq(Peer)
    /\ \E n \in 0 .. Nodes - 1 :
          /\ attempts \in [0 .. n - 1 -> 0 .. Attempts]
          /\ told \in [0 .. n - 1 -> {"Nothing", "Connected", "FailedToEstablish"}]
          /\ backlog + incoming \in 0 .. Nodes - 1 - n
    /\ pipe \in Seq(Msg)
    /\ sender \in Client \cup {0}
    /\ batch \subseteq Event
    /\ erase \in Seq(Client)
    /\ \A c \in Client : events[c] \in Seq({ConnectedEvent, DisconnectedEvent}
                                            \cup [type : {"Packet"}, number : 1 .. MaxTheirs])
    /\ alive \in BOOLEAN

\* Cluster::initTcp: the connect calls are made before the TCP thread starts.
Init ==
    /\ clients = <<>> /\ sockets = <<>>
    /\ known = {} /\ made = 0
    /\ planned = <<>>
    /\ backlog = 0
    /\ \E n \in 0 .. Nodes - 1 :
          /\ attempts = [p \in 0 .. n - 1 |-> Attempts]
          /\ told = [p \in 0 .. n - 1 |-> "Nothing"]
          /\ pipe = [i \in 1 .. n |-> ConnectMsg(i - 1)]
          /\ incoming = Nodes - 1 - n
    /\ sender = 0
    /\ batch = {} /\ doing = Idle /\ erase = <<>>
    /\ events = [c \in Client |-> <<>>]
    /\ alive = TRUE

-----------------------------------------------------------------------------
(* Small parts of the handlers.                                             *)

Busy(at) == alive /\ doing.at = at
Handling(event) == Busy("idle") /\ event \in batch /\ batch' = batch \ {event}

HasRoom == Len(pipe) < PipeSize

\* Mutant: a client that is already in eraseList is put there again.
ErasedTwice(c) == Append(erase, c)

\* "if (!client->isDead()) { eraseList.push_back(client); client->setDead(true); }"
Erased(c) == IF clients[c].dead THEN erase ELSE Append(erase, c)

Introduced(c) == events[c] # <<>>
Appended(c, event) == [events EXCEPT ![c] = Append(@, event)]

\* Mutant: the selector is not asked when the connection can be written to.
CreateConnectionReading(p) ==
    \/ UNCHANGED <<clients, sockets, made, known>>
    \/ /\ made' = made + 1
       /\ known' = known \cup {made + 1}
       /\ clients' = Append(clients, NewClient(p, "Disconnected"))
       /\ sockets' = Append(sockets, NewSocket("connecting", {"Read"}))

\* createConnection: connect fails at once, or a client waits for the connection.
CreateConnection(p) ==
    \/ UNCHANGED <<clients, sockets, made, known>>
    \/ /\ made' = made + 1
       /\ known' = known \cup {made + 1}
       /\ clients' = Append(clients, NewClient(p, "Disconnected"))
       /\ sockets' = Append(sockets, NewSocket("connecting", {"Read", "Write"}))

\* stopReading of client k (as it is by now) at the point where its socket is s.
StopReading(c, k, s) ==
    LET stopped == SendBuffer([k EXCEPT !.readError = TRUE])
    IN  IF HasBuffer(stopped)
        THEN /\ clients' = [clients EXCEPT ![c] = stopped]
             /\ sockets' = [sockets EXCEPT ![c] = [s EXCEPT !.interest = {"Write"}]]
             /\ UNCHANGED erase
        ELSE /\ clients' = [clients EXCEPT ![c] = [stopped EXCEPT !.dead = TRUE]]
             /\ sockets' = [sockets EXCEPT ![c] = s]
             /\ erase' = Erased(c)

-----------------------------------------------------------------------------
(* The TCP thread: runLoop.                                                 *)

Unread(s) == s.arrived - s.taken
HungUp(s) == s.link \in {"refused", "finished", "reset", "pipe"}
Writable(s) ==
    \/ s.link \in {"refused", "reset", "pipe"}
    \/ s.link \in {"open", "finished"} /\ Len(s.out) < OutSize

Ready ==
    (IF pipe # <<>> THEN {PipeEvent} ELSE {})
    \cup (IF backlog > 0 THEN {ListenEvent} ELSE {})
    \cup {ReadEv(c) : c \in {c \in known : HungUp(sockets[c])
                                \/ ("Read" \in sockets[c].interest /\ Unread(sockets[c]) > 0)}}
    \cup {WriteEv(c) : c \in {c \in known : "Write" \in sockets[c].interest
                                            /\ Writable(sockets[c])}}

\* epoll_wait hands out so many descriptors, with all that is due on each.
Descriptor(event) == IF event.type = "Write" THEN ReadEv(event.client) ELSE event

HandedOut(due) ==
    LET waiting == {Descriptor(event) : event \in due}
        number == IF Cardinality(waiting) < EventLimit THEN Cardinality(waiting) ELSE EventLimit
    IN  {{event \in due : Descriptor(event) \in some} :
            some \in {S \in SUBSET waiting : Cardinality(S) = number}}

\* select->wait; the timer (every five seconds) matters only if something is planned.
Wait ==
    /\ Busy("idle") /\ batch = {} /\ erase = <<>>
    /\ \E due \in {Ready} \cup (IF planned # <<>> THEN {Ready \cup {TimerEvent}} ELSE {}) :
          batch' \in HandedOut(due)
    /\ batch' # {}
    /\ sockets' = [c \in DOMAIN sockets |-> [sockets[c] EXCEPT
           !.closed = @ \/ (HungUp(sockets[c]) /\ ReadEv(c) \in batch')]]
    /\ UNCHANGED <<clients, managerVars, kernelVars, pipe, sender, doing, erase, events, alive>>

\* pipeNotification reads one message.
PipeConnect(p) ==
    /\ Handling(PipeEvent)
    /\ pipe # <<>> /\ Head(pipe) = ConnectMsg(p) /\ pipe' = Tail(pipe)
    /\ CreateConnection(p)
    /\ UNCHANGED <<planned, attempts, told, kernelVars, sender, doing, erase, events, alive>>

\* Mutant: the selector is not told that there is something to write.
RearmedReading(k) == IF k.readError THEN {} ELSE {"Read"}

\* What the selector is asked for after a message about client k.
Rearmed(k) ==
    (IF k.readError THEN {} ELSE {"Read"}) \cup (IF k.writeError THEN {} ELSE {"Write"})

PipeClient(c) ==
    /\ Handling(PipeEvent)
    /\ pipe # <<>> /\ Head(pipe).type # "Connect" /\ Head(pipe).client = c /\ pipe' = Tail(pipe)
    /\ IF c \notin known
       THEN UNCHANGED <<clients, sockets, erase>>
       ELSE LET disconnect == Head(pipe).type = "Disconnect"
            IN  /\ clients' = [clients EXCEPT ![c].dead = @ \/ disconnect]
                /\ erase' = IF disconnect THEN Erased(c) ELSE erase
                /\ sockets' = [sockets EXCEPT ![c].interest =
                       IF Rearmed(clients[c]) = {} THEN @ ELSE Rearmed(clients[c])]
    /\ UNCHANGED <<managerVars, kernelVars, sender, doing, events, alive>>

\* newConnection and Cluster::tcpNew, which sends the handshake.  accept may fail, or
\* makeNonBlocking after it: the connection is lost.
NewConnection ==
    /\ Handling(ListenEvent)
    /\ backlog' = backlog - 1
    /\ \/ UNCHANGED <<clients, sockets, made, known, pipe>>
       \/ /\ HasRoom /\ pipe' = Append(pipe, SentMsg(made + 1))
          /\ made' = made + 1
          /\ known' = known \cup {made + 1}
          /\ clients' = Append(clients, Attached(NewClient(None, "Connected")))
          /\ sockets' = Append(sockets, NewSocket("open", {"Read"}))
    /\ UNCHANGED <<planned, attempts, told, incoming, sender, doing, erase, events, alive>>

\* Mutant: the list is not cleared.
TimerKeeping ==
    /\ Handling(TimerEvent)
    /\ doing' = Connecting(planned)
    /\ UNCHANGED <<planned, clients, sockets, known, made, attempts, told, kernelVars, pipe, sender,
                   erase, events, alive>>

\* The timer: every planned connection is created, and the list cleared.
Timer ==
    /\ Handling(TimerEvent)
    /\ doing' = Connecting(planned)
    /\ planned' = <<>>
    /\ UNCHANGED <<clients, sockets, known, made, attempts, told, kernelVars, pipe, sender, erase,
                   events, alive>>

ConnectPlanned ==
    /\ Busy("connect")
    /\ CreateConnection(Head(doing.peers))
    /\ doing' = IF Len(doing.peers) = 1 THEN Idle ELSE Connecting(Tail(doing.peers))
    /\ UNCHANGED <<planned, attempts, told, kernelVars, pipe, sender, batch, erase, events, alive>>

\* connectEvent succeeds, and Cluster::tcpState sends the handshake.
ConnectDone(c) ==
    /\ sockets[c].link \notin {"refused", "reset"}
    /\ HasRoom /\ pipe' = Append(pipe, SentMsg(c))
    /\ clients' = [clients EXCEPT ![c] = Attached([@ EXCEPT !.info = FALSE, !.state = "Connected"])]
    /\ told' = [told EXCEPT ![clients[c].peer] = "Connected"]
    /\ UNCHANGED <<planned, attempts, erase>>

\* Mutant: one attempt too many.
ConnectFailedLate(c) ==
    LET p == clients[c].peer
    IN  /\ sockets[c].link \in {"refused", "reset"}
        /\ attempts' = [attempts EXCEPT ![p] = @ - 1]
        /\ IF attempts[p] > 0
           THEN planned' = Append(planned, p) /\ UNCHANGED told
           ELSE told' = [told EXCEPT ![p] = "FailedToEstablish"] /\ UNCHANGED planned
        /\ clients' = [clients EXCEPT ![c].info = FALSE, ![c].dead = TRUE]
        /\ erase' = Erased(c)
        /\ UNCHANGED pipe

\* connectEvent fails: another attempt is planned, or the last one is reported.
ConnectFailed(c) ==
    LET p == clients[c].peer
    IN  /\ sockets[c].link \in {"refused", "reset"}
        /\ attempts' = [attempts EXCEPT ![p] = @ - 1]
        /\ IF attempts[p] > 1
           THEN planned' = Append(planned, p) /\ UNCHANGED told
           ELSE told' = [told EXCEPT ![p] = "FailedToEstablish"] /\ UNCHANGED planned
        /\ clients' = [clients EXCEPT ![c] = [@ EXCEPT !.info = FALSE, !.dead = TRUE]]
        /\ erase' = Erased(c)
        /\ UNCHANGED pipe

\* What follows the event of a connected client.
Handler(c, type) ==
    IF type = "Write" THEN Writing(c, 0)
    ELSE IF clients[c].readError THEN Idle ELSE Reading(c, 0)

\* An event of a client; one that is still connecting goes through connectEvent first.
\* The selector reports Write before Read.
ClientEvent(c, type) ==
    /\ Handling([type |-> type, client |-> c])
    /\ type = "Read" => WriteEv(c) \notin batch
    /\ IF clients[c].state # "Disconnected"
       THEN doing' = Handler(c, type) /\ UNCHANGED <<clients, planned, attempts, told, pipe, erase>>
       ELSE IF clients[c].dead \/ ~ clients[c].info
       THEN UNCHANGED <<clients, planned, attempts, told, pipe, doing, erase>>
       ELSE \/ ConnectDone(c) /\ doing' = Handler(c, type)
            \/ ConnectFailed(c) /\ UNCHANGED doing
    /\ UNCHANGED <<sockets, known, made, kernelVars, sender, events, alive>>

\* writeEvent, as far as the write.  A write after an RST that followed a FIN, or after a
\* read took the RST's error, raises SIGPIPE, which nothing in the program ignores.
Write(c, round) ==
    LET k == SendBuffer(clients[c])
        s == sockets[c]
        room == OutSize - Len(s.out)
        n == IF 2 - k.sent < room THEN 2 - k.sent ELSE room
    IN  /\ doing = Writing(c, round) /\ alive
        /\ IF ~ HasBuffer(k)
           THEN /\ clients' = [clients EXCEPT ![c] = k]
                /\ doing' = Stopping(c, k.writeError)
                /\ UNCHANGED <<sockets, alive>>
           ELSE IF s.link = "pipe"
           THEN alive' = FALSE /\ UNCHANGED <<clients, sockets, doing>>
           ELSE IF s.link = "reset"
           THEN /\ clients' = [clients EXCEPT ![c] = k]
                /\ doing' = Stopping(c, TRUE)
                /\ UNCHANGED <<sockets, alive>>
           ELSE /\ clients' = [clients EXCEPT ![c] = [k EXCEPT !.sent = @ + n]]
                /\ sockets' = [sockets EXCEPT ![c].out =
                       @ \o [i \in 1 .. n |-> 2 * (k.buffer - 1) + k.sent + i]]
                /\ doing' = Checking(c, round)
                /\ UNCHANGED alive
        /\ UNCHANGED <<managerVars, kernelVars, pipe, sender, batch, erase, events>>

\* The rest of writeEvent: is anything left?
Check(c, round) ==
    LET k == SendBuffer(clients[c])
    IN  /\ doing = Checking(c, round) /\ alive
        /\ clients' = [clients EXCEPT ![c] = k]
        /\ doing' = IF ~ HasBuffer(k) THEN Stopping(c, k.writeError)
                    ELSE IF round < Rounds THEN Writing(c, round + 1) ELSE Idle
        /\ UNCHANGED <<sockets, managerVars, kernelVars, pipe, sender, batch, erase, events, alive>>

\* Mutant: a client that cannot be read any more is kept when all is written.
StopWritingKeeping(c) ==
    /\ Busy("stop") /\ doing.client = c
    /\ doing' = Idle
    /\ clients' = [clients EXCEPT ![c].writeError = doing.error]
    /\ sockets' = [sockets EXCEPT ![c].interest = {"Read"}]
    /\ UNCHANGED <<managerVars, kernelVars, pipe, sender, batch, erase, events, alive>>

\* stopWriting; a buffer may have been attached since sendBuffer returned none.
StopWriting(c) ==
    LET k == clients[c]
    IN  /\ Busy("stop") /\ doing.client = c
        /\ doing' = Idle
        /\ clients' = [clients EXCEPT ![c] =
               [k EXCEPT !.writeError = doing.error, !.dead = k.dead \/ k.readError]]
        /\ erase' = IF k.readError THEN Erased(c) ELSE erase
        /\ sockets' = [sockets EXCEPT ![c].interest = IF k.readError THEN @ ELSE {"Read"}]
        /\ UNCHANGED <<managerVars, kernelVars, pipe, sender, batch, events, alive>>

-----------------------------------------------------------------------------
(* readEvent and Cluster::tcpReceive.                                       *)

\* Mutant: every packet is handed on, introduced or not.
ReceiveAny(c, n, kind) ==
    IF kind = "undecodable"
    THEN HasRoom /\ pipe' = Append(pipe, DisconnectMsg(c)) /\ UNCHANGED events
    ELSE events' = Appended(c, PacketEvent(n)) /\ UNCHANGED pipe

\* Cluster::tcpReceive of packet n: a handshake introduces the node, once; what cannot be
\* decoded, or comes from a node that did not introduce itself, ends the connection.
Receive(c, n, kind) ==
    IF kind = "handshake"
    THEN /\ events' = IF Introduced(c) THEN events ELSE Appended(c, ConnectedEvent)
         /\ UNCHANGED pipe
    ELSE IF kind = "undecodable" \/ ~ Introduced(c)
    THEN HasRoom /\ pipe' = Append(pipe, DisconnectMsg(c)) /\ UNCHANGED events
    ELSE events' = Appended(c, PacketEvent(n)) /\ UNCHANGED pipe

\* Nothing more will come: end of file or an error.
AtEnd(c) == sockets[c].closed \/ sockets[c].link \in {"reset", "pipe"}

\* The socket after the last read: the read that fails takes the error of an RST, unless
\* it got a part of a piece and the event said that the connection is closed.
Ended(s) ==
    {[s EXCEPT !.taken = s.arrived, !.link = link] :
        link \in IF s.link # "reset" THEN {s.link}
                 ELSE IF s.closed THEN {"reset", "pipe"} ELSE {"pipe"}}

\* One round of readEvent.
Read(c, round) ==
    LET s == sockets[c]
        k == clients[c]
        n == s.taken \div 2 + 1
        missing == 2 - (s.taken % 2)
        rest(taken) == [s EXCEPT !.taken = taken]
    IN  /\ doing = Reading(c, round) /\ alive
        /\ \/ /\ Unread(s) > 0 /\ s.theirs[n] = "oversize"
              /\ StopReading(c, k, rest(s.taken + 1))
              /\ doing' = Idle
              /\ UNCHANGED <<pipe, events>>
           \/ /\ Unread(s) >= missing /\ s.theirs[n] # "oversize"
              /\ Receive(c, n, s.theirs[n])
              /\ sockets' = [sockets EXCEPT ![c] = rest(2 * n)]
              /\ doing' = IF round < Rounds THEN Reading(c, round + 1) ELSE Idle
              /\ UNCHANGED <<clients, erase>>
           \/ /\ Unread(s) < missing /\ (Unread(s) > 0 => s.theirs[n] # "oversize")
              /\ IF AtEnd(c)
                 THEN \E ended \in Ended(s) : StopReading(c, k, ended)
                 ELSE /\ sockets' = [sockets EXCEPT ![c] = rest(s.arrived)]
                      /\ UNCHANGED <<clients, erase>>
              /\ doing' = Idle
              /\ UNCHANGED <<pipe, events>>
        /\ UNCHANGED <<managerVars, kernelVars, sender, batch, alive>>

\* The end of an iteration: the clients of eraseList are closed and forgotten, and
\* Cluster::tcpState reports a node that had introduced itself.
Erase ==
    LET c == Head(erase)
    IN  /\ Busy("idle") /\ batch = {} /\ erase # <<>>
        /\ erase' = Tail(erase)
        /\ known' = known \ {c}
        /\ sockets' = [sockets EXCEPT ![c] = [NewSocket("gone", {}) EXCEPT !.theirs = sockets[c].theirs]]
        /\ events' = IF Introduced(c) THEN Appended(c, DisconnectedEvent) ELSE events
        /\ UNCHANGED <<clients, planned, made, attempts, told, kernelVars, pipe, sender, batch,
                       doing, alive>>

TcpThread ==
    \/ Wait \/ NewConnection \/ Timer \/ ConnectPlanned \/ Erase
    \/ \E p \in DOMAIN attempts : PipeConnect(p)
    \/ \E c \in 1 .. made :
          \/ PipeClient(c) \/ StopWriting(c)
          \/ ClientEvent(c, "Write") \/ ClientEvent(c, "Read")
          \/ \E round \in 0 .. Rounds : Write(c, round) \/ Check(c, round) \/ Read(c, round)

-----------------------------------------------------------------------------
(* The thread of the event loop, and other callers.                         *)

\* sendTo attaches the buffer...
Attach(c) ==
    /\ alive /\ sender = 0
    /\ Introduced(c) /\ clients[c].posted <= MaxPosts
    /\ sender' = c
    /\ clients' = [clients EXCEPT ![c] = Attached(@)]
    /\ UNCHANGED <<sockets, managerVars, kernelVars, pipe, batch, doing, erase, events, alive>>

\* Mutant: it does not tell.
NotifyNobody ==
    /\ alive /\ sender # 0
    /\ sender' = 0
    /\ UNCHANGED <<clients, sockets, managerVars, kernelVars, pipe, batch, doing, erase, events,
                   alive>>

\* ... and tells the TCP thread.
Notify ==
    /\ alive /\ sender # 0
    /\ HasRoom /\ pipe' = Append(pipe, SentMsg(sender))
    /\ sender' = 0
    /\ UNCHANGED <<clients, sockets, managerVars, kernelVars, batch, doing, erase, events, alive>>

-----------------------------------------------------------------------------
(* The kernel and the other nodes.                                          *)

Changes(c, s) ==
    /\ alive
    /\ sockets' = [sockets EXCEPT ![c] = s]
    /\ UNCHANGED <<clients, managerVars, kernelVars, pipe, sender, batch, doing, erase, events,
                   alive>>

\* A connect is answered.
Establish(c) ==
    /\ sockets[c].link = "connecting"
    /\ \E link \in {"open", "refused"} : Changes(c, [sockets[c] EXCEPT !.link = link])

\* Another node connects.
Incoming ==
    /\ alive /\ incoming > 0
    /\ incoming' = incoming - 1 /\ backlog' = backlog + 1
    /\ UNCHANGED <<clients, sockets, managerVars, pipe, sender, batch, doing, erase, events, alive>>

\* A piece arrives; the other node introduces itself first.
Arrive(c) ==
    LET s == sockets[c]
    IN  /\ s.link = "open" /\ s.arrived < 2 * MaxTheirs
        /\ IF s.arrived % 2 = 1
           THEN Changes(c, [s EXCEPT !.arrived = @ + 1])
           ELSE \E kind \in IF s.arrived = 0 THEN {"handshake"} ELSE Kind :
                   Changes(c, [s EXCEPT !.arrived = @ + 1, !.theirs = Append(@, kind)])

\* A piece leaves our kernel; a process that has ended answers with an RST.
Transmit(c) ==
    LET s == sockets[c]
    IN  /\ s.out # <<>>
        /\ \/ /\ s.link \in {"open", "finished"}
              /\ Changes(c, [s EXCEPT !.out = Tail(@), !.wire = Append(@, Head(s.out))])
           \/ /\ s.link = "finished"
              /\ Changes(c, [s EXCEPT !.out = <<>>, !.link = "pipe"])

\* The other process ends, or the connection breaks; a packet may be cut in two.
Finish(c) ==
    /\ sockets[c].link = "open"
    /\ Changes(c, [sockets[c] EXCEPT !.link = "finished"])

Reset(c) ==
    LET s == sockets[c]
    IN  /\ s.link = "open"
        /\ \E arrived \in {s.taken, s.arrived} :
              Changes(c, [s EXCEPT !.link = "reset", !.out = <<>>, !.arrived = arrived])

Kernel(c) == Establish(c) \/ Arrive(c) \/ Transmit(c) \/ Finish(c) \/ Reset(c)

Next ==
    \/ TcpThread
    \/ Notify
    \/ Incoming
    \/ \E c \in 1 .. made : Attach(c) \/ Kernel(c)

Spec == Init /\ [][Next]_vars

\* The threads run, the kernel answers connects and sends what it has, and the timer comes.
Fairness ==
    /\ WF_vars(TcpThread)
    /\ WF_vars(Notify)
    /\ SF_vars(Wait /\ TimerEvent \in batch')
    /\ \A c \in Client : WF_vars(c <= made /\ Establish(c)) /\ WF_vars(c <= made /\ Transmit(c))

FairSpec == Spec /\ Fairness

-----------------------------------------------------------------------------
(* Safety.                                                                  *)

Made == 1 .. made

\* What leaves through a socket is the packets sent to the client, in order, whole and
\* once, although writes are partial and two threads share the queue.
WireInOrder ==
    \A c \in Made : LET pieces == sockets[c].wire \o sockets[c].out
                     IN  \A i \in DOMAIN pieces : pieces[i] = i

\* The events of a connection: the node is introduced first, then come its packets in
\* the order it sent them, without a gap except for those that cannot be decoded,
\* and its disconnection last, once, and exactly when the client is forgotten.
EventsInOrder ==
    \A c \in Made : LET es == events[c] IN
        /\ \A i \in DOMAIN es :
              /\ es[i] = ConnectedEvent <=> i = 1
              /\ es[i] = DisconnectedEvent => i = Len(es)
              /\ es[i].type = "Packet" =>
                    LET before == IF i = 2 THEN 1 ELSE es[i - 1].number
                    IN  /\ before < es[i].number
                        /\ \A n \in before + 1 .. es[i].number - 1 :
                              sockets[c].theirs[n] = "undecodable"
        /\ es # <<>> => (es[Len(es)] = DisconnectedEvent <=> c \notin known)

\* The select loop holds raw pointers to clients: those in eraseList and in the events
\* still to be handled are alive, and nobody is closed twice.
PointersValid ==
    /\ \A i, j \in DOMAIN erase : erase[i] = erase[j] => i = j
    /\ \A i \in DOMAIN erase : erase[i] \in known /\ clients[erase[i]].dead
    /\ \A c \in known : clients[c].dead => c \in {erase[i] : i \in DOMAIN erase}
    /\ \A c \in Client : {ReadEv(c), WriteEv(c)} \cap batch # {} => c \in known

Pending(k) == k.queue # <<>> \/ (k.buffer # 0 /\ k.sent < 2)

Working(c) ==
    /\ c \in known
    /\ clients[c].state # "Disconnected"
    /\ ~ clients[c].dead /\ ~ clients[c].writeError

\* A buffer that waits to be written has either the selector's attention or a message
\* that will bring it back, also if it was attached while writeEvent gave up.
Armed ==
    \A c \in Made : Working(c) /\ Pending(clients[c]) =>
        \/ "Write" \in sockets[c].interest /\ ~ (doing.at = "stop" /\ doing.client = c)
        \/ doing.at = "stop" /\ doing.client = c /\ doing.error
        \/ sender = c \/ SentMsg(c) \in {pipe[i] : i \in DOMAIN pipe}

Planned == IF doing.at = "connect" THEN doing.peers ELSE <<>>

\* Who holds the TcpManagerConnectInfo of the connect call for p: the pipe, the planned
\* ones, a loop over them, or a client that connects.
Owners(p) ==
    {<<"pipe", i>> : i \in {i \in DOMAIN pipe : pipe[i] = ConnectMsg(p)}}
    \cup {<<"planned", i>> : i \in {i \in DOMAIN planned : planned[i] = p}}
    \cup {<<"loop", i>> : i \in {i \in DOMAIN Planned : Planned[i] = p}}
    \cup {<<"client", c>> : c \in {c \in known : clients[c].peer = p /\ clients[c].info}}

\* The info of a connect call has one owner at a time: it is neither connected twice nor
\* freed while in use, and it has none once the call was told its outcome.
ConnectOwned ==
    \A p \in DOMAIN told :
        Cardinality(Owners(p)) <= IF told[p] = "Nothing" THEN 1 ELSE 0

-----------------------------------------------------------------------------
(* Liveness.                                                                *)

\* Everything sent to a client leaves the process, as long as the connection holds.
AllSent ==
    \A c \in Client :
        c \in known ~> \/ ~ alive \/ ~ Working(c) \/ sockets[c].link # "open"
                     \/ Len(sockets[c].wire) = 2 * clients[c].posted

\* A client whose connection is broken is closed, forgotten and reported.
BrokenReported ==
    \A c \in Client :
        c \in known /\ HungUp(sockets[c]) ~> c \notin known \/ ~ alive

\* A connect call comes to an end, in whichever way: connected, reported as failed after
\* its last attempt, or dropped without a word because a connect failed at once.  Its
\* info is deleted, and neither an attempt nor the timer holds it for ever.
ConnectEnds == \A p \in Peer : <>((p \in DOMAIN told => Owners(p) = {}) \/ ~ alive)

=============================================================================
