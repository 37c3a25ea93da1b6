--------------------------- MODULE TcpManagerProofs ---------------------------
(***************************************************************************)
(* Proofs about TcpManager, for any number of nodes, attempts and rounds   *)
(* and any sizes of the pipe and of the send buffers: its types, that no   *)
(* pointer dangles, that what waits to be written has somebody's attention,*)
(* that the pieces leave and the events come in order, and that the info   *)
(* of a connect call has one owner.                                        *)
(***************************************************************************)
EXTENDS TcpManager, FiniteSetTheorems, SequenceTheorems, TLAPS

-----------------------------------------------------------------------------
(* The inductive invariant.                                                 *)

Has(s, x) == \E i \in DOMAIN s : s[i] = x
Single(s, x) == \A i, j \in DOMAIN s : s[i] = x /\ s[j] = x => i = j

ClientRecord ==
    [peer : Peer \cup {None}, state : {"Connected", "Disconnected"}, info : BOOLEAN,
     readError : BOOLEAN, writeError : BOOLEAN, dead : BOOLEAN, queue : Seq(Nat),
     buffer : Nat, sent : {0, 1, 2}, posted : Nat]

SocketRecord ==
    [link : Link, interest : SUBSET {"Read", "Write"}, closed : BOOLEAN,
     theirs : Seq(Kind \cup {"handshake"}), arrived : Nat, taken : Nat,
     out : Seq(Nat), wire : Seq(Nat)]

QueuedEvent == {ConnectedEvent, DisconnectedEvent} \cup [type : {"Packet"}, number : 1 .. MaxTheirs]

\* The peers the process connects to.
Called == DOMAIN attempts

MadeMsg == [type : {"Connect"}, peer : Called]
    \cup [type : {"SendBufferReceived", "Disconnect"}, client : Made]

Rearming == [type : {"Read", "Write"}, client : known]

\* What the TCP thread does, it does to clients that the loop knows.
Doing ==
    \/ doing = Idle
    \/ \E c \in known : \E r \in 0 .. Rounds : doing \in {Reading(c, r), Writing(c, r), Checking(c, r)}
    \/ \E c \in known, error \in BOOLEAN : doing = Stopping(c, error)
    \/ /\ doing.at = "connect" /\ doing = Connecting(doing.peers)
       /\ doing.peers \in Seq(Called) /\ doing.peers # <<>>

Objects ==
    /\ made \in Nat
    /\ clients \in Seq(ClientRecord) /\ Len(clients) = made
    /\ sockets \in Seq(SocketRecord) /\ Len(sockets) = made
    /\ known \subseteq Made

Calls ==
    /\ \E n \in 0 .. Nodes - 1 :
          /\ attempts \in [0 .. n - 1 -> 0 .. Attempts]
          /\ told \in [0 .. n - 1 -> {"Nothing", "Connected", "FailedToEstablish"}]
          /\ backlog + incoming <= Nodes - 1 - n
    /\ backlog \in Nat /\ incoming \in Nat
    /\ \A c \in Made : clients[c].info => clients[c].peer \in Called

Queues ==
    /\ planned \in Seq(Called)
    /\ pipe \in Seq(MadeMsg)
    /\ sender \in Made \cup {0}
    /\ batch \subseteq {PipeEvent, TimerEvent, ListenEvent} \cup Rearming
    /\ erase \in Seq(Made)
    /\ events \in [Client -> Seq(QueuedEvent)]
    /\ alive \in BOOLEAN

\* TypeOK, with the ids of clients that were made.
Shape == Objects /\ Calls /\ Queues /\ Doing

\* The timer rings, and accept is called, for a reason; a client that still connects, or is
\* not made yet, was not heard of.
Timely ==
    /\ TimerEvent \in batch => planned # <<>>
    /\ ListenEvent \in batch => backlog > 0
    /\ \A c \in Made : clients[c].state = "Disconnected" =>
          /\ events[c] = <<>> /\ clients[c].posted = 0
          /\ doing.at \in {"read", "write", "check", "stop"} => doing.client # c
    /\ \A c \in Client : c > made => events[c] = <<>>

\* What the socket of c knows of the other node's packets.
Counted(s) ==
    /\ s.taken <= s.arrived /\ s.arrived <= 2 * MaxTheirs
    /\ s.arrived <= 2 * Len(s.theirs)
    /\ s.link \in {"connecting", "open"} => s.arrived \in {2 * Len(s.theirs) - 1, 2 * Len(s.theirs)}
    /\ \A i \in DOMAIN s.theirs : s.theirs[i] = "handshake" <=> i = 1

\* The number of the last packet whose event was appended.
Latest(es) == IF Len(es) = 1 THEN 1 ELSE es[Len(es)].number

\* Where the reader is: at most at packet m, and it skipped what cannot be decoded.
Heard(c) ==
    /\ events[c] # <<>> /\ c \in known /\ ~ clients[c].readError =>
          /\ 2 * Latest(events[c]) <= sockets[c].taken
          /\ \A m \in 1 .. MaxTheirs : Latest(events[c]) < m /\ 2 * m <= sockets[c].taken =>
                sockets[c].theirs[m] = "undecodable"
    /\ \A i \in DOMAIN events[c] :
          events[c][i].type = "Packet" => events[c][i].number <= Len(sockets[c].theirs)

Ordered(es, theirs) ==
    \A i \in DOMAIN es :
        /\ es[i] = ConnectedEvent <=> i = 1
        /\ es[i] = DisconnectedEvent => i = Len(es)
        /\ es[i].type = "Packet" =>
              LET before == IF i = 2 THEN 1 ELSE es[i - 1].number
              IN  /\ before < es[i].number
                  /\ \A n \in before + 1 .. es[i].number - 1 : theirs[n] = "undecodable"

\* EventsInOrder, of one client.
InOrder(c) ==
    /\ Ordered(events[c], sockets[c].theirs)
    /\ events[c] # <<>> => (events[c][Len(events[c])] = DisconnectedEvent <=> c \notin known)

\* The queue has the packets that were posted last, the buffer the one before them.
Queued(k) ==
    /\ k.posted <= MaxPosts + 1
    /\ Len(k.queue) <= k.posted
    /\ \A i \in DOMAIN k.queue : k.queue[i] = k.posted - Len(k.queue) + i
    /\ k.buffer # 0 => k.buffer = k.posted - Len(k.queue)

Written(k) == 2 * (k.posted - Len(k.queue)) - IF k.buffer = 0 THEN 0 ELSE 2 - k.sent

\* The pieces are numbered; none is left out as long as the socket takes more.
Sent(k, s) ==
    /\ \A i \in DOMAIN s.wire : s.wire[i] = i
    /\ \A i \in DOMAIN s.out : s.out[i] = Len(s.wire) + i
    /\ Len(s.out) <= OutSize
    /\ s.link \notin {"reset", "pipe", "gone"} => Len(s.wire) + Len(s.out) = Written(k)

Traffic(c) ==
    /\ c \in known => sockets[c].link # "gone"
    /\ Counted(sockets[c]) /\ Queued(clients[c]) /\ Sent(clients[c], sockets[c])

\* stopWriting does not take back an error, and nothing is read after an error.
Stopped ==
    /\ doing.at = "stop" /\ clients[doing.client].writeError => doing.error
    /\ doing.at = "read" => ~ clients[doing.client].readError

InClient(p, c) == c \in known /\ clients[c].peer = p /\ clients[c].info

\* The info of the call for p waits to be connected.
Waits(p) == Has(pipe, ConnectMsg(p)) \/ Has(planned, p) \/ Has(Planned, p)

Sole(p) ==
    /\ Single(pipe, ConnectMsg(p)) /\ Single(planned, p) /\ Single(Planned, p)
    /\ \A c, d \in known : InClient(p, c) /\ InClient(p, d) => c = d
    /\ ~ (Has(pipe, ConnectMsg(p)) /\ Has(planned, p))
    /\ ~ (Has(pipe, ConnectMsg(p)) /\ Has(Planned, p))
    /\ ~ (Has(planned, p) /\ Has(Planned, p))
    /\ \A c \in known : InClient(p, c) => ~ Waits(p)
    /\ Waits(p) \/ (\E c \in known : InClient(p, c)) => told[p] = "Nothing" /\ attempts[p] > 0

\* Every client stands for another attempt of a connect call, or for a node after this one.
Slot == Peer \X (1 .. Attempts)

Used(slot) ==
    IF slot[1] \in Called
    THEN slot[2] > attempts[slot[1]] \/ (slot[2] = attempts[slot[1]] /\ ~ Waits(slot[1]))
    ELSE slot[1] + backlog + incoming < Nodes - 1

Numbered ==
    \E f \in [Made -> Slot] :
        /\ \A c, d \in Made : f[c] = f[d] => c = d
        /\ \A c \in Made : Used(f[c])

IInv ==
    /\ Shape
    /\ Timely
    /\ PointersValid
    /\ \A c \in Made : Traffic(c) /\ Heard(c) /\ InOrder(c)
    /\ Stopped /\ Armed
    /\ \A p \in Called : Sole(p)
    /\ Numbered

-----------------------------------------------------------------------------
(* Sequences.                                                               *)

LEMMA ExceptAt ==
    ASSUME NEW S, NEW s \in Seq(S), NEW i \in 1 .. Len(s), NEW x \in S
    PROVE  /\ [s EXCEPT ![i] = x] \in Seq(S) /\ Len([s EXCEPT ![i] = x]) = Len(s)
           /\ \A j \in 1 .. Len(s) : [s EXCEPT ![i] = x][j] = IF j = i THEN x ELSE s[j]
  OBVIOUS

LEMMA AppendAt ==
    ASSUME NEW S, NEW s \in Seq(S), NEW x \in S
    PROVE  /\ Append(s, x) \in Seq(S) /\ Len(Append(s, x)) = Len(s) + 1
           /\ DOMAIN Append(s, x) = 1 .. Len(s) + 1
           /\ \A j \in 1 .. Len(s) : Append(s, x)[j] = s[j]
           /\ Append(s, x)[Len(s) + 1] = x
  OBVIOUS

LEMMA TailAt ==
    ASSUME NEW S, NEW s \in Seq(S), s # <<>>
    PROVE  /\ Tail(s) \in Seq(S) /\ Len(Tail(s)) = Len(s) - 1 /\ Len(s) \in Nat \ {0}
           /\ Head(s) \in S /\ Head(s) = s[1]
           /\ DOMAIN Tail(s) = 1 .. Len(s) - 1
           /\ \A j \in 1 .. Len(s) - 1 : Tail(s)[j] = s[j + 1]
  OBVIOUS

LEMMA Widened == ASSUME NEW S, NEW T, S \subseteq T, NEW s \in Seq(S) PROVE s \in Seq(T)
  OBVIOUS

LEMMA AppendHas ==
    ASSUME NEW S, NEW s \in Seq(S), NEW x \in S, NEW y
    PROVE  /\ Has(Append(s, x), y) <=> Has(s, y) \/ x = y
           /\ Single(s, y) /\ (x = y => ~ Has(s, y)) => Single(Append(s, x), y)
<1> DEFINE a == Append(s, x)
<1>1. /\ DOMAIN a = 1 .. Len(s) + 1 /\ DOMAIN s = 1 .. Len(s) /\ Len(s) \in Nat
      /\ \A j \in 1 .. Len(s) : a[j] = s[j]
      /\ a[Len(s) + 1] = x
  BY AppendAt
<1> HIDE DEF a
<1>2. Has(a, y) <=> Has(s, y) \/ x = y
  BY <1>1 DEF Has
<1>3. ASSUME Single(s, y), x = y => ~ Has(s, y) PROVE Single(a, y)
  BY <1>1, <1>3 DEF Single, Has
<1> QED
  BY <1>2, <1>3 DEF a

LEMMA TailHas ==
    ASSUME NEW S, NEW s \in Seq(S), s # <<>>, NEW y
    PROVE  /\ Has(s, y) <=> Head(s) = y \/ Has(Tail(s), y)
           /\ Single(s, y) => Single(Tail(s), y) /\ (Head(s) = y => ~ Has(Tail(s), y))
<1> DEFINE t == Tail(s)
<1>1. /\ DOMAIN t = 1 .. Len(s) - 1 /\ DOMAIN s = 1 .. Len(s) /\ Len(s) \in Nat \ {0}
      /\ \A j \in 1 .. Len(s) - 1 : t[j] = s[j + 1]
      /\ Head(s) = s[1]
  BY TailAt
<1> HIDE DEF t
<1>2. ASSUME NEW i \in DOMAIN s, i # 1 PROVE i - 1 \in DOMAIN t /\ t[i - 1] = s[i]
  <2>1. i - 1 \in 1 .. Len(s) - 1 /\ (i - 1) + 1 = i
    BY <1>1, <1>2
  <2> QED
    BY <1>1, <2>1
<1>3. \A j \in DOMAIN t : j + 1 \in DOMAIN s /\ t[j] = s[j + 1] /\ j + 1 # 1
  BY <1>1
<1>4. Has(s, y) <=> s[1] = y \/ Has(t, y)
  BY <1>1, <1>2, <1>3 DEF Has
<1>5. ASSUME Single(s, y) PROVE Single(t, y) /\ (s[1] = y => ~ Has(t, y))
  <2>1. ASSUME NEW i \in DOMAIN t, NEW j \in DOMAIN t, t[i] = y, t[j] = y PROVE i = j
    <3>1. i + 1 = j + 1
      BY <1>3, <1>5, <2>1 DEF Single
    <3> QED
      BY <1>1, <3>1
  <2>2. ASSUME s[1] = y, NEW j \in DOMAIN t, t[j] = y PROVE FALSE
    <3>1. 1 = j + 1
      BY <1>1, <1>3, <1>5, <2>2 DEF Single
    <3> QED
      BY <1>3, <2>2, <3>1
  <2> QED
    BY <2>1, <2>2 DEF Single, Has
<1> QED
  BY <1>1, <1>4, <1>5 DEF t

-----------------------------------------------------------------------------
(* Clients and sockets.                                                     *)

LEMMA NewTypes ==
    /\ \A p \in Peer \cup {None}, state \in {"Connected", "Disconnected"} :
          NewClient(p, state) \in ClientRecord
    /\ \A link \in Link, interest \in SUBSET {"Read", "Write"} :
          NewSocket(link, interest) \in SocketRecord
<1>1. <<>> \in Seq(Nat) /\ <<>> \in Seq(Kind \cup {"handshake"})
  OBVIOUS
<1>2. \A p \in Peer \cup {None}, state \in {"Connected", "Disconnected"} :
          NewClient(p, state) \in ClientRecord
  BY <1>1, BoundAssumption DEF NewClient, ClientRecord
<1>3. \A link \in Link, interest \in SUBSET {"Read", "Write"} :
          NewSocket(link, interest) \in SocketRecord
  BY <1>1, BoundAssumption DEF NewSocket, SocketRecord
<1> QED
  BY <1>2, <1>3

LEMMA AttachedType ==
    ASSUME NEW k \in ClientRecord
    PROVE  /\ Attached(k) \in ClientRecord
           /\ Attached(k).posted = k.posted + 1
           /\ Attached(k).queue = Append(k.queue, k.posted + 1)
<1>1. Append(k.queue, k.posted + 1) \in Seq(Nat) /\ k.posted + 1 \in Nat
  BY BoundAssumption DEF ClientRecord
<1> QED
  BY <1>1 DEF Attached, ClientRecord

\* What writing leaves alone.
SameClient(a, k) ==
    /\ a.peer = k.peer /\ a.state = k.state /\ a.info = k.info /\ a.posted = k.posted
    /\ a.readError = k.readError /\ a.writeError = k.writeError /\ a.dead = k.dead

LEMMA SendBufferType ==
    ASSUME NEW k \in ClientRecord
    PROVE  SendBuffer(k) \in ClientRecord /\ SameClient(SendBuffer(k), k)
<1> DEFINE a == SendBuffer(k)
<1>1. CASE k.writeError \/ (k.buffer # 0 /\ k.sent < 2)
  BY <1>1 DEF SendBuffer, SameClient
<1>2. CASE ~ (k.writeError \/ (k.buffer # 0 /\ k.sent < 2)) /\ k.queue # <<>>
  <2> DEFINE h == Head(k.queue)
             t == Tail(k.queue)
  <2>1. h \in Nat /\ t \in Seq(Nat)
    BY <1>2, TailAt DEF ClientRecord
  <2>2. a = [k EXCEPT !.buffer = h, !.sent = 0, !.queue = t]
    BY <1>2 DEF SendBuffer, ClientRecord
  <2> HIDE DEF a, h, t
  <2>3. a \in ClientRecord
    BY <2>1, <2>2 DEF ClientRecord
  <2>4. SameClient(a, k)
    BY <2>1, <2>2 DEF ClientRecord, SameClient
  <2> QED
    BY <2>3, <2>4 DEF a
<1>3. CASE ~ (k.writeError \/ (k.buffer # 0 /\ k.sent < 2)) /\ k.queue = <<>>
  <2>1. a = [k EXCEPT !.buffer = 0, !.sent = 0]
    BY <1>3 DEF SendBuffer
  <2> HIDE DEF a
  <2>2. a \in ClientRecord
    BY <2>1 DEF ClientRecord
  <2>3. SameClient(a, k)
    BY <2>1 DEF ClientRecord, SameClient
  <2> QED
    BY <2>2, <2>3 DEF a
<1> QED
  BY <1>1, <1>2, <1>3

-----------------------------------------------------------------------------
(* Types.                                                                   *)

LEMMA Grown ==
    ASSUME made \in Nat, made' \in Nat, made <= made', Called' = Called
    PROVE  /\ Made \subseteq Made' /\ Seq(Made) \subseteq Seq(Made')
           /\ MadeMsg \subseteq MadeMsg' /\ Seq(MadeMsg) \subseteq Seq(MadeMsg')
<1>1. Made \subseteq Made'
  BY DEF Made
<1>2. MadeMsg \subseteq MadeMsg'
  BY <1>1 DEF MadeMsg
<1> HIDE DEF Made, MadeMsg
<1> QED
  BY <1>1, <1>2, Widened

\* The pipe, eraseList and the batch have what they had, for as many clients or more.
LEMMA QueuesKeep ==
    ASSUME Objects, Queues, Objects', made <= made', known \subseteq known', Called' = Called
    PROVE  /\ planned' = planned => planned' \in Seq(Called')
           /\ pipe' = pipe \/ (pipe # <<>> /\ pipe' = Tail(pipe)) => pipe' \in Seq(MadeMsg')
           /\ \A c \in Made' : pipe' = Append(pipe, SentMsg(c)) \/ pipe' = Append(pipe, DisconnectMsg(c))
                 => pipe' \in Seq(MadeMsg')
           /\ sender' = sender => sender' \in Made' \cup {0}
           /\ batch' \subseteq batch => batch' \subseteq {PipeEvent, TimerEvent, ListenEvent} \cup Rearming'
           /\ erase' = erase => erase' \in Seq(Made')
           /\ \A c \in Made : erase' = Erased(c) => erase' \in Seq(Made')
           /\ events' = events => events' \in [Client -> Seq(QueuedEvent)]
           /\ alive' = alive => alive' \in BOOLEAN
<1>1. /\ Made \subseteq Made' /\ Seq(Made) \subseteq Seq(Made')
      /\ MadeMsg \subseteq MadeMsg' /\ Seq(MadeMsg) \subseteq Seq(MadeMsg')
  BY Grown DEF Objects
<1>2. Rearming \subseteq Rearming'
  BY DEF Rearming
<1>3. ASSUME pipe # <<>>, pipe' = Tail(pipe) PROVE pipe' \in Seq(MadeMsg')
  BY <1>1, <1>3, TailAt DEF Queues
<1>4. ASSUME NEW c \in Made' PROVE SentMsg(c) \in MadeMsg' /\ DisconnectMsg(c) \in MadeMsg'
  BY DEF MadeMsg, SentMsg, DisconnectMsg
<1>5. ASSUME NEW c \in Made', pipe' = Append(pipe, SentMsg(c)) \/ pipe' = Append(pipe, DisconnectMsg(c))
      PROVE  pipe' \in Seq(MadeMsg')
  <2>1. pipe \in Seq(MadeMsg')
    BY <1>1 DEF Queues
  <2> QED
    BY <1>4, <1>5, <2>1, AppendAt
<1>6. ASSUME NEW c \in Made, erase' = Erased(c) PROVE erase' \in Seq(Made')
  <2>1. erase' = erase \/ erase' = Append(erase, c)
    BY <1>6 DEF Erased
  <2>2. erase \in Seq(Made)
    BY DEF Queues
  <2> HIDE DEF Made
  <2> QED
    BY <1>1, <2>1, <2>2, AppendAt
<1> HIDE DEF Made, MadeMsg, Rearming
<1> QED
  BY <1>1, <1>2, <1>3, <1>5, <1>6 DEF Queues

\* What a step about client c leaves alone.
Touches(c) ==
    /\ made' = made
    /\ clients' \in Seq(ClientRecord) /\ Len(clients') = made
    /\ sockets' \in Seq(SocketRecord) /\ Len(sockets') = made
    /\ \A d \in Made : d # c => clients'[d] = clients[d] /\ sockets'[d] = sockets[d]

LEMMA Touched ==
    ASSUME Objects, made' = made, NEW c \in Made, NEW k \in ClientRecord, NEW s \in SocketRecord,
           clients' = [clients EXCEPT ![c] = k] \/ (clients' = clients /\ k = clients[c]),
           sockets' = [sockets EXCEPT ![c] = s] \/ (sockets' = sockets /\ s = sockets[c])
    PROVE  Touches(c) /\ clients'[c] = k /\ sockets'[c] = s
<1>1. c \in 1 .. Len(clients) /\ c \in 1 .. Len(sockets) /\ Made = 1 .. made
  BY DEF Objects, Made
<1>2. /\ clients' \in Seq(ClientRecord) /\ Len(clients') = made /\ clients'[c] = k
      /\ \A d \in Made : d # c => clients'[d] = clients[d]
  BY <1>1, ExceptAt DEF Objects
<1>3. /\ sockets' \in Seq(SocketRecord) /\ Len(sockets') = made /\ sockets'[c] = s
      /\ \A d \in Made : d # c => sockets'[d] = sockets[d]
  BY <1>1, ExceptAt DEF Objects
<1> QED
  BY <1>2, <1>3 DEF Touches

LEMMA Recorded ==
    ASSUME Objects, NEW c \in Made
    PROVE  clients[c] \in ClientRecord /\ sockets[c] \in SocketRecord
  BY ElementOfSeq DEF Objects, Made

\* What the client and the socket keep when only flags or the interest change.
SameBuffers(a, k) ==
    /\ a.queue = k.queue /\ a.buffer = k.buffer /\ a.sent = k.sent /\ a.posted = k.posted

SameIdentity(a, k) == a.peer = k.peer /\ a.state = k.state /\ a.info = k.info

SameTraffic(t, s) ==
    /\ t.link = s.link /\ t.theirs = s.theirs /\ t.arrived = s.arrived /\ t.taken = s.taken
    /\ t.out = s.out /\ t.wire = s.wire

LEMMA FlagTypes ==
    ASSUME NEW k \in ClientRecord, NEW b \in BOOLEAN, NEW a
    PROVE  /\ a = [k EXCEPT !.dead = b] =>
                 /\ a \in ClientRecord /\ a.dead = b /\ SameIdentity(a, k) /\ SameBuffers(a, k)
                 /\ a.readError = k.readError /\ a.writeError = k.writeError
           /\ a = [k EXCEPT !.readError = b] =>
                 /\ a \in ClientRecord /\ a.readError = b /\ SameIdentity(a, k) /\ SameBuffers(a, k)
                 /\ a.dead = k.dead /\ a.writeError = k.writeError
           /\ \A d \in BOOLEAN : a = [k EXCEPT !.writeError = b, !.dead = d] =>
                 /\ a \in ClientRecord /\ a.writeError = b /\ a.dead = d
                 /\ SameIdentity(a, k) /\ SameBuffers(a, k) /\ a.readError = k.readError
<1>1. a = [k EXCEPT !.dead = b] =>
                 /\ a \in ClientRecord /\ a.dead = b /\ SameIdentity(a, k) /\ SameBuffers(a, k)
                 /\ a.readError = k.readError /\ a.writeError = k.writeError
  BY DEF ClientRecord, SameIdentity, SameBuffers
<1>2. a = [k EXCEPT !.readError = b] =>
                 /\ a \in ClientRecord /\ a.readError = b /\ SameIdentity(a, k) /\ SameBuffers(a, k)
                 /\ a.dead = k.dead /\ a.writeError = k.writeError
  BY DEF ClientRecord, SameIdentity, SameBuffers
<1>3. ASSUME NEW d \in BOOLEAN, a = [k EXCEPT !.writeError = b, !.dead = d]
      PROVE  /\ a \in ClientRecord /\ a.writeError = b /\ a.dead = d
             /\ SameIdentity(a, k) /\ SameBuffers(a, k) /\ a.readError = k.readError
  BY <1>3 DEF ClientRecord, SameIdentity, SameBuffers
<1> QED
  BY <1>1, <1>2, <1>3

LEMMA SocketTypes ==
    ASSUME NEW s \in SocketRecord, NEW t
    PROVE  /\ \A i \in SUBSET {"Read", "Write"} : t = [s EXCEPT !.interest = i] =>
                 t \in SocketRecord /\ t.interest = i /\ SameTraffic(t, s) /\ t.closed = s.closed
           /\ \A b \in BOOLEAN : t = [s EXCEPT !.closed = b] =>
                 t \in SocketRecord /\ t.interest = s.interest /\ SameTraffic(t, s)
           /\ \A n \in Nat : t = [s EXCEPT !.taken = n] =>
                 /\ t \in SocketRecord /\ t.taken = n /\ t.interest = s.interest
                 /\ t.link = s.link /\ t.theirs = s.theirs /\ t.arrived = s.arrived
                 /\ t.out = s.out /\ t.wire = s.wire
           /\ \A link \in Link : t = [s EXCEPT !.link = link] =>
                 /\ t \in SocketRecord /\ t.link = link /\ t.interest = s.interest
                 /\ t.theirs = s.theirs /\ t.arrived = s.arrived /\ t.taken = s.taken
                 /\ t.out = s.out /\ t.wire = s.wire
<1>1. ASSUME NEW i \in SUBSET {"Read", "Write"}, t = [s EXCEPT !.interest = i]
      PROVE  t \in SocketRecord /\ t.interest = i /\ SameTraffic(t, s) /\ t.closed = s.closed
  BY <1>1 DEF SocketRecord, SameTraffic
<1>2. ASSUME NEW b \in BOOLEAN, t = [s EXCEPT !.closed = b]
      PROVE  t \in SocketRecord /\ t.interest = s.interest /\ SameTraffic(t, s)
  BY <1>2 DEF SocketRecord, SameTraffic
<1>3. ASSUME NEW n \in Nat, t = [s EXCEPT !.taken = n]
      PROVE  /\ t \in SocketRecord /\ t.taken = n /\ t.interest = s.interest
             /\ t.link = s.link /\ t.theirs = s.theirs /\ t.arrived = s.arrived
             /\ t.out = s.out /\ t.wire = s.wire
  BY <1>3 DEF SocketRecord
<1>4. ASSUME NEW link \in Link, t = [s EXCEPT !.link = link]
      PROVE  /\ t \in SocketRecord /\ t.link = link /\ t.interest = s.interest
             /\ t.theirs = s.theirs /\ t.arrived = s.arrived /\ t.taken = s.taken
             /\ t.out = s.out /\ t.wire = s.wire
  BY <1>4 DEF SocketRecord
<1> QED
  BY <1>1, <1>2, <1>3, <1>4

-----------------------------------------------------------------------------
(* What each step does to the clients and their sockets.                    *)

\* A client k with a socket s is made.
Creates(k, s) ==
    /\ made' = made + 1 /\ known' = known \cup {made + 1}
    /\ clients' \in Seq(ClientRecord) /\ Len(clients') = made + 1
    /\ sockets' \in Seq(SocketRecord) /\ Len(sockets') = made + 1
    /\ \A d \in Made : clients'[d] = clients[d] /\ sockets'[d] = sockets[d]
    /\ clients'[made + 1] = k /\ sockets'[made + 1] = s

NoClient == UNCHANGED <<clients, sockets, made, known>>

LEMMA CreatesBoth ==
    ASSUME Objects, NEW k \in ClientRecord, NEW s \in SocketRecord,
           made' = made + 1, known' = known \cup {made + 1},
           clients' = Append(clients, k), sockets' = Append(sockets, s)
    PROVE  Creates(k, s)
<1>1. /\ clients' \in Seq(ClientRecord) /\ Len(clients') = made + 1 /\ clients'[made + 1] = k
      /\ \A d \in Made : clients'[d] = clients[d]
  BY AppendAt DEF Objects, Made
<1>2. /\ sockets' \in Seq(SocketRecord) /\ Len(sockets') = made + 1 /\ sockets'[made + 1] = s
      /\ \A d \in Made : sockets'[d] = sockets[d]
  BY AppendAt DEF Objects, Made
<1> QED
  BY <1>1, <1>2 DEF Creates

LEMMA CreatesObjects ==
    ASSUME Objects, NEW k, NEW s, Creates(k, s)
    PROVE  Objects' /\ made <= made' /\ known \subseteq known' /\ Made' = Made \cup {made + 1}
  BY DEF Objects, Creates, Made

LEMMA TouchesObjects ==
    ASSUME Objects, NEW c, Touches(c), known' \subseteq known
    PROVE  Objects' /\ made' = made /\ Made' = Made
  BY DEF Objects, Touches, Made

LEMMA CreateConnectionEffect ==
    ASSUME Objects, NEW p \in Peer, CreateConnection(p)
    PROVE  \/ NoClient
           \/ Creates(NewClient(p, "Disconnected"), NewSocket("connecting", {"Read", "Write"}))
<1>1. /\ NewClient(p, "Disconnected") \in ClientRecord
      /\ NewSocket("connecting", {"Read", "Write"}) \in SocketRecord
  BY NewTypes DEF Link
<1> QED
  BY <1>1, CreatesBoth DEF CreateConnection, NoClient

LEMMA NewConnectionEffect ==
    ASSUME Objects, NewConnection
    PROVE  \/ NoClient /\ pipe' = pipe
           \/ /\ Creates(Attached(NewClient(None, "Connected")), NewSocket("open", {"Read"}))
              /\ pipe' = Append(pipe, SentMsg(made + 1))
<1>1. /\ NewClient(None, "Connected") \in ClientRecord
      /\ NewSocket("open", {"Read"}) \in SocketRecord
  BY NewTypes DEF Link
<1>2. Attached(NewClient(None, "Connected")) \in ClientRecord
  BY <1>1, AttachedType
<1> QED
  BY <1>1, <1>2, CreatesBoth DEF NewConnection, NoClient

RearmedEffect(c) ==
    /\ SameIdentity(clients'[c], clients[c]) /\ SameBuffers(clients'[c], clients[c])
    /\ clients'[c].readError = clients[c].readError
    /\ clients'[c].writeError = clients[c].writeError
    /\ clients'[c].dead = (clients[c].dead \/ Head(pipe).type = "Disconnect")
    /\ SameTraffic(sockets'[c], sockets[c])
    /\ ~ clients[c].writeError => "Write" \in sockets'[c].interest

LEMMA PipeClientEffect ==
    ASSUME Objects, NEW c \in Made, PipeClient(c)
    PROVE  /\ Touches(c)
           /\ c \notin known => UNCHANGED <<clients, sockets, erase>>
           /\ c \in known =>
                 /\ RearmedEffect(c)
                 /\ erase' = IF Head(pipe).type = "Disconnect" THEN Erased(c) ELSE erase
<1> DEFINE k == clients[c]
           s == sockets[c]
           b == k.dead \/ Head(pipe).type = "Disconnect"
           i == IF Rearmed(k) = {} THEN s.interest ELSE Rearmed(k)
           a == [k EXCEPT !.dead = b]
           t == [s EXCEPT !.interest = i]
<1>1. made' = made /\ k \in ClientRecord /\ s \in SocketRecord
  BY Recorded DEF PipeClient, managerVars
<1>2. CASE c \notin known
  <2>1. UNCHANGED <<clients, sockets, erase>>
    BY <1>2 DEF PipeClient
  <2> QED
    BY <1>1, <1>2, <2>1, Touched
<1>3. CASE c \in known
  <2>1. /\ clients' = [clients EXCEPT ![c] = a]
        /\ sockets' = [sockets EXCEPT ![c] = t]
        /\ erase' = IF Head(pipe).type = "Disconnect" THEN Erased(c) ELSE erase
    BY <1>3 DEF PipeClient
  <2>2. b \in BOOLEAN /\ i \in SUBSET {"Read", "Write"}
    BY <1>1 DEF ClientRecord, SocketRecord, Rearmed
  <2>3. /\ a \in ClientRecord /\ a.dead = b /\ SameIdentity(a, k) /\ SameBuffers(a, k)
        /\ a.readError = k.readError /\ a.writeError = k.writeError
    <3> HIDE DEF k, b
    <3> QED
      BY <1>1, <2>2, FlagTypes
  <2>4. t \in SocketRecord /\ t.interest = i /\ SameTraffic(t, s)
    <3> HIDE DEF i, s
    <3> QED
      BY <1>1, <2>2, SocketTypes
  <2>5. Touches(c) /\ clients'[c] = a /\ sockets'[c] = t
    <3> HIDE DEF a, t
    <3> QED
      BY <1>1, <2>1, <2>3, <2>4, Touched
  <2>6. ~ k.writeError => "Write" \in i
    BY DEF Rearmed
  <2> HIDE DEF a, t, b, i
  <2>7. RearmedEffect(c)
    BY <2>3, <2>4, <2>5, <2>6 DEF RearmedEffect, b
  <2> QED
    BY <1>3, <2>1, <2>5, <2>7
<1> QED
  BY <1>2, <1>3

-----------------------------------------------------------------------------
(* Messages, and what the TCP thread does.                                  *)

LEMMA MsgFields ==
    /\ \A c : /\ SentMsg(c).type = "SendBufferReceived" /\ SentMsg(c).client = c
              /\ DisconnectMsg(c).type = "Disconnect" /\ DisconnectMsg(c).client = c
    /\ \A p : ConnectMsg(p).type = "Connect" /\ ConnectMsg(p).peer = p
  BY DEF SentMsg, DisconnectMsg, ConnectMsg

LEMMA MsgKinds ==
    ASSUME NEW m \in MadeMsg
    PROVE  \/ \E p \in Called : m = ConnectMsg(p)
           \/ \E c \in Made : m = SentMsg(c) \/ m = DisconnectMsg(c)
  BY DEF MadeMsg, SentMsg, DisconnectMsg, ConnectMsg

LEMMA DoingFields ==
    /\ Idle.at = "idle"
    /\ \A c, r : /\ Reading(c, r).at = "read" /\ Reading(c, r).client = c /\ Reading(c, r).round = r
                 /\ Writing(c, r).at = "write" /\ Writing(c, r).client = c
                 /\ Writing(c, r).round = r
                 /\ Checking(c, r).at = "check" /\ Checking(c, r).client = c
                 /\ Checking(c, r).round = r
                 /\ Stopping(c, r).at = "stop" /\ Stopping(c, r).client = c
                 /\ Stopping(c, r).error = r
    /\ \A peers : Connecting(peers).at = "connect" /\ Connecting(peers).peers = peers
  BY DEF Idle, Reading, Writing, Checking, Stopping, Connecting

LEMMA EventFields ==
    /\ \A c : /\ ReadEv(c).type = "Read" /\ ReadEv(c).client = c
              /\ WriteEv(c).type = "Write" /\ WriteEv(c).client = c
    /\ PipeEvent.type = "Pipe" /\ TimerEvent.type = "Timer" /\ ListenEvent.type = "Listen"
  BY DEF ReadEv, WriteEv, PipeEvent, TimerEvent, ListenEvent

\* Handler chooses among these.
LEMMA HandlerIs ==
    ASSUME NEW c, NEW type
    PROVE  \/ Handler(c, type) = Idle \/ Handler(c, type) = Writing(c, 0)
           \/ Handler(c, type) = Reading(c, 0) /\ ~ clients[c].readError
  BY DEF Handler

-----------------------------------------------------------------------------
(* Client::sendBuffer.                                                      *)

LEMMA SendBufferEnds ==
    ASSUME NEW k \in ClientRecord, Queued(k), NEW a, a = SendBuffer(k)
    PROVE  /\ Queued(a) /\ Written(a) = Written(k)
           /\ ~ k.writeError /\ Pending(a) => Pending(k)
           /\ HasBuffer(a) => ~ a.writeError /\ a.buffer # 0 /\ a.sent < 2
           /\ ~ HasBuffer(a) => a.writeError \/ ~ Pending(a)
<1>1. a \in ClientRecord /\ SameClient(a, k)
  BY SendBufferType
<1>2. k.queue \in Seq(Nat) /\ k.posted \in Nat /\ k.buffer \in Nat /\ k.sent \in {0, 1, 2}
  BY DEF ClientRecord
<1>3. a.writeError \/ (a.buffer # 0 /\ a.sent < 2) => SendBuffer(a) = a
  BY DEF SendBuffer
<1>4. CASE k.writeError \/ (k.buffer # 0 /\ k.sent < 2)
  <2>1. a = k
    BY <1>4 DEF SendBuffer
  <2> QED
    BY <1>3, <1>4, <2>1 DEF HasBuffer
<1>5. CASE ~ (k.writeError \/ (k.buffer # 0 /\ k.sent < 2)) /\ k.queue # <<>>
  <2>1. a = [k EXCEPT !.buffer = Head(k.queue), !.sent = 0, !.queue = Tail(@)]
    BY <1>5 DEF SendBuffer
  <2>2. a.buffer = Head(k.queue) /\ a.sent = 0 /\ a.queue = Tail(k.queue) /\ a.posted = k.posted
    BY <2>1 DEF ClientRecord
  <2>3. /\ Len(a.queue) = Len(k.queue) - 1 /\ Len(k.queue) \in Nat \ {0}
        /\ a.buffer = k.queue[1] /\ DOMAIN a.queue = 1 .. Len(k.queue) - 1
        /\ \A j \in 1 .. Len(k.queue) - 1 : a.queue[j] = k.queue[j + 1]
    BY <1>2, <1>5, <2>2, TailAt
  <2>4. a.buffer = k.posted - Len(k.queue) + 1
    BY <1>2, <2>3 DEF Queued
  <2>5. ASSUME NEW j \in DOMAIN a.queue PROVE a.queue[j] = k.posted - Len(k.queue) + (j + 1)
    <3>1. j + 1 \in DOMAIN k.queue
      BY <1>2, <2>3
    <3> QED
      BY <2>3, <3>1 DEF Queued
  <2>8. a.buffer # 0 /\ a.sent < 2 /\ ~ a.writeError
    BY <1>1, <1>2, <1>5, <2>2, <2>3, <2>4 DEF Queued, SameClient
  <2>6. Queued(a)
    <3>1. /\ a.posted <= MaxPosts + 1 /\ Len(a.queue) <= a.posted
          /\ a.buffer = a.posted - Len(a.queue)
      <4>1. k.posted <= MaxPosts + 1 /\ Len(k.queue) <= k.posted
        BY DEF Queued
      <4>2. a.posted = k.posted /\ k.posted \in Nat /\ MaxPosts \in Nat
        BY <1>2, <2>2, BoundAssumption
      <4> QED
        BY <2>3, <2>4, <4>1, <4>2
    <3>2. ASSUME NEW j \in DOMAIN a.queue PROVE a.queue[j] = a.posted - Len(a.queue) + j
      <4>1. j \in Nat /\ a.queue[j] = k.posted - Len(k.queue) + (j + 1)
        BY <2>3, <2>5, <3>2
      <4>2. \A p, n \in Nat : p - n + (j + 1) = p - (n - 1) + j
        BY <4>1
      <4>3. k.posted - Len(k.queue) + (j + 1) = k.posted - (Len(k.queue) - 1) + j
        BY <1>2, <2>3, <4>2
      <4> QED
        BY <2>2, <2>3, <4>1, <4>3
    <3> QED
      BY <3>1, <3>2 DEF Queued
  <2>7. Written(a) = Written(k)
    <3>1. Written(a) = 2 * (k.posted - (Len(k.queue) - 1)) - 2
      BY <2>2, <2>3, <2>8 DEF Written
    <3>2. Written(k) = 2 * (k.posted - Len(k.queue))
      BY <1>2, <1>5 DEF Written
    <3> QED
      BY <1>2, <2>3, <3>1, <3>2
  <2>9. HasBuffer(a)
    BY <1>3, <2>8 DEF HasBuffer
  <2> QED
    BY <1>5, <2>6, <2>7, <2>8, <2>9 DEF Pending
<1>6. CASE ~ (k.writeError \/ (k.buffer # 0 /\ k.sent < 2)) /\ k.queue = <<>>
  <2>1. a = [k EXCEPT !.buffer = 0, !.sent = 0]
    BY <1>6 DEF SendBuffer
  <2>2. a.buffer = 0 /\ a.sent = 0 /\ a.queue = <<>> /\ a.posted = k.posted /\ ~ a.writeError
    BY <1>6, <2>1 DEF ClientRecord
  <2>3. Queued(a)
    BY <1>2, <1>6, <2>2 DEF Queued
  <2>4. Written(a) = Written(k)
    BY <1>2, <1>6, <2>2 DEF Queued, Written
  <2>5. SendBuffer(a) = [a EXCEPT !.buffer = 0, !.sent = 0]
    BY <2>2 DEF SendBuffer
  <2>6. ~ HasBuffer(a)
    BY <1>1, <2>5 DEF HasBuffer, ClientRecord
  <2> QED
    BY <2>2, <2>3, <2>4, <2>6 DEF Pending
<1> QED
  BY <1>4, <1>5, <1>6

-----------------------------------------------------------------------------
(* The clients that a step writes, field by field.                          *)

SameFlags(a, k) ==
    a.readError = k.readError /\ a.writeError = k.writeError /\ a.dead = k.dead

LEMMA AttachedFields ==
    ASSUME NEW k \in ClientRecord, NEW a, a = Attached(k)
    PROVE  /\ a \in ClientRecord /\ SameIdentity(a, k) /\ SameFlags(a, k)
           /\ a.posted = k.posted + 1 /\ a.queue = Append(k.queue, k.posted + 1)
           /\ a.buffer = k.buffer /\ a.sent = k.sent
<1>1. a \in ClientRecord /\ a.posted = k.posted + 1 /\ a.queue = Append(k.queue, k.posted + 1)
  BY AttachedType
<1>2. SameIdentity(a, k) /\ SameFlags(a, k) /\ a.buffer = k.buffer /\ a.sent = k.sent
  BY DEF Attached, ClientRecord, SameIdentity, SameFlags
<1> QED
  BY <1>1, <1>2

\* connectEvent, when the connection is there.
Connected(c) ==
    /\ clients[c].state = "Disconnected" /\ ~ clients[c].dead /\ clients[c].info
    /\ clients'[c].state = "Connected" /\ ~ clients'[c].info
    /\ clients'[c].peer = clients[c].peer /\ SameFlags(clients'[c], clients[c])
    /\ clients'[c].posted = clients[c].posted + 1
    /\ clients'[c].queue = Append(clients[c].queue, clients[c].posted + 1)
    /\ clients'[c].buffer = clients[c].buffer /\ clients'[c].sent = clients[c].sent
    /\ sockets[c].link \notin {"refused", "reset"}
    /\ pipe' = Append(pipe, SentMsg(c))
    /\ told' = [told EXCEPT ![clients[c].peer] = "Connected"]
    /\ UNCHANGED <<planned, attempts, erase>>

LEMMA ConnectDoneEffect ==
    ASSUME Objects, NEW c \in Made, made' = made, sockets' = sockets, ConnectDone(c),
           clients[c].state = "Disconnected", ~ clients[c].dead, clients[c].info
    PROVE  Touches(c) /\ Connected(c)
<1> DEFINE k == clients[c]
           b == [k EXCEPT !.info = FALSE, !.state = "Connected"]
           a == Attached(b)
<1>1. k \in ClientRecord /\ sockets[c] \in SocketRecord
  BY Recorded
<1>2. clients' = [clients EXCEPT ![c] = a]
  BY DEF ConnectDone
<1>3. /\ b \in ClientRecord /\ ~ b.info /\ b.state = "Connected" /\ b.peer = k.peer
      /\ SameFlags(b, k) /\ SameBuffers(b, k)
  <2> HIDE DEF k
  <2>1. b \in ClientRecord
    BY <1>1 DEF ClientRecord
  <2>2. /\ ~ b.info /\ b.state = "Connected" /\ b.peer = k.peer
        /\ SameFlags(b, k) /\ SameBuffers(b, k)
    BY <1>1 DEF ClientRecord, SameFlags, SameBuffers
  <2> QED
    BY <2>1, <2>2
<1> HIDE DEF b
<1>4. /\ a \in ClientRecord /\ SameIdentity(a, b) /\ SameFlags(a, b)
      /\ a.posted = b.posted + 1 /\ a.queue = Append(b.queue, b.posted + 1)
      /\ a.buffer = b.buffer /\ a.sent = b.sent
  BY <1>3, AttachedFields
<1> HIDE DEF a
<1>5. Touches(c) /\ clients'[c] = a
  BY <1>1, <1>2, <1>4, Touched
<1>6. Connected(c)
  BY <1>3, <1>4, <1>5 DEF Connected, ConnectDone, SameIdentity, SameFlags, SameBuffers
<1> QED
  BY <1>5, <1>6

\* connectEvent, when it failed.
Failed(c) ==
    /\ clients[c].state = "Disconnected" /\ ~ clients[c].dead /\ clients[c].info
    /\ ~ clients'[c].info /\ clients'[c].dead
    /\ clients'[c].peer = clients[c].peer /\ clients'[c].state = clients[c].state
    /\ clients'[c].readError = clients[c].readError
    /\ clients'[c].writeError = clients[c].writeError
    /\ SameBuffers(clients'[c], clients[c])
    /\ attempts' = [attempts EXCEPT ![clients[c].peer] = @ - 1]
    /\ IF attempts[clients[c].peer] > 1
       THEN planned' = Append(planned, clients[c].peer) /\ told' = told
       ELSE told' = [told EXCEPT ![clients[c].peer] = "FailedToEstablish"] /\ planned' = planned
    /\ erase' = Erased(c)
    /\ pipe' = pipe

LEMMA ConnectFailedEffect ==
    ASSUME Objects, NEW c \in Made, made' = made, sockets' = sockets, ConnectFailed(c),
           clients[c].state = "Disconnected", ~ clients[c].dead, clients[c].info
    PROVE  Touches(c) /\ Failed(c)
<1> DEFINE k == clients[c]
           a == [k EXCEPT !.info = FALSE, !.dead = TRUE]
<1>1. k \in ClientRecord /\ sockets[c] \in SocketRecord /\ c \in DOMAIN clients
  BY Recorded DEF Objects, Made
<1>2. clients' = [clients EXCEPT ![c] = a]
  BY <1>1 DEF ConnectFailed
<1>3. /\ a \in ClientRecord /\ ~ a.info /\ a.dead = TRUE /\ SameBuffers(a, k)
      /\ a.peer = k.peer /\ a.state = k.state
      /\ a.readError = k.readError /\ a.writeError = k.writeError
  <2> HIDE DEF k
  <2>1. a \in ClientRecord
    BY <1>1 DEF ClientRecord
  <2>2. /\ ~ a.info /\ a.dead = TRUE /\ SameBuffers(a, k)
        /\ a.peer = k.peer /\ a.state = k.state
        /\ a.readError = k.readError /\ a.writeError = k.writeError
    BY <1>1 DEF ClientRecord, SameBuffers
  <2> QED
    BY <2>1, <2>2
<1> HIDE DEF a
<1>4. Touches(c) /\ clients'[c] = a
  BY <1>1, <1>2, <1>3, Touched
<1>5. Failed(c)
  BY <1>3, <1>4 DEF Failed, ConnectFailed
<1> QED
  BY <1>4, <1>5

\* An event of a client.
LEMMA ClientEventEffect ==
    ASSUME Objects, NEW c \in Made, NEW type \in {"Read", "Write"}, ClientEvent(c, type)
    PROVE  /\ Touches(c) /\ sockets' = sockets /\ known' = known /\ events' = events
           /\ \/ /\ UNCHANGED <<clients, planned, attempts, told, pipe, erase>>
                 /\ \/ doing' = doing
                    \/ clients[c].state # "Disconnected" /\ doing' = Handler(c, type)
              \/ Connected(c) /\ doing' = Handler(c, type)
              \/ Failed(c) /\ doing' = doing
<1>1. made' = made /\ sockets' = sockets /\ known' = known /\ events' = events
  BY DEF ClientEvent
<1>2. CASE clients[c].state # "Disconnected"
  <2>1. doing' = Handler(c, type) /\ UNCHANGED <<clients, planned, attempts, told, pipe, erase>>
    BY <1>2 DEF ClientEvent
  <2>2. Touches(c)
    BY <1>1, <2>1, Recorded, Touched
  <2> QED
    BY <1>1, <1>2, <2>1, <2>2
<1>3. CASE clients[c].state = "Disconnected" /\ (clients[c].dead \/ ~ clients[c].info)
  <2>1. doing' = doing /\ UNCHANGED <<clients, planned, attempts, told, pipe, erase>>
    BY <1>3 DEF ClientEvent
  <2>2. Touches(c)
    BY <1>1, <2>1, Recorded, Touched
  <2> QED
    BY <1>1, <2>1, <2>2
<1>4. CASE clients[c].state = "Disconnected" /\ ~ (clients[c].dead \/ ~ clients[c].info)
  <2>1. \/ ConnectDone(c) /\ doing' = Handler(c, type)
        \/ ConnectFailed(c) /\ doing' = doing
    BY <1>4 DEF ClientEvent
  <2> QED
    BY <1>1, <1>4, <2>1, ConnectDoneEffect, ConnectFailedEffect
<1> QED
  BY <1>2, <1>3, <1>4

-----------------------------------------------------------------------------
(* writeEvent and stopWriting.                                              *)

\* Client a is k after sendBuffer, and perhaps a write.
Buffered(a, k) ==
    /\ SameClient(a, k) /\ Queued(a)
    /\ ~ k.writeError /\ Pending(a) => Pending(k)

\* The write is over for client a: with an error, or nothing is left.
Stops(c, a) ==
    \E e \in BOOLEAN :
        doing' = Stopping(c, e) /\ (a.writeError => e) /\ (~ e => a.writeError \/ ~ Pending(a))

LEMMA Appending ==
    ASSUME NEW q \in Seq(Nat), NEW g \in Seq(Nat)
    PROVE  /\ q \o g \in Seq(Nat) /\ Len(q \o g) = Len(q) + Len(g)
           /\ \A i \in 1 .. Len(q) : (q \o g)[i] = q[i]
           /\ \A i \in 1 .. Len(g) : (q \o g)[Len(q) + i] = g[i]
<1>1. /\ q \o g \in Seq(Nat) /\ Len(q \o g) = Len(q) + Len(g)
      /\ \A i \in 1 .. Len(q) + Len(g) : (q \o g)[i] = IF i <= Len(q) THEN q[i] ELSE g[i - Len(q)]
  BY ConcatProperties
<1>2. Len(q) \in Nat /\ Len(g) \in Nat
  OBVIOUS
<1>3. ASSUME NEW i \in 1 .. Len(q) PROVE (q \o g)[i] = q[i]
  <2>1. i \in 1 .. Len(q) + Len(g) /\ i <= Len(q)
    BY <1>2
  <2> QED
    BY <1>1, <2>1
<1>4. ASSUME NEW i \in 1 .. Len(g) PROVE (q \o g)[Len(q) + i] = g[i]
  <2>1. /\ Len(q) + i \in 1 .. Len(q) + Len(g) /\ ~ (Len(q) + i <= Len(q))
        /\ Len(q) + i - Len(q) = i
    BY <1>2
  <2> QED
    BY <1>1, <2>1
<1> QED
  BY <1>1, <1>3, <1>4

LEMMA Grouped == \A x, y, z \in Nat : x + y + z = x + (y + z)
  OBVIOUS

\* What fits into the send buffer.
LEMMA Fits ==
    ASSUME NEW sent \in {0, 1}, NEW size \in Nat, NEW len \in Nat, len <= size, NEW n,
           n = IF 2 - sent < size - len THEN 2 - sent ELSE size - len
    PROVE  n \in {0, 1, 2} /\ sent + n \in {0, 1, 2} /\ len + n <= size
  OBVIOUS

LEMMA WriteEffect ==
    ASSUME Objects, NEW c \in Made, NEW round, Write(c, round),
           Queued(clients[c]), Sent(clients[c], sockets[c]), sockets[c].link # "gone"
    PROVE  /\ Touches(c) /\ Buffered(clients'[c], clients[c])
           /\ sockets'[c].interest = sockets[c].interest /\ sockets'[c].link = sockets[c].link
           /\ sockets'[c].theirs = sockets[c].theirs
           /\ sockets'[c].arrived = sockets[c].arrived /\ sockets'[c].taken = sockets[c].taken
           /\ Sent(clients'[c], sockets'[c])
           /\ \/ doing' = doing /\ UNCHANGED clients /\ alive' = FALSE
              \/ Stops(c, clients'[c]) /\ alive' = alive
              \/ doing' = Checking(c, round) /\ alive' = alive
<1> DEFINE k == clients[c]
           s == sockets[c]
           a == SendBuffer(k)
           room == OutSize - Len(s.out)
           n == IF 2 - a.sent < room THEN 2 - a.sent ELSE room
           b == [a EXCEPT !.sent = @ + n]
           f == [i \in 1 .. n |-> 2 * (a.buffer - 1) + a.sent + i]
           t == [s EXCEPT !.out = @ \o f]
<1>1. made' = made /\ k \in ClientRecord /\ s \in SocketRecord
  BY Recorded DEF Write, managerVars
<1>2. a \in ClientRecord /\ SameClient(a, k)
  BY <1>1, SendBufferType
<1>3. /\ Queued(a) /\ Written(a) = Written(k)
      /\ ~ k.writeError /\ Pending(a) => Pending(k)
      /\ HasBuffer(a) => ~ a.writeError /\ a.buffer # 0 /\ a.sent < 2
      /\ ~ HasBuffer(a) => a.writeError \/ ~ Pending(a)
  BY <1>1, SendBufferEnds
<1>4. Buffered(a, k) /\ Sent(a, s)
  <2> HIDE DEF a
  <2> QED
    BY <1>2, <1>3 DEF Buffered, Sent
<1>5. CASE ~ HasBuffer(a)
  <2>1. /\ clients' = [clients EXCEPT ![c] = a] /\ sockets' = sockets
        /\ doing' = Stopping(c, a.writeError) /\ alive' = alive
    BY <1>5 DEF Write
  <2> HIDE DEF a
  <2>2. Touches(c) /\ clients'[c] = a /\ sockets'[c] = s
    BY <1>1, <1>2, <2>1, Touched
  <2>3. Stops(c, a)
    BY <1>2, <1>3, <1>5, <2>1 DEF Stops, ClientRecord
  <2> QED
    BY <1>4, <2>1, <2>2, <2>3
<1>6. CASE HasBuffer(a) /\ s.link = "pipe"
  <2>1. clients' = clients /\ sockets' = sockets /\ doing' = doing /\ alive' = FALSE
    BY <1>6 DEF Write
  <2>2. Touches(c)
    BY <1>1, <2>1, Touched
  <2>3. Buffered(k, k)
    BY DEF Buffered, SameClient
  <2> QED
    BY <2>1, <2>2, <2>3
<1>7. CASE HasBuffer(a) /\ s.link = "reset"
  <2>1. /\ clients' = [clients EXCEPT ![c] = a] /\ sockets' = sockets
        /\ doing' = Stopping(c, TRUE) /\ alive' = alive
    BY <1>7 DEF Write
  <2> HIDE DEF a
  <2>2. Touches(c) /\ clients'[c] = a /\ sockets'[c] = s
    BY <1>1, <1>2, <2>1, Touched
  <2>3. Stops(c, a)
    BY <2>1 DEF Stops
  <2> QED
    BY <1>4, <2>1, <2>2, <2>3
<1>8. CASE HasBuffer(a) /\ s.link \notin {"pipe", "reset"}
  <2>1. /\ clients' = [clients EXCEPT ![c] = b]
        /\ sockets' = [sockets EXCEPT ![c] = t]
        /\ doing' = Checking(c, round) /\ alive' = alive
    BY <1>8 DEF Write
  <2>2. /\ ~ a.writeError /\ a.buffer \in Nat /\ a.buffer # 0 /\ a.sent \in {0, 1}
        /\ a.queue \in Seq(Nat) /\ a.posted \in Nat
    BY <1>2, <1>3, <1>8 DEF ClientRecord
  <2>3. /\ s.out \in Seq(Nat) /\ s.wire \in Seq(Nat) /\ Len(s.out) <= OutSize
        /\ OutSize \in Nat
    BY <1>1, SizeAssumption DEF Sent, SocketRecord
  <2> HIDE DEF a, s
  <2>4. n \in {0, 1, 2} /\ a.sent + n \in {0, 1, 2} /\ Len(s.out) + n <= OutSize
    <3>1. Len(s.out) \in Nat
      BY <2>3
    <3> QED
      BY <2>2, <2>3, <3>1, Fits
  <2> HIDE DEF n
  <2>5. b \in ClientRecord
    BY <1>2, <2>4 DEF ClientRecord
  <2>6. SameClient(b, a) /\ b.buffer = a.buffer /\ b.sent = a.sent + n /\ b.queue = a.queue
    BY <1>2 DEF ClientRecord, SameClient
  <2>7. /\ s.out \o f \in Seq(Nat) /\ Len(s.out \o f) = Len(s.out) + n
        /\ \A i \in 1 .. Len(s.out) : (s.out \o f)[i] = s.out[i]
        /\ \A i \in 1 .. n : (s.out \o f)[Len(s.out) + i] = f[i]
    <3>1. \A i \in 1 .. n : 2 * (a.buffer - 1) + a.sent + i \in Nat
      BY <2>2, <2>4
    <3>2. f \in Seq(Nat) /\ Len(f) = n
      BY <2>4, <3>1
    <3> HIDE DEF f
    <3> QED
      BY <2>3, <3>2, Appending
  <2>8. \A i \in 1 .. n : f[i] = 2 * (a.buffer - 1) + a.sent + i
    OBVIOUS
  <2> HIDE DEF f
  <2>9. t \in SocketRecord
    BY <1>1, <2>7 DEF SocketRecord, s
  <2>10. /\ t.out = s.out \o f /\ t.wire = s.wire /\ t.link = s.link /\ t.interest = s.interest
         /\ t.theirs = s.theirs /\ t.arrived = s.arrived /\ t.taken = s.taken
    BY <1>1 DEF SocketRecord, s
  <2> HIDE DEF b, t
  <2>11. Touches(c) /\ clients'[c] = b /\ sockets'[c] = t
    BY <2>1, <2>5, <2>9, <1>1, Touched
  <2>12. Queued(b) /\ (Pending(b) => Pending(a))
    BY <1>3, <2>2, <2>4, <2>6 DEF Queued, Pending, SameClient
  <2>13. Buffered(b, k)
    BY <1>2, <1>3, <2>6, <2>12 DEF Buffered, SameClient
  <2>14. a.buffer = a.posted - Len(a.queue) /\ Len(a.queue) \in Nat
    BY <1>3, <2>2 DEF Queued
  <2>15. Written(a) = 2 * (a.buffer - 1) + a.sent /\ Written(b) = Written(a) + n
    <3>1. Written(a) = 2 * a.buffer - (2 - a.sent)
      BY <2>2, <2>14 DEF Written
    <3>2. Written(b) = 2 * a.buffer - (2 - (a.sent + n))
      BY <2>2, <2>6, <2>14 DEF Written, SameClient
    <3> QED
      BY <2>2, <2>4, <3>1, <3>2
  <2>16. Len(s.wire) + Len(s.out) = Written(a)
    BY <1>4, <1>8 DEF Sent, s
  <2>17. ASSUME NEW i \in 1 .. Len(s.out) + n PROVE (s.out \o f)[i] = Len(s.wire) + i
    <3>1. Len(s.out) \in Nat /\ Len(s.wire) \in Nat /\ n \in Nat
      BY <2>3, <2>4
    <3>2. CASE i <= Len(s.out)
      <4>1. i \in DOMAIN s.out /\ i \in 1 .. Len(s.out)
        BY <2>3, <3>1, <3>2
      <4> QED
        BY <1>4, <2>7, <4>1 DEF Sent
    <3>3. CASE i > Len(s.out)
      <4> DEFINE j == i - Len(s.out)
      <4>1. j \in 1 .. n /\ Len(s.out) + j = i /\ j \in Nat
        BY <3>1, <3>3
      <4> HIDE DEF j
      <4>2. (s.out \o f)[i] = 2 * (a.buffer - 1) + a.sent + j
        BY <2>7, <2>8, <4>1
      <4>3. (s.out \o f)[i] = Len(s.wire) + Len(s.out) + j
        BY <2>15, <2>16, <4>2
      <4>4. Len(s.wire) + Len(s.out) + j = Len(s.wire) + (Len(s.out) + j)
        BY <3>1, <4>1, Grouped
      <4> QED
        BY <4>1, <4>3, <4>4
    <3>4. i <= Len(s.out) \/ i > Len(s.out)
      BY <3>1
    <3> QED
      BY <3>2, <3>3, <3>4
  <2>18. Len(t.out) = Len(s.out) + n /\ DOMAIN t.out = 1 .. Len(s.out) + n
    BY <2>7, <2>10
  <2>19. Sent(b, t)
    <3>1. \A i \in DOMAIN t.wire : t.wire[i] = i
      BY <1>4, <2>10 DEF Sent
    <3>2. Len(t.wire) + Len(t.out) = Written(b)
      <4>1. Len(s.wire) \in Nat /\ Len(s.out) \in Nat /\ n \in Nat
        BY <2>3, <2>4
      <4>2. Len(s.wire) + (Len(s.out) + n) = Len(s.wire) + Len(s.out) + n
        BY <4>1, Grouped
      <4> QED
        BY <2>10, <2>15, <2>16, <2>18, <4>2
    <3>3. \A i \in DOMAIN t.out : t.out[i] = Len(t.wire) + i
      BY <2>10, <2>17, <2>18
    <3> QED
      BY <2>4, <2>18, <3>1, <3>2, <3>3 DEF Sent
  <2> QED
    BY <2>1, <2>10, <2>11, <2>13, <2>19 DEF s
<1> QED
  BY <1>5, <1>6, <1>7, <1>8

LEMMA CheckEffect ==
    ASSUME Objects, NEW c \in Made, NEW round \in 0 .. Rounds, Check(c, round),
           Queued(clients[c]), Sent(clients[c], sockets[c])
    PROVE  /\ Touches(c) /\ Buffered(clients'[c], clients[c]) /\ sockets' = sockets
           /\ Sent(clients'[c], sockets'[c])
           /\ \/ doing' = Idle
              \/ Stops(c, clients'[c])
              \/ round + 1 \in 0 .. Rounds /\ doing' = Writing(c, round + 1)
<1> DEFINE k == clients[c]
           s == sockets[c]
           a == SendBuffer(k)
<1>1. made' = made /\ k \in ClientRecord /\ s \in SocketRecord
  BY Recorded DEF Check, managerVars
<1>2. a \in ClientRecord /\ SameClient(a, k)
  BY <1>1, SendBufferType
<1>3. /\ Queued(a) /\ Written(a) = Written(k)
      /\ ~ k.writeError /\ Pending(a) => Pending(k)
      /\ ~ HasBuffer(a) => a.writeError \/ ~ Pending(a)
  BY <1>1, SendBufferEnds
<1>4. /\ clients' = [clients EXCEPT ![c] = a] /\ sockets' = sockets
      /\ doing' = IF ~ HasBuffer(a) THEN Stopping(c, a.writeError)
                  ELSE IF round < Rounds THEN Writing(c, round + 1) ELSE Idle
  BY DEF Check
<1> HIDE DEF a
<1>5. Touches(c) /\ clients'[c] = a /\ sockets'[c] = s
  BY <1>1, <1>2, <1>4, Touched
<1>6. CASE ~ HasBuffer(a)
  <2>1. Stops(c, a)
    BY <1>2, <1>3, <1>4, <1>6 DEF Stops, ClientRecord
  <2> QED
    BY <1>2, <1>3, <1>4, <1>5, <2>1 DEF Buffered, Sent
<1>7. CASE HasBuffer(a)
  <2>1. doing' = Idle \/ (round + 1 \in 0 .. Rounds /\ doing' = Writing(c, round + 1))
    BY <1>4, <1>7, SizeAssumption
  <2> QED
    BY <1>2, <1>3, <1>4, <1>5, <2>1 DEF Buffered, Sent
<1> QED
  BY <1>6, <1>7

\* stopWriting, for client c and with that error.
WritingStopped(c, error) ==
    /\ doing = Stopping(c, error) /\ c \in known /\ error \in BOOLEAN /\ doing' = Idle
    /\ SameIdentity(clients'[c], clients[c]) /\ SameBuffers(clients'[c], clients[c])
    /\ clients'[c].readError = clients[c].readError /\ clients'[c].writeError = error
    /\ clients'[c].dead = (clients[c].dead \/ clients[c].readError)
    /\ SameTraffic(sockets'[c], sockets[c])
    /\ erase' = IF clients[c].readError THEN Erased(c) ELSE erase

LEMMA StopWritingEffect ==
    ASSUME Objects, Doing, NEW c \in Made, StopWriting(c)
    PROVE  Touches(c) /\ \E error \in BOOLEAN : WritingStopped(c, error)
<1> DEFINE k == clients[c]
           s == sockets[c]
           b == k.dead \/ k.readError
           i == IF k.readError THEN s.interest ELSE {"Read"}
           a == [k EXCEPT !.writeError = doing.error, !.dead = b]
           t == [s EXCEPT !.interest = i]
<1>1. made' = made /\ k \in ClientRecord /\ s \in SocketRecord
  BY Recorded DEF StopWriting, managerVars
<1>2. PICK error \in BOOLEAN : doing = Stopping(c, error) /\ c \in known
  <2>1. doing.at = "stop" /\ doing.client = c
    BY DEF StopWriting, Busy
  <2> QED
    BY <2>1, DoingFields DEF Doing
<1>3. doing.error = error
  BY <1>2, DoingFields
<1>4. /\ clients' = [clients EXCEPT ![c] = a]
      /\ sockets' = [sockets EXCEPT ![c] = t]
      /\ erase' = IF k.readError THEN Erased(c) ELSE erase
      /\ doing' = Idle
  BY DEF StopWriting
<1>5. b \in BOOLEAN /\ i \in SUBSET {"Read", "Write"}
  BY <1>1 DEF ClientRecord, SocketRecord
<1> HIDE DEF k, s, b, i
<1>6. /\ a \in ClientRecord /\ a.writeError = error /\ a.dead = b
      /\ SameIdentity(a, k) /\ SameBuffers(a, k) /\ a.readError = k.readError
  <2>1. a \in ClientRecord
    BY <1>1, <1>3, <1>5 DEF ClientRecord
  <2>2. /\ a.writeError = error /\ a.dead = b
        /\ SameIdentity(a, k) /\ SameBuffers(a, k) /\ a.readError = k.readError
    BY <1>1, <1>3, <1>5 DEF ClientRecord, SameIdentity, SameBuffers
  <2> QED
    BY <2>1, <2>2
<1>7. t \in SocketRecord /\ t.interest = i /\ SameTraffic(t, s)
  BY <1>1, <1>5 DEF SocketRecord, SameTraffic
<1> HIDE DEF a, t
<1>8. Touches(c) /\ clients'[c] = a /\ sockets'[c] = t
  BY <1>1, <1>4, <1>6, <1>7, Touched DEF k, s
<1>9. WritingStopped(c, error)
  BY <1>2, <1>4, <1>6, <1>7, <1>8 DEF WritingStopped, k, s, b
<1> QED
  BY <1>8, <1>9

-----------------------------------------------------------------------------
(* readEvent, stopReading and the end of an iteration.                      *)

LEMMA Halves ==
    ASSUME NEW t \in Nat
    PROVE  t \div 2 \in Nat /\ t % 2 \in {0, 1} /\ t = 2 * (t \div 2) + (t % 2)
  OBVIOUS

LEMMA SameBuffersKeep ==
    ASSUME NEW k, NEW a, SameBuffers(a, k)
    PROVE  /\ Queued(k) => Queued(a)
           /\ Written(a) = Written(k) /\ (Pending(a) <=> Pending(k))
           /\ \A s, t : SameTraffic(t, s) /\ Sent(k, s) => Sent(a, t)
<1>1. Queued(k) => Queued(a)
  BY DEF SameBuffers, Queued
<1>2. Written(a) = Written(k) /\ (Pending(a) <=> Pending(k))
  BY DEF SameBuffers, Written, Pending
<1>3. ASSUME NEW s, NEW t, SameTraffic(t, s), Sent(k, s) PROVE Sent(a, t)
  BY <1>2, <1>3 DEF SameTraffic, Sent
<1> QED
  BY <1>1, <1>2, <1>3

\* What stopReading does to client c, whose socket is s by then.
ReadingStopped(c, s) ==
    /\ SameIdentity(clients'[c], clients[c]) /\ clients'[c].posted = clients[c].posted
    /\ clients'[c].readError /\ clients'[c].writeError = clients[c].writeError
    /\ Queued(clients'[c]) /\ Written(clients'[c]) = Written(clients[c])
    /\ SameTraffic(sockets'[c], s)
    /\ \/ /\ clients'[c].dead = clients[c].dead /\ "Write" \in sockets'[c].interest
          /\ erase' = erase
       \/ clients'[c].dead /\ erase' = Erased(c)

LEMMA StopReadingEffect ==
    ASSUME Objects, made' = made, NEW c \in Made, NEW s \in SocketRecord, Queued(clients[c]),
           StopReading(c, clients[c], s)
    PROVE  Touches(c) /\ ReadingStopped(c, s)
<1> DEFINE k == clients[c]
           b == [k EXCEPT !.readError = TRUE]
           a == SendBuffer(b)
           d == [a EXCEPT !.dead = TRUE]
           t == [s EXCEPT !.interest = {"Write"}]
<1>1. k \in ClientRecord
  BY Recorded
<1>2. \/ /\ clients' = [clients EXCEPT ![c] = a] /\ sockets' = [sockets EXCEPT ![c] = t]
         /\ erase' = erase
      \/ /\ clients' = [clients EXCEPT ![c] = d] /\ sockets' = [sockets EXCEPT ![c] = s]
         /\ erase' = Erased(c)
  BY DEF StopReading
<1>3. /\ b \in ClientRecord /\ b.readError /\ SameIdentity(b, k) /\ SameBuffers(b, k)
      /\ b.dead = k.dead /\ b.writeError = k.writeError
  <2> HIDE DEF k
  <2>1. b \in ClientRecord
    BY <1>1 DEF ClientRecord
  <2>2. /\ b.readError /\ SameIdentity(b, k) /\ SameBuffers(b, k)
        /\ b.dead = k.dead /\ b.writeError = k.writeError
    BY <1>1 DEF ClientRecord, SameIdentity, SameBuffers
  <2> QED
    BY <2>1, <2>2
<1> HIDE DEF b
<1>4. a \in ClientRecord /\ SameClient(a, b)
  BY <1>3, SendBufferType
<1>5. Queued(b) /\ Written(b) = Written(k)
  BY <1>3, SameBuffersKeep
<1>6. Queued(a) /\ Written(a) = Written(b)
  BY <1>3, <1>5, SendBufferEnds
<1> HIDE DEF a
<1>7. /\ d \in ClientRecord /\ d.dead /\ SameIdentity(d, a) /\ SameBuffers(d, a)
      /\ d.readError = a.readError /\ d.writeError = a.writeError
  <2>1. d \in ClientRecord
    BY <1>4 DEF ClientRecord
  <2>2. /\ d.dead /\ SameIdentity(d, a) /\ SameBuffers(d, a)
        /\ d.readError = a.readError /\ d.writeError = a.writeError
    BY <1>4 DEF ClientRecord, SameIdentity, SameBuffers
  <2> QED
    BY <2>1, <2>2
<1>8. Queued(d) /\ Written(d) = Written(a)
  BY <1>6, <1>7, SameBuffersKeep
<1>9. t \in SocketRecord /\ "Write" \in t.interest /\ SameTraffic(t, s)
  BY DEF SocketRecord, SameTraffic
<1>10. SameTraffic(s, s)
  BY DEF SameTraffic
<1> HIDE DEF d, t
<1>11. CASE /\ clients' = [clients EXCEPT ![c] = a] /\ sockets' = [sockets EXCEPT ![c] = t]
            /\ erase' = erase
  <2>1. Touches(c) /\ clients'[c] = a /\ sockets'[c] = t
    BY <1>4, <1>9, <1>11, Touched
  <2> QED
    BY <1>3, <1>4, <1>5, <1>6, <1>9, <1>11, <2>1
    DEF ReadingStopped, SameIdentity, SameClient, SameBuffers
<1>12. CASE /\ clients' = [clients EXCEPT ![c] = d] /\ sockets' = [sockets EXCEPT ![c] = s]
            /\ erase' = Erased(c)
  <2>1. Touches(c) /\ clients'[c] = d /\ sockets'[c] = s
    BY <1>7, <1>12, Touched
  <2> QED
    BY <1>3, <1>4, <1>5, <1>6, <1>7, <1>8, <1>10, <1>12, <2>1
    DEF ReadingStopped, SameIdentity, SameClient, SameBuffers
<1> QED
  BY <1>2, <1>11, <1>12

\* A read can take the error of an RST, and leaves the rest of the link's state.
Stays(after, before) == after = before \/ (before = "reset" /\ after = "pipe")

\* The socket of c, but for what the process has read of it.
Reads(c) ==
    /\ Stays(sockets'[c].link, sockets[c].link) /\ sockets'[c].theirs = sockets[c].theirs
    /\ sockets'[c].arrived = sockets[c].arrived
    /\ sockets'[c].out = sockets[c].out /\ sockets'[c].wire = sockets[c].wire
    /\ sockets'[c].taken \in sockets[c].taken .. sockets[c].arrived

\* readEvent reads the rest of a packet...
ReadsPacket(c, n) ==
    /\ clients' = clients /\ erase' = erase /\ sockets'[c].interest = sockets[c].interest
    /\ sockets[c].taken < 2 * n /\ 2 * n - 2 <= sockets[c].taken /\ sockets'[c].taken = 2 * n
    /\ Receive(c, n, sockets[c].theirs[n])

\* ... or what there is, which is less.
ReadsLess(c) ==
    /\ clients' = clients /\ erase' = erase /\ sockets'[c].interest = sockets[c].interest
    /\ \A m \in Nat : 2 * m <= sockets'[c].taken => 2 * m <= sockets[c].taken
    /\ doing' = Idle /\ pipe' = pipe /\ events' = events

LEMMA EndedLink ==
    ASSUME NEW s \in SocketRecord, NEW t \in Ended(s)
    PROVE  \E link \in Link : /\ t = [s EXCEPT !.taken = s.arrived, !.link = link]
                              /\ Stays(link, s.link)
<1>1. s.link \in Link
  BY DEF SocketRecord
<1> QED
  BY <1>1 DEF Ended, Stays, Link

LEMMA ReadEffect ==
    ASSUME Objects, NEW c \in Made, NEW round \in 0 .. Rounds, Read(c, round),
           Queued(clients[c]), Counted(sockets[c])
    PROVE  /\ Touches(c) /\ Reads(c)
           /\ \/ /\ \E s \in SocketRecord : ReadingStopped(c, s)
                 /\ doing' = Idle /\ pipe' = pipe /\ events' = events
              \/ /\ \E n \in Nat : ReadsPacket(c, n)
                 /\ \/ doing' = Idle
                    \/ round + 1 \in 0 .. Rounds /\ doing' = Reading(c, round + 1)
              \/ ReadsLess(c)
<1> DEFINE s == sockets[c]
           k == clients[c]
           n == s.taken \div 2 + 1
           missing == 2 - (s.taken % 2)
           rest(x) == [s EXCEPT !.taken = x]
<1>1. made' = made /\ k \in ClientRecord /\ s \in SocketRecord
  BY Recorded DEF Read, managerVars
<1>2. s.taken \in Nat /\ s.arrived \in Nat /\ s.taken <= s.arrived
  BY <1>1 DEF SocketRecord, Counted
<1>3. n \in Nat /\ s.taken < 2 * n /\ 2 * n - 2 <= s.taken /\ s.taken + missing = 2 * n
  BY <1>2, Halves
<1>4. ASSUME NEW x \in s.taken .. s.arrived, NEW t, t = rest(x)
      PROVE  /\ t \in SocketRecord /\ t.taken = x /\ t.interest = s.interest
             /\ t.link = s.link /\ t.theirs = s.theirs /\ t.arrived = s.arrived
             /\ t.out = s.out /\ t.wire = s.wire
  <2>1. x \in Nat /\ s \in SocketRecord
    BY <1>1, <1>2
  <2> HIDE DEF s
  <2>2. t \in SocketRecord
    BY <1>4, <2>1 DEF SocketRecord
  <2>3. /\ t.taken = x /\ t.interest = s.interest
        /\ t.link = s.link /\ t.theirs = s.theirs /\ t.arrived = s.arrived
        /\ t.out = s.out /\ t.wire = s.wire
    BY <1>4, <2>1 DEF SocketRecord
  <2> QED
    BY <2>2, <2>3
<1>5. ASSUME NEW t \in SocketRecord, t.taken \in s.taken .. s.arrived, Stays(t.link, s.link),
             t.theirs = s.theirs, t.arrived = s.arrived, t.out = s.out, t.wire = s.wire,
             StopReading(c, k, t), doing' = Idle, pipe' = pipe, events' = events
      PROVE  /\ Touches(c) /\ Reads(c) /\ \E u \in SocketRecord : ReadingStopped(c, u)
             /\ doing' = Idle /\ pipe' = pipe /\ events' = events
  <2>1. Touches(c) /\ ReadingStopped(c, t)
    BY <1>1, <1>5, StopReadingEffect
  <2>2. Reads(c)
    BY <1>5, <2>1 DEF Reads, ReadingStopped, SameTraffic
  <2> QED
    BY <1>5, <2>1, <2>2
<1>6. ASSUME NEW x \in s.taken .. s.arrived, sockets' = [sockets EXCEPT ![c] = rest(x)],
             clients' = clients
      PROVE  /\ Touches(c) /\ Reads(c) /\ sockets'[c].taken = x
             /\ sockets'[c].interest = s.interest
  <2> DEFINE t == rest(x)
  <2>1. /\ t \in SocketRecord /\ t.taken = x /\ t.interest = s.interest
        /\ t.link = s.link /\ t.theirs = s.theirs /\ t.arrived = s.arrived
        /\ t.out = s.out /\ t.wire = s.wire
    BY <1>4
  <2> HIDE DEF t
  <2>2. Touches(c) /\ sockets'[c] = t
    BY <1>1, <1>6, <2>1, Touched DEF t
  <2> QED
    BY <2>1, <2>2 DEF Reads, Stays
<1>7. \/ /\ Unread(s) > 0 /\ StopReading(c, k, rest(s.taken + 1))
         /\ doing' = Idle /\ pipe' = pipe /\ events' = events
      \/ /\ Unread(s) >= missing /\ Receive(c, n, s.theirs[n])
         /\ sockets' = [sockets EXCEPT ![c] = rest(2 * n)]
         /\ doing' = IF round < Rounds THEN Reading(c, round + 1) ELSE Idle
         /\ clients' = clients /\ erase' = erase
      \/ /\ Unread(s) < missing
         /\ \/ \E t \in Ended(s) : StopReading(c, k, t)
            \/ /\ sockets' = [sockets EXCEPT ![c] = rest(s.arrived)]
               /\ clients' = clients /\ erase' = erase
         /\ doing' = Idle /\ pipe' = pipe /\ events' = events
  BY DEF Read
<1> HIDE DEF rest
<1>8. CASE /\ Unread(s) > 0 /\ StopReading(c, k, rest(s.taken + 1))
           /\ doing' = Idle /\ pipe' = pipe /\ events' = events
  <2>1. s.taken + 1 \in s.taken .. s.arrived
    BY <1>2, <1>8 DEF Unread
  <2> DEFINE t == rest(s.taken + 1)
  <2>2. /\ t \in SocketRecord /\ t.taken \in s.taken .. s.arrived /\ Stays(t.link, s.link)
        /\ t.theirs = s.theirs /\ t.arrived = s.arrived /\ t.out = s.out /\ t.wire = s.wire
    BY <1>4, <2>1 DEF Stays
  <2> HIDE DEF s, k
  <2> QED
    BY <1>5, <1>8, <2>2
<1>9. CASE /\ Unread(s) >= missing /\ Receive(c, n, s.theirs[n])
           /\ sockets' = [sockets EXCEPT ![c] = rest(2 * n)]
           /\ doing' = IF round < Rounds THEN Reading(c, round + 1) ELSE Idle
           /\ clients' = clients /\ erase' = erase
  <2>1. 2 * n \in s.taken .. s.arrived
    <3> HIDE DEF n
    <3>1. s.taken + missing <= s.arrived /\ s.taken <= s.taken + missing
      BY <1>2, <1>9, Halves DEF Unread
    <3> QED
      BY <1>2, <1>3, <3>1
  <2> HIDE DEF n
  <2>2. /\ Touches(c) /\ Reads(c) /\ sockets'[c].taken = 2 * n
        /\ sockets'[c].interest = s.interest
    BY <1>6, <1>9, <2>1
  <2>3. ReadsPacket(c, n)
    BY <1>3, <1>9, <2>2 DEF ReadsPacket
  <2>4. doing' = Idle \/ (round + 1 \in 0 .. Rounds /\ doing' = Reading(c, round + 1))
    BY <1>9, SizeAssumption
  <2> QED
    BY <1>3, <2>2, <2>3, <2>4
<1>10. CASE /\ Unread(s) < missing
            /\ \/ \E t \in Ended(s) : StopReading(c, k, t)
               \/ /\ sockets' = [sockets EXCEPT ![c] = rest(s.arrived)]
                  /\ clients' = clients /\ erase' = erase
            /\ doing' = Idle /\ pipe' = pipe /\ events' = events
  <2>1. s.arrived \in s.taken .. s.arrived
    BY <1>2
  <2>2. ASSUME sockets' = [sockets EXCEPT ![c] = rest(s.arrived)], clients' = clients,
               erase' = erase
        PROVE  Touches(c) /\ Reads(c) /\ ReadsLess(c)
    <3>1. /\ Touches(c) /\ Reads(c) /\ sockets'[c].taken = s.arrived
          /\ sockets'[c].interest = s.interest
      BY <1>6, <2>1, <2>2
    <3>2. s.arrived < 2 * n
      <4> HIDE DEF n
      <4>1. s.arrived < s.taken + missing
        BY <1>2, <1>10, Halves DEF Unread
      <4> QED
        BY <1>2, <1>3, <4>1
    <3> HIDE DEF n
    <3>3. ASSUME NEW m \in Nat, 2 * m <= s.arrived PROVE 2 * m <= s.taken
      BY <1>2, <1>3, <3>2, <3>3
    <3> QED
      BY <1>10, <2>2, <3>1, <3>3 DEF ReadsLess
  <2>3. ASSUME NEW t \in Ended(s)
        PROVE  /\ t \in SocketRecord /\ t.taken \in s.taken .. s.arrived /\ Stays(t.link, s.link)
               /\ t.theirs = s.theirs /\ t.arrived = s.arrived /\ t.out = s.out /\ t.wire = s.wire
    <3>1. PICK link \in Link : /\ t = [s EXCEPT !.taken = s.arrived, !.link = link]
                               /\ Stays(link, s.link)
      BY <1>1, <2>3, EndedLink
    <3> DEFINE a == s.arrived
    <3>2. a \in Nat /\ s \in SocketRecord
      BY <1>1, <1>2
    <3> HIDE DEF s, a
    <3>3. t = [s EXCEPT !.taken = a, !.link = link] => /\ t \in SocketRecord
              /\ t.taken = a /\ t.link = link
              /\ t.theirs = s.theirs /\ t.arrived = s.arrived /\ t.out = s.out /\ t.wire = s.wire
      BY <3>2 DEF SocketRecord
    <3> QED
      BY <2>1, <3>1, <3>3 DEF a
  <2> QED
    BY <1>5, <1>10, <2>2, <2>3
<1> QED
  BY <1>7, <1>8, <1>9, <1>10

-----------------------------------------------------------------------------
(* The end of an iteration, sendTo, the kernel and select->wait.            *)

\* Client c is closed and forgotten.
Erases(c) ==
    /\ doing.at = "idle" /\ batch = {} /\ batch' = batch /\ doing' = doing
    /\ erase # <<>> /\ c = Head(erase) /\ erase' = Tail(erase) /\ known' = known \ {c}
    /\ clients' = clients
    /\ sockets'[c].link = "gone" /\ sockets'[c].theirs = sockets[c].theirs
    /\ sockets'[c].arrived = 0 /\ sockets'[c].taken = 0
    /\ sockets'[c].out = <<>> /\ sockets'[c].wire = <<>>
    /\ events' = IF events[c] # <<>> THEN [events EXCEPT ![c] = Append(@, DisconnectedEvent)]
                 ELSE events
    /\ UNCHANGED <<planned, attempts, told, backlog, incoming, pipe, sender, alive>>

LEMMA EraseEffect ==
    ASSUME Objects, erase \in Seq(Made), Erase
    PROVE  \E c \in Made : Touches(c) /\ Erases(c)
<1> DEFINE c == Head(erase)
           s == sockets[c]
           g == NewSocket("gone", {})
           t == [g EXCEPT !.theirs = s.theirs]
<1>1. c \in Made
  BY TailAt DEF Erase
<1>2. made' = made /\ clients' = clients /\ sockets' = [sockets EXCEPT ![c] = t]
  BY DEF Erase
<1> HIDE DEF c
<1>3. clients[c] \in ClientRecord /\ s \in SocketRecord
  BY <1>1, Recorded
<1>4. /\ g \in SocketRecord /\ g.link = "gone" /\ g.arrived = 0 /\ g.taken = 0
      /\ g.out = <<>> /\ g.wire = <<>>
  BY NewTypes DEF Link, NewSocket
<1> HIDE DEF g, s
<1>5. t \in SocketRecord
  BY <1>3, <1>4 DEF SocketRecord
<1>6. /\ t.link = "gone" /\ t.arrived = 0 /\ t.taken = 0 /\ t.out = <<>> /\ t.wire = <<>>
      /\ t.theirs = s.theirs
  BY <1>3, <1>4 DEF SocketRecord
<1> HIDE DEF t
<1>7. Touches(c) /\ sockets'[c] = t
  BY <1>1, <1>2, <1>3, <1>5, Touched
<1>8. Erases(c)
  BY <1>2, <1>6, <1>7 DEF Erases, Erase, Busy, Introduced, Appended, managerVars, kernelVars, c, s
<1> QED
  BY <1>1, <1>7, <1>8

LEMMA AttachEffect ==
    ASSUME Objects, NEW c \in Made, Attach(c)
    PROVE  /\ Touches(c) /\ sockets' = sockets
           /\ SameIdentity(clients'[c], clients[c]) /\ SameFlags(clients'[c], clients[c])
           /\ clients'[c].posted = clients[c].posted + 1
           /\ clients'[c].queue = Append(clients[c].queue, clients[c].posted + 1)
           /\ clients'[c].buffer = clients[c].buffer /\ clients'[c].sent = clients[c].sent
<1> DEFINE k == clients[c]
           a == Attached(k)
<1>1. made' = made /\ k \in ClientRecord /\ sockets[c] \in SocketRecord
  BY Recorded DEF Attach, managerVars
<1>2. clients' = [clients EXCEPT ![c] = a] /\ sockets' = sockets
  BY DEF Attach
<1>3. /\ a \in ClientRecord /\ SameIdentity(a, k) /\ SameFlags(a, k)
      /\ a.posted = k.posted + 1 /\ a.queue = Append(k.queue, k.posted + 1)
      /\ a.buffer = k.buffer /\ a.sent = k.sent
  BY <1>1, AttachedFields
<1> HIDE DEF a
<1>4. Touches(c) /\ clients'[c] = a
  BY <1>1, <1>2, <1>3, Touched
<1> QED
  BY <1>2, <1>3, <1>4

\* Socket t is s, and perhaps more of the other node's packets.
Advances(t, s) ==
    /\ t \in SocketRecord /\ t.link # "gone" /\ t.interest = s.interest /\ t.taken = s.taken
    /\ Len(s.theirs) <= Len(t.theirs)
    /\ \A i \in DOMAIN s.theirs : t.theirs[i] = s.theirs[i]
    /\ Counted(s) => Counted(t)
    /\ \A k : Sent(k, s) => Sent(k, t)

\* The kernel writes a socket, and nothing else happens.
KernelOnly ==
    UNCHANGED <<clients, managerVars, kernelVars, pipe, sender, batch, doing, erase, events, alive>>

LEMMA LinkAdvances ==
    ASSUME NEW s \in SocketRecord, NEW link \in Link,
           \/ s.link = "connecting" /\ link \in {"open", "refused"}
           \/ s.link = "open" /\ link = "finished"
    PROVE  Advances([s EXCEPT !.link = link], s)
<1> DEFINE t == [s EXCEPT !.link = link]
<1>1. /\ t \in SocketRecord /\ t.link = link /\ t.interest = s.interest
      /\ t.theirs = s.theirs /\ t.arrived = s.arrived /\ t.taken = s.taken
      /\ t.out = s.out /\ t.wire = s.wire
  BY SocketTypes
<1> HIDE DEF t
<1>2. s.theirs \in Seq(Kind \cup {"handshake"})
  BY DEF SocketRecord
<1>3. Counted(s) => Counted(t)
  BY <1>1 DEF Counted
<1>4. \A k : Sent(k, s) => Sent(k, t)
  BY <1>1 DEF Sent
<1>5. Len(s.theirs) <= Len(t.theirs)
  BY <1>1, <1>2
<1>6. Advances(t, s)
  BY <1>1, <1>3, <1>4, <1>5 DEF Advances
<1> QED
  BY <1>6 DEF t

LEMMA Parity ==
    ASSUME NEW n \in Nat, NEW a \in Nat, a \in {2 * n - 1, 2 * n}
    PROVE  a % 2 = 1 <=> a = 2 * n - 1
<1>1. a \div 2 \in Nat /\ a % 2 \in {0, 1} /\ a = 2 * (a \div 2) + (a % 2)
  BY Halves
<1> DEFINE h == a \div 2
           r == a % 2
<1> HIDE DEF h, r
<1>2. h \in Nat /\ r \in {0, 1} /\ a = 2 * h + r
  BY <1>1 DEF h, r
<1>3. CASE r = 0
  BY <1>2, <1>3 DEF r
<1>4. CASE r = 1
  BY <1>2, <1>4 DEF r
<1> QED
  BY <1>2, <1>3, <1>4

LEMMA Numerals ==
    ASSUME NEW s \in SocketRecord
    PROVE  /\ s.theirs \in Seq(Kind \cup {"handshake"}) /\ s.arrived \in Nat /\ s.taken \in Nat
           /\ DOMAIN s.theirs = 1 .. Len(s.theirs) /\ Len(s.theirs) \in Nat
<1>1. s.theirs \in Seq(Kind \cup {"handshake"}) /\ s.arrived \in Nat /\ s.taken \in Nat
  BY DEF SocketRecord
<1> QED
  BY <1>1

\* A header was there; the payload arrives.
LEMMA PayloadAdvances ==
    ASSUME NEW s \in SocketRecord, s.link = "open", s.arrived < 2 * MaxTheirs, s.arrived % 2 = 1
    PROVE  Advances([s EXCEPT !.arrived = s.arrived + 1], s)
<1> DEFINE t == [s EXCEPT !.arrived = s.arrived + 1]
           n == Len(s.theirs)
           a == s.arrived
<1>1. s.arrived \in Nat /\ s.taken \in Nat /\ n \in Nat
  BY Numerals
<1>2. t \in SocketRecord
  BY <1>1 DEF SocketRecord
<1>3. /\ t.arrived = a + 1 /\ t.link = s.link /\ t.interest = s.interest
      /\ t.theirs = s.theirs /\ t.taken = s.taken /\ t.out = s.out /\ t.wire = s.wire
  BY DEF SocketRecord
<1> HIDE DEF t
<1>4. \A k : Sent(k, s) => Sent(k, t)
  BY <1>3 DEF Sent
<1>5. ASSUME Counted(s) PROVE Counted(t)
  <2>1. /\ s.taken <= s.arrived /\ a \in {2 * n - 1, 2 * n}
        /\ \A i \in DOMAIN s.theirs : s.theirs[i] = "handshake" <=> i = 1
    BY <1>5 DEF Counted
  <2>2. a = 2 * n - 1
    BY <1>1, <2>1, Parity
  <2>3. a + 1 <= 2 * MaxTheirs /\ a + 1 = 2 * n /\ s.taken <= a + 1
    BY <1>1, <2>1, <2>2, BoundAssumption
  <2> QED
    BY <1>3, <2>1, <2>3 DEF Counted
<1>6. Len(s.theirs) <= Len(t.theirs)
  BY <1>1, <1>3
<1>7. Advances(t, s)
  BY <1>2, <1>3, <1>4, <1>5, <1>6 DEF Advances
<1> QED
  BY <1>7 DEF t

\* The header of another packet arrives.
LEMMA HeaderAdvances ==
    ASSUME NEW s \in SocketRecord, s.link = "open", s.arrived < 2 * MaxTheirs, s.arrived % 2 # 1,
           Counted(s), NEW kind \in Kind \cup {"handshake"}, kind = "handshake" <=> s.arrived = 0
    PROVE  Advances([s EXCEPT !.arrived = s.arrived + 1, !.theirs = Append(s.theirs, kind)], s)
<1> DEFINE q == Append(s.theirs, kind)
           t == [s EXCEPT !.arrived = s.arrived + 1, !.theirs = q]
           n == Len(s.theirs)
           a == s.arrived
<1>1. /\ s.theirs \in Seq(Kind \cup {"handshake"}) /\ a \in Nat /\ s.taken \in Nat
      /\ DOMAIN s.theirs = 1 .. n /\ n \in Nat
  BY Numerals
<1>2. /\ s.taken <= a /\ a \in {2 * n - 1, 2 * n}
      /\ \A i \in DOMAIN s.theirs : s.theirs[i] = "handshake" <=> i = 1
  BY DEF Counted
<1>3. /\ q \in Seq(Kind \cup {"handshake"}) /\ Len(q) = n + 1 /\ DOMAIN q = 1 .. n + 1
      /\ \A j \in 1 .. n : q[j] = s.theirs[j]
      /\ q[n + 1] = kind
  BY <1>1, AppendAt
<1>4. a = 2 * n
  BY <1>1, <1>2, Parity
<1> HIDE DEF q
<1>5. t \in SocketRecord
  <2>1. s.arrived + 1 \in Nat
    BY <1>1
  <2> HIDE DEF a, n
  <2> QED
    BY <1>3, <2>1 DEF SocketRecord
<1>6. /\ t.arrived = a + 1 /\ t.link = s.link /\ t.interest = s.interest
      /\ t.theirs = q /\ t.taken = s.taken /\ t.out = s.out /\ t.wire = s.wire
  BY DEF SocketRecord
<1> HIDE DEF t, n, a
<1>7. ASSUME NEW i \in 1 .. n + 1 PROVE q[i] = "handshake" <=> i = 1
  <2>1. CASE i = n + 1
    <3>1. kind = "handshake" <=> n = 0
      BY <1>1, <1>4 DEF a
    <3> QED
      BY <1>1, <1>3, <2>1, <3>1
  <2>2. CASE i # n + 1
    <3>1. i \in 1 .. n
      BY <1>1, <2>2
    <3> QED
      BY <1>1, <1>2, <1>3, <3>1
  <2> QED
    BY <2>1, <2>2
<1>8. Counted(t)
  <2>1. /\ a + 1 <= 2 * MaxTheirs /\ a + 1 <= 2 * (n + 1) /\ s.taken <= a + 1
        /\ a + 1 = 2 * (n + 1) - 1
    BY <1>1, <1>2, <1>4, BoundAssumption DEF a
  <2>2. \A i \in DOMAIN t.theirs : t.theirs[i] = "handshake" <=> i = 1
    BY <1>3, <1>6, <1>7
  <2> QED
    BY <1>3, <1>6, <2>1, <2>2 DEF Counted
<1>9. \A k : Sent(k, s) => Sent(k, t)
  BY <1>6 DEF Sent
<1>10. Len(s.theirs) <= Len(t.theirs) /\ \A i \in DOMAIN s.theirs : t.theirs[i] = s.theirs[i]
  BY <1>1, <1>3, <1>6 DEF n
<1>11. Advances(t, s)
  BY <1>5, <1>6, <1>8, <1>9, <1>10 DEF Advances
<1> QED
  BY <1>11 DEF t, q

LEMMA Shifted ==
    ASSUME NEW x \in Nat, NEW y \in Nat
    PROVE  /\ x + (y + 1) = x + 1 + y /\ (x + 1) + (y - 1) = x + y
           /\ \A z \in Nat : y <= z => y - 1 <= z
  OBVIOUS

LEMMA TransmitAdvances ==
    ASSUME NEW s \in SocketRecord, s.out # <<>>, NEW t,
           \/ /\ s.link \in {"open", "finished"}
              /\ t = [s EXCEPT !.out = Tail(@), !.wire = Append(@, Head(s.out))]
           \/ s.link = "finished" /\ t = [s EXCEPT !.out = <<>>, !.link = "pipe"]
    PROVE  Advances(t, s)
<1>1. /\ s.out \in Seq(Nat) /\ s.wire \in Seq(Nat) /\ <<>> \in Seq(Nat)
      /\ s.theirs \in Seq(Kind \cup {"handshake"})
  BY DEF SocketRecord
<1>2. CASE /\ s.link \in {"open", "finished"}
           /\ t = [s EXCEPT !.out = Tail(@), !.wire = Append(@, Head(s.out))]
  <2> DEFINE q == Tail(s.out)
             w == Append(s.wire, Head(s.out))
  <2>1. /\ q \in Seq(Nat) /\ Len(q) = Len(s.out) - 1 /\ Len(s.out) \in Nat \ {0}
        /\ Head(s.out) \in Nat /\ Head(s.out) = s.out[1] /\ DOMAIN q = 1 .. Len(s.out) - 1
        /\ \A j \in 1 .. Len(s.out) - 1 : q[j] = s.out[j + 1]
    BY <1>1, TailAt
  <2>2. /\ w \in Seq(Nat) /\ Len(w) = Len(s.wire) + 1 /\ DOMAIN w = 1 .. Len(s.wire) + 1
        /\ \A j \in 1 .. Len(s.wire) : w[j] = s.wire[j]
        /\ w[Len(s.wire) + 1] = Head(s.out) /\ Len(s.wire) \in Nat
    <3>1. Head(s.out) \in Nat
      BY <2>1
    <3> QED
      BY <1>1, <3>1, AppendAt
  <2>3. t = [s EXCEPT !.out = q, !.wire = w]
    BY <1>2
  <2> HIDE DEF q, w
  <2>4. t \in SocketRecord
    BY <2>1, <2>2, <2>3 DEF SocketRecord
  <2>5. /\ t.arrived = s.arrived /\ t.link = s.link /\ t.interest = s.interest
        /\ t.theirs = s.theirs /\ t.taken = s.taken /\ t.out = q /\ t.wire = w
    BY <2>3 DEF SocketRecord
  <2>6. ASSUME NEW k, Sent(k, s) PROVE Sent(k, t)
    <3>1. ASSUME NEW i \in 1 .. Len(s.wire) + 1 PROVE w[i] = i
      <4>1. CASE i = Len(s.wire) + 1
        <5>1. 1 \in DOMAIN s.out
          BY <1>1, <2>1
        <5> QED
          BY <2>1, <2>2, <2>6, <4>1, <5>1 DEF Sent
      <4>2. CASE i # Len(s.wire) + 1
        <5>1. i \in 1 .. Len(s.wire) /\ i \in DOMAIN s.wire
          BY <1>1, <2>2, <4>2
        <5> QED
          BY <2>2, <2>6, <5>1 DEF Sent
      <4> QED
        BY <4>1, <4>2
    <3>2. ASSUME NEW i \in 1 .. Len(s.out) - 1 PROVE q[i] = Len(s.wire) + 1 + i
      <4>1. i + 1 \in DOMAIN s.out /\ i \in Nat
        BY <1>1, <2>1
      <4>2. q[i] = Len(s.wire) + (i + 1)
        BY <2>1, <2>6, <4>1 DEF Sent
      <4>3. Len(s.wire) + (i + 1) = Len(s.wire) + 1 + i
        BY <2>2, <4>1, Shifted
      <4> QED
        BY <4>2, <4>3
    <3>3. Len(q) <= OutSize /\ Len(w) + Len(q) = Len(s.wire) + Len(s.out)
      <4>1. Len(s.out) <= OutSize /\ Len(s.out) \in Nat /\ Len(s.wire) \in Nat /\ OutSize \in Nat
        BY <2>1, <2>2, <2>6, SizeAssumption DEF Sent
      <4>2. /\ (Len(s.wire) + 1) + (Len(s.out) - 1) = Len(s.wire) + Len(s.out)
            /\ Len(s.out) - 1 <= OutSize
        BY <4>1, Shifted
      <4> QED
        BY <2>1, <2>2, <4>2
    <3> QED
      BY <2>1, <2>2, <2>5, <2>6, <3>1, <3>2, <3>3 DEF Sent
  <2>7. Counted(s) => Counted(t)
    BY <2>5 DEF Counted
  <2>8. Len(s.theirs) <= Len(t.theirs)
    BY <1>1, <2>5
  <2> QED
    BY <1>2, <2>4, <2>5, <2>6, <2>7, <2>8 DEF Advances
<1>3. CASE s.link = "finished" /\ t = [s EXCEPT !.out = <<>>, !.link = "pipe"]
  <2>1. t \in SocketRecord
    BY <1>1, <1>3 DEF SocketRecord, Link
  <2>2. /\ t.arrived = s.arrived /\ t.link = "pipe" /\ t.interest = s.interest
        /\ t.theirs = s.theirs /\ t.taken = s.taken /\ t.out = <<>> /\ t.wire = s.wire
    BY <1>3 DEF SocketRecord
  <2>3. \A k : Sent(k, s) => Sent(k, t)
    BY <2>2, SizeAssumption DEF Sent
  <2>4. Counted(s) => Counted(t)
    BY <2>2 DEF Counted
  <2>5. Len(s.theirs) <= Len(t.theirs)
    BY <1>1, <2>2
  <2> QED
    BY <2>1, <2>2, <2>3, <2>4, <2>5 DEF Advances
<1> QED
  BY <1>2, <1>3

LEMMA ResetAdvances ==
    ASSUME NEW s \in SocketRecord, s.link = "open", Counted(s), NEW arrived \in {s.taken, s.arrived}
    PROVE  Advances([s EXCEPT !.link = "reset", !.out = <<>>, !.arrived = arrived], s)
<1> DEFINE t == [s EXCEPT !.link = "reset", !.out = <<>>, !.arrived = arrived]
<1>1. /\ s.theirs \in Seq(Kind \cup {"handshake"}) /\ <<>> \in Seq(Nat)
      /\ s.arrived \in Nat /\ s.taken \in Nat /\ arrived \in Nat
  BY DEF SocketRecord
<1>2. t \in SocketRecord
  BY <1>1 DEF SocketRecord, Link
<1>3. /\ t.arrived = arrived /\ t.link = "reset" /\ t.interest = s.interest
      /\ t.theirs = s.theirs /\ t.taken = s.taken /\ t.out = <<>> /\ t.wire = s.wire
  BY DEF SocketRecord
<1> HIDE DEF t
<1>4. Counted(t)
  <2>1. /\ s.taken <= s.arrived /\ s.arrived <= 2 * MaxTheirs /\ s.arrived <= 2 * Len(s.theirs)
        /\ \A i \in DOMAIN s.theirs : s.theirs[i] = "handshake" <=> i = 1
    BY DEF Counted
  <2>2. Len(s.theirs) \in Nat
    BY <1>1
  <2>3. t.taken <= t.arrived /\ t.arrived <= 2 * MaxTheirs /\ t.arrived <= 2 * Len(t.theirs)
    BY <1>1, <1>3, <2>1, <2>2, BoundAssumption
  <2> QED
    BY <1>3, <2>1, <2>3 DEF Counted
<1>5. \A k : Sent(k, s) => Sent(k, t)
  BY <1>3, SizeAssumption DEF Sent
<1>6. Len(s.theirs) <= Len(t.theirs)
  BY <1>1, <1>3
<1>7. Advances(t, s)
  BY <1>2, <1>3, <1>4, <1>5, <1>6 DEF Advances
<1> QED
  BY <1>7 DEF t

LEMMA KernelEffect ==
    ASSUME Objects, NEW c \in Made, Counted(sockets[c]), Kernel(c)
    PROVE  /\ Touches(c) /\ Advances(sockets'[c], sockets[c])
           /\ KernelOnly
<1> DEFINE s == sockets[c]
<1>1. clients[c] \in ClientRecord /\ s \in SocketRecord
  BY Recorded
<1>2. ASSUME NEW t, Changes(c, t), Advances(t, s)
      PROVE  /\ Touches(c) /\ Advances(sockets'[c], sockets[c])
             /\ KernelOnly
  <2>1. /\ sockets' = [sockets EXCEPT ![c] = t]
        /\ KernelOnly
    BY <1>2 DEF Changes, KernelOnly
  <2>2. t \in SocketRecord /\ made' = made /\ clients' = clients
    BY <1>2, <2>1 DEF Advances, KernelOnly, managerVars
  <2>3. Touches(c) /\ sockets'[c] = t
    BY <1>1, <2>1, <2>2, Touched
  <2> QED
    BY <1>2, <2>1, <2>3
<1> HIDE DEF s
<1>3. CASE Establish(c)
  <2>1. PICK link \in {"open", "refused"} : Changes(c, [s EXCEPT !.link = link])
    BY <1>3 DEF Establish, s
  <2>2. s.link = "connecting" /\ link \in Link
    BY <1>3 DEF Establish, s, Link
  <2>3. Advances([s EXCEPT !.link = link], s)
    BY <1>1, <2>2, LinkAdvances
  <2> QED
    BY <1>2, <2>1, <2>3
<1>4. CASE Arrive(c)
  <2>1. s.link = "open" /\ s.arrived < 2 * MaxTheirs
    BY <1>4 DEF Arrive, s
  <2>2. CASE s.arrived % 2 = 1
    <3>1. Changes(c, [s EXCEPT !.arrived = s.arrived + 1])
      BY <1>4, <2>2 DEF Arrive, s
    <3>2. Advances([s EXCEPT !.arrived = s.arrived + 1], s)
      BY <1>1, <2>1, <2>2, PayloadAdvances
    <3> QED
      BY <1>2, <3>1, <3>2
  <2>3. CASE s.arrived % 2 # 1
    <3>1. PICK kind \in IF s.arrived = 0 THEN {"handshake"} ELSE Kind :
              Changes(c, [s EXCEPT !.arrived = s.arrived + 1, !.theirs = Append(s.theirs, kind)])
      BY <1>4, <2>3 DEF Arrive, s
    <3>2. kind \in Kind \cup {"handshake"} /\ (kind = "handshake" <=> s.arrived = 0)
      BY <3>1, KindAssumption
    <3>3. Advances([s EXCEPT !.arrived = s.arrived + 1, !.theirs = Append(s.theirs, kind)], s)
      BY <1>1, <2>1, <2>3, <3>2, HeaderAdvances DEF s
    <3> QED
      BY <1>2, <3>1, <3>3
  <2> QED
    BY <2>2, <2>3
<1>5. CASE Transmit(c)
  <2>1. PICK t : /\ Changes(c, t)
                 /\ \/ /\ s.link \in {"open", "finished"}
                       /\ t = [s EXCEPT !.out = Tail(@), !.wire = Append(@, Head(s.out))]
                    \/ s.link = "finished" /\ t = [s EXCEPT !.out = <<>>, !.link = "pipe"]
    BY <1>5 DEF Transmit, s
  <2>2. s.out # <<>>
    BY <1>5 DEF Transmit, s
  <2>3. Advances(t, s)
    BY <1>1, <2>1, <2>2, TransmitAdvances
  <2> QED
    BY <1>2, <2>1, <2>3
<1>6. CASE Finish(c)
  <2>1. Changes(c, [s EXCEPT !.link = "finished"]) /\ s.link = "open" /\ "finished" \in Link
    BY <1>6 DEF Finish, s, Link
  <2>2. Advances([s EXCEPT !.link = "finished"], s)
    BY <1>1, <2>1, LinkAdvances
  <2> QED
    BY <1>2, <2>1, <2>2
<1>7. CASE Reset(c)
  <2>1. PICK arrived \in {s.taken, s.arrived} :
            Changes(c, [s EXCEPT !.link = "reset", !.out = <<>>, !.arrived = arrived])
    BY <1>7 DEF Reset, s
  <2>2. Advances([s EXCEPT !.link = "reset", !.out = <<>>, !.arrived = arrived], s)
    BY <1>1, <1>7, <2>1, ResetAdvances DEF s, Reset
  <2> QED
    BY <1>2, <2>1, <2>2
<1> QED
  BY <1>3, <1>4, <1>5, <1>6, <1>7 DEF Kernel

LEMMA WaitEffect ==
    ASSUME Objects, Wait
    PROVE  /\ Objects'
           /\ \A d \in Made : /\ SameTraffic(sockets'[d], sockets[d])
                              /\ sockets'[d].interest = sockets[d].interest
<1> DEFINE t(d) == [sockets[d] EXCEPT !.closed = @ \/ (HungUp(sockets[d]) /\ ReadEv(d) \in batch')]
<1>1. DOMAIN sockets = Made /\ made \in Nat
  BY DEF Objects, Made
<1>2. sockets' = [d \in Made |-> t(d)]
  BY <1>1 DEF Wait
<1>3. ASSUME NEW d \in Made
      PROVE  /\ t(d) \in SocketRecord /\ SameTraffic(t(d), sockets[d])
             /\ t(d).interest = sockets[d].interest
  <2> DEFINE s == sockets[d]
             b == s.closed \/ (HungUp(s) /\ ReadEv(d) \in batch')
  <2>1. s \in SocketRecord
    BY Recorded
  <2>2. b \in BOOLEAN
    BY <2>1 DEF SocketRecord
  <2> HIDE DEF b, s
  <2>3. [s EXCEPT !.closed = b] \in SocketRecord
    BY <2>1, <2>2 DEF SocketRecord
  <2>4. /\ SameTraffic([s EXCEPT !.closed = b], s)
        /\ [s EXCEPT !.closed = b].interest = s.interest
    BY <2>1, <2>2 DEF SocketRecord, SameTraffic
  <2>5. t(d) = [s EXCEPT !.closed = b]
    BY DEF s, b
  <2> HIDE DEF t
  <2> QED
    BY <2>3, <2>4, <2>5 DEF s
<1> HIDE DEF t
<1>4. sockets' \in Seq(SocketRecord) /\ Len(sockets') = made /\ \A d \in Made : sockets'[d] = t(d)
  BY <1>1, <1>2, <1>3 DEF Made
<1>5. Objects'
  BY <1>4 DEF Objects, Wait, managerVars, Made
<1> QED
  BY <1>3, <1>4, <1>5

-----------------------------------------------------------------------------
(* The clients have ids of Client.                                          *)

LEMMA SlotsCounted == IsFiniteSet(Slot) /\ Cardinality(Slot) = (Nodes - 1) * Attempts
<1>1. IsFiniteSet(Peer) /\ Cardinality(Peer) = Nodes - 1
  <2>1. Nodes \in Nat \ {0}
    BY AttemptsAssumption
  <2> QED
    BY <2>1, FS_Interval DEF Peer
<1>2. IsFiniteSet(1 .. Attempts) /\ Cardinality(1 .. Attempts) = Attempts
  <2>1. Attempts \in Nat \ {0}
    BY AttemptsAssumption
  <2> QED
    BY <2>1, FS_Interval
<1> QED
  BY <1>1, <1>2, FS_Product DEF Slot

LEMMA IdsAreClients ==
    ASSUME Objects, Numbered
    PROVE  made \in 0 .. (Nodes - 1) * Attempts /\ Made \subseteq Client
<1>1. made \in Nat /\ Made = 1 .. made
  BY DEF Objects, Made
<1>2. IsFiniteSet(Made) /\ Cardinality(Made) = made
  BY <1>1, FS_Interval
<1>3. PICK f \in [Made -> Slot] : \A c, d \in Made : f[c] = f[d] => c = d
  BY DEF Numbered
<1>4. f \in Injection(Made, Slot)
  BY <1>3 DEF Injection, IsInjective
<1>5. Cardinality(Made) <= Cardinality(Slot)
  BY <1>4, SlotsCounted, FS_Injection
<1>6. (Nodes - 1) * Attempts \in Nat
  BY SlotsCounted, FS_CardinalityType
<1>7. made <= (Nodes - 1) * Attempts
  BY <1>2, <1>5, SlotsCounted
<1> HIDE DEF Made
<1> QED
  BY <1>1, <1>6, <1>7 DEF Client

-----------------------------------------------------------------------------
(* The pieces: what is posted is queued, written and sent in order.         *)

\* The client the TCP thread works for.
LEMMA WorksFor ==
    ASSUME Doing, NEW c, NEW r,
           \/ doing \in {Reading(c, r), Writing(c, r), Checking(c, r)}
           \/ doing.at = "stop" /\ doing.client = c
    PROVE  c \in known
  BY DoingFields DEF Doing

LEMMA CalledPeers == ASSUME Calls PROVE Called \subseteq Peer
  BY AttemptsAssumption DEF Calls, Called, Peer

LEMMA AppendQueued ==
    ASSUME NEW k \in ClientRecord, NEW a, Queued(k), k.posted <= MaxPosts,
           a.posted = k.posted + 1, a.queue = Append(k.queue, k.posted + 1),
           a.buffer = k.buffer, a.sent = k.sent
    PROVE  /\ Queued(a) /\ Written(a) = Written(k)
           /\ \A s, t : SameTraffic(t, s) /\ Sent(k, s) => Sent(a, t)
<1> DEFINE q == Append(k.queue, k.posted + 1)
           n == Len(k.queue)
<1>1. k.queue \in Seq(Nat) /\ k.posted \in Nat /\ n \in Nat /\ MaxPosts \in Nat
  BY BoundAssumption DEF ClientRecord
<1>2. /\ DOMAIN k.queue = 1 .. n /\ Len(q) = n + 1 /\ DOMAIN q = 1 .. n + 1
      /\ \A j \in 1 .. n : q[j] = k.queue[j]
      /\ q[n + 1] = k.posted + 1
  BY <1>1, AppendAt
<1>3. /\ n <= k.posted
      /\ \A i \in DOMAIN k.queue : k.queue[i] = k.posted - n + i
      /\ k.buffer # 0 => k.buffer = k.posted - n
  BY DEF Queued
<1> HIDE DEF q, n
<1>4. (k.posted + 1) - (n + 1) = k.posted - n
  BY <1>1
<1>5. \A i \in 1 .. n + 1 : q[i] = (k.posted + 1) - (n + 1) + i
  <2> SUFFICES ASSUME NEW i \in 1 .. n + 1 PROVE q[i] = k.posted - n + i
    BY <1>4
  <2>1. CASE i = n + 1
    BY <1>1, <1>2, <2>1
  <2>2. CASE i # n + 1
    <3>1. i \in 1 .. n
      BY <1>1, <2>2
    <3> QED
      BY <1>2, <1>3, <3>1
  <2> QED
    BY <2>1, <2>2
<1>6. Queued(a)
  <2>1. k.posted + 1 <= MaxPosts + 1 /\ n + 1 <= k.posted + 1
    BY <1>1, <1>3
  <2> QED
    BY <1>2, <1>3, <1>4, <1>5, <2>1 DEF Queued, q
<1>7. Written(a) = Written(k)
  BY <1>2, <1>4 DEF Written, q, n
<1>8. ASSUME NEW s, NEW t, SameTraffic(t, s), Sent(k, s) PROVE Sent(a, t)
  BY <1>7, <1>8 DEF SameTraffic, Sent
<1> QED
  BY <1>6, <1>7, <1>8

LEMMA NewTraffic ==
    /\ \A p, state : Queued(NewClient(p, state)) /\ Written(NewClient(p, state)) = 0
    /\ \A k, link, interest :
          /\ Counted(NewSocket(link, interest))
          /\ Written(k) = 0 => Sent(k, NewSocket(link, interest))
<1>1. ASSUME NEW p, NEW state
      PROVE  Queued(NewClient(p, state)) /\ Written(NewClient(p, state)) = 0
  BY BoundAssumption DEF NewClient, Queued, Written
<1>2. ASSUME NEW link, NEW interest PROVE Counted(NewSocket(link, interest))
  BY BoundAssumption DEF NewSocket, Counted
<1>3. ASSUME NEW k, NEW link, NEW interest, Written(k) = 0 PROVE Sent(k, NewSocket(link, interest))
  BY <1>3, SizeAssumption DEF NewSocket, Sent
<1> QED
  BY <1>1, <1>2, <1>3

\* Every client but c is as before.
LEMMA TrafficFrame ==
    ASSUME Objects, NEW c \in Made, Touches(c), known' \subseteq known,
           \A d \in Made : Traffic(d), Traffic(c)'
    PROVE  \A d \in Made' : Traffic(d)'
<1> SUFFICES ASSUME NEW d \in Made, d # c PROVE Traffic(d)'
  BY DEF Touches, Made
<1>1. clients'[d] = clients[d] /\ sockets'[d] = sockets[d]
  BY DEF Touches
<1>2. Traffic(d)
  OBVIOUS
<1> QED
  BY <1>1, <1>2 DEF Traffic

LEMMA TrafficSame ==
    ASSUME Objects, NoClient, \A d \in Made : Traffic(d)
    PROVE  \A d \in Made' : Traffic(d)'
  BY DEF NoClient, Made, Traffic

LEMMA TrafficCreated ==
    ASSUME Objects, NEW k, NEW s, Creates(k, s), \A d \in Made : Traffic(d),
           s.link # "gone", Counted(s), Queued(k), Sent(k, s)
    PROVE  \A d \in Made' : Traffic(d)'
<1>1. Made' = Made \cup {made + 1} /\ made + 1 \notin Made
  BY CreatesObjects DEF Objects, Made
<1>2. ASSUME NEW d \in Made PROVE Traffic(d)'
  <2>1. clients'[d] = clients[d] /\ sockets'[d] = sockets[d] /\ (d \in known' => d \in known)
    BY <1>1 DEF Creates
  <2>2. Traffic(d)
    OBVIOUS
  <2> QED
    BY <2>1, <2>2 DEF Traffic
<1>3. ASSUME NEW d, d = made + 1 PROVE Traffic(d)'
  BY <1>3 DEF Traffic, Creates
<1> QED
  BY <1>1, <1>2, <1>3

LEMMA TrafficStep ==
    ASSUME Shape, Timely, \A d \in Made : Traffic(d), Next
    PROVE  \A d \in Made' : Traffic(d)'
<1> USE DEF managerVars, Shape
<1>1. ASSUME NEW p \in Peer, CreateConnection(p) PROVE \A d \in Made' : Traffic(d)'
  <2>1. CASE NoClient
    BY <2>1, TrafficSame
  <2>2. CASE Creates(NewClient(p, "Disconnected"), NewSocket("connecting", {"Read", "Write"}))
    <3>1. NewSocket("connecting", {"Read", "Write"}).link # "gone"
      BY DEF NewSocket
    <3> QED
      BY <2>2, <3>1, NewTraffic, TrafficCreated
  <2> QED
    BY <1>1, <2>1, <2>2, CreateConnectionEffect
<1>2. CASE Wait
  <2>1. /\ clients' = clients /\ known' = known /\ made' = made
        /\ \A d \in Made : SameTraffic(sockets'[d], sockets[d])
    BY <1>2, WaitEffect DEF Wait
  <2>2. ASSUME NEW d \in Made PROVE Traffic(d)'
    <3>1. Traffic(d) /\ SameTraffic(sockets'[d], sockets[d])
      BY <2>1
    <3>2. Sent(clients[d], sockets'[d])
      BY <3>1 DEF Traffic, SameTraffic, Sent
    <3> QED
      BY <2>1, <3>1, <3>2 DEF Traffic, SameTraffic, Counted
  <2> QED
    BY <2>1, <2>2 DEF Made
<1>3. CASE NewConnection
  <2> DEFINE k == NewClient(None, "Connected")
  <2>1. k \in ClientRecord /\ Queued(k) /\ Written(k) = 0 /\ k.posted = 0
    BY NewTypes, NewTraffic DEF NewClient
  <2> HIDE DEF k
  <2>2. Queued(Attached(k)) /\ Written(Attached(k)) = 0
    BY <2>1, AttachedFields, AppendQueued, BoundAssumption
  <2>3. NoClient \/ Creates(Attached(k), NewSocket("open", {"Read"}))
    BY <1>3, NewConnectionEffect DEF k
  <2>4. NewSocket("open", {"Read"}).link # "gone"
    BY DEF NewSocket
  <2> QED
    BY <2>2, <2>3, <2>4, NewTraffic, TrafficCreated, TrafficSame
<1>4. CASE Timer \/ Notify \/ Incoming
  <2>1. NoClient
    BY <1>4 DEF Timer, Notify, Incoming, NoClient
  <2> QED
    BY <2>1, TrafficSame
<1>5. CASE ConnectPlanned
  <2>1. Head(doing.peers) \in Called
    BY <1>5, TailAt, DoingFields DEF ConnectPlanned, Busy, Doing
  <2> QED
    BY <1>1, <1>5, <2>1, CalledPeers DEF ConnectPlanned
<1>6. CASE Erase
  <2>1. PICK c \in Made : Touches(c) /\ Erases(c)
    BY <1>6, EraseEffect DEF Queues
  <2>2. known' \subseteq known /\ c \notin known'
    BY <2>1 DEF Erases
  <2>3. Counted(sockets'[c]) /\ Sent(clients'[c], sockets'[c])
    <3>1. Counted(sockets[c]) /\ sockets[c] \in SocketRecord
      BY Recorded DEF Traffic
    <3>2. sockets[c].theirs \in Seq(Kind \cup {"handshake"})
      BY <3>1 DEF SocketRecord
    <3>3. Len(sockets[c].theirs) \in Nat /\ 0 <= 2 * Len(sockets[c].theirs) /\ 0 <= 2 * MaxTheirs
      BY <3>2, BoundAssumption
    <3>4. Counted(sockets'[c])
      BY <2>1, <3>1, <3>3 DEF Erases, Counted
    <3>5. Sent(clients'[c], sockets'[c])
      BY <2>1, SizeAssumption DEF Erases, Sent
    <3> QED
      BY <3>4, <3>5
  <2>4. Queued(clients'[c])
    BY <2>1 DEF Erases, Traffic
  <2>5. Traffic(c)'
    BY <2>2, <2>3, <2>4 DEF Traffic
  <2> QED
    BY <2>1, <2>2, <2>5, TrafficFrame
<1>7. ASSUME NEW p \in Called, PipeConnect(p) PROVE \A d \in Made' : Traffic(d)'
  BY <1>1, <1>7, CalledPeers DEF PipeConnect
<1>8. ASSUME NEW c \in Made, Touches(c), known' = known,
             sockets'[c].link = "gone" => sockets[c].link = "gone",
             Counted(sockets'[c]), Queued(clients'[c]), Sent(clients'[c], sockets'[c])
      PROVE  \A d \in Made' : Traffic(d)'
  <2>1. Traffic(c)'
    BY <1>8 DEF Traffic
  <2> QED
    BY <1>8, <2>1, TrafficFrame
<1>9. ASSUME NEW c \in Made, Touches(c), known' = known, SameTraffic(sockets'[c], sockets[c]),
             SameBuffers(clients'[c], clients[c])
      PROVE  \A d \in Made' : Traffic(d)'
  <2>1. Traffic(c)
    OBVIOUS
  <2>2. Queued(clients'[c]) /\ Sent(clients'[c], sockets'[c])
    BY <1>9, <2>1, SameBuffersKeep DEF Traffic
  <2>3. Counted(sockets'[c])
    BY <1>9, <2>1 DEF Traffic, SameTraffic, Counted
  <2> QED
    BY <1>8, <1>9, <2>2, <2>3 DEF SameTraffic
<1>10. ASSUME NEW c \in Made, Touches(c), known' = known, sockets' = sockets,
              clients[c].posted <= MaxPosts, clients'[c].posted = clients[c].posted + 1,
              clients'[c].queue = Append(clients[c].queue, clients[c].posted + 1),
              clients'[c].buffer = clients[c].buffer, clients'[c].sent = clients[c].sent
       PROVE  \A d \in Made' : Traffic(d)'
  <2>1. Traffic(c) /\ clients[c] \in ClientRecord
    BY Recorded
  <2>2. SameTraffic(sockets[c], sockets[c])
    BY DEF SameTraffic
  <2>3. Queued(clients'[c]) /\ Sent(clients'[c], sockets[c])
    BY <1>10, <2>1, <2>2, AppendQueued DEF Traffic
  <2> QED
    BY <1>8, <1>10, <2>1, <2>3 DEF Traffic
<1>11. ASSUME NEW c \in Made, PipeClient(c) PROVE \A d \in Made' : Traffic(d)'
  <2>1. known' = known
    BY <1>11 DEF PipeClient
  <2>2. CASE c \notin known
    BY <1>11, <2>1, <2>2, PipeClientEffect, TrafficSame DEF Touches, NoClient
  <2>3. CASE c \in known
    BY <1>9, <1>11, <2>1, <2>3, PipeClientEffect DEF RearmedEffect
  <2> QED
    BY <2>2, <2>3
<1>12. ASSUME NEW c \in Made, StopWriting(c) PROVE \A d \in Made' : Traffic(d)'
  <2>1. known' = known
    BY <1>12 DEF StopWriting
  <2> QED
    BY <1>9, <1>12, <2>1, StopWritingEffect DEF WritingStopped
<1>13. ASSUME NEW c \in Made, NEW type \in {"Read", "Write"}, ClientEvent(c, type)
       PROVE  \A d \in Made' : Traffic(d)'
  <2>1. Touches(c) /\ sockets' = sockets /\ known' = known
    BY <1>13, ClientEventEffect
  <2>2. CASE clients' = clients
    BY <2>1, <2>2, TrafficSame DEF Touches, NoClient
  <2>3. CASE Connected(c)
    <3>1. clients[c].posted <= MaxPosts
      BY <2>3, BoundAssumption DEF Timely, Connected
    <3> QED
      BY <1>10, <2>1, <2>3, <3>1 DEF Connected
  <2>4. CASE Failed(c)
    BY <1>9, <2>1, <2>4 DEF Failed, SameTraffic
  <2> QED
    BY <1>13, <2>2, <2>3, <2>4, ClientEventEffect
<1>14. ASSUME NEW c \in Made, NEW round \in 0 .. Rounds, Write(c, round)
       PROVE  \A d \in Made' : Traffic(d)'
  <2>1. c \in known /\ known' = known
    BY <1>14, WorksFor DEF Write
  <2>2. Traffic(c)
    OBVIOUS
  <2>3. /\ Touches(c) /\ Buffered(clients'[c], clients[c])
        /\ sockets'[c].link = sockets[c].link /\ sockets'[c].theirs = sockets[c].theirs
        /\ sockets'[c].arrived = sockets[c].arrived /\ sockets'[c].taken = sockets[c].taken
        /\ Sent(clients'[c], sockets'[c])
    BY <1>14, <2>1, <2>2, WriteEffect DEF Traffic
  <2>4. Counted(sockets'[c])
    BY <2>2, <2>3 DEF Traffic, Counted
  <2> QED
    BY <1>8, <2>1, <2>3, <2>4 DEF Buffered
<1>15. ASSUME NEW c \in Made, NEW round \in 0 .. Rounds, Check(c, round)
       PROVE  \A d \in Made' : Traffic(d)'
  <2>1. known' = known /\ Traffic(c)
    BY <1>15 DEF Check
  <2>2. /\ Touches(c) /\ Buffered(clients'[c], clients[c]) /\ sockets' = sockets
        /\ Sent(clients'[c], sockets'[c])
    BY <1>15, <2>1, CheckEffect DEF Traffic
  <2> QED
    BY <1>8, <2>1, <2>2 DEF Buffered, Traffic
<1>16. ASSUME NEW c \in Made, NEW round \in 0 .. Rounds, Read(c, round)
       PROVE  \A d \in Made' : Traffic(d)'
  <2>1. known' = known /\ Traffic(c)
    BY <1>16 DEF Read
  <2>2. /\ Touches(c) /\ Reads(c)
        /\ \/ \E s \in SocketRecord : ReadingStopped(c, s)
           \/ clients' = clients
    BY <1>16, <2>1, ReadEffect DEF Traffic, ReadsPacket, ReadsLess
  <2>3. Queued(clients'[c]) /\ Written(clients'[c]) = Written(clients[c])
    BY <2>1, <2>2 DEF ReadingStopped, Traffic
  <2>4. Sent(clients'[c], sockets'[c])
    BY <2>1, <2>2, <2>3 DEF Traffic, Reads, Stays, Sent
  <2>5. Counted(sockets'[c])
    <3>1. sockets[c].taken \in Nat /\ sockets[c].arrived \in Nat
      BY Recorded DEF SocketRecord
    <3>2. sockets'[c].taken <= sockets[c].arrived
      BY <2>2, <3>1 DEF Reads
    <3> QED
      BY <2>1, <2>2, <3>2 DEF Traffic, Reads, Stays, Counted
  <2> QED
    BY <1>8, <2>1, <2>2, <2>3, <2>4, <2>5 DEF Reads, Stays
<1>17. ASSUME NEW c \in Made, Attach(c) PROVE \A d \in Made' : Traffic(d)'
  <2>1. known' = known /\ clients[c].posted <= MaxPosts
    BY <1>17 DEF Attach
  <2> QED
    BY <1>10, <1>17, <2>1, AttachEffect
<1>18. ASSUME NEW c \in Made, Kernel(c) PROVE \A d \in Made' : Traffic(d)'
  <2>1. Traffic(c)
    OBVIOUS
  <2>2. /\ Touches(c) /\ Advances(sockets'[c], sockets[c])
        /\ clients' = clients /\ known' = known
    BY <1>18, <2>1, KernelEffect DEF Traffic, KernelOnly
  <2>3. Traffic(c)'
    BY <2>1, <2>2 DEF Traffic, Advances
  <2> QED
    BY <2>2, <2>3, TrafficFrame
<1> HIDE DEF managerVars, Shape
<1> QED
  BY <1>2, <1>3, <1>4, <1>5, <1>6, <1>7, <1>11, <1>12, <1>13, <1>14, <1>15, <1>16, <1>17, <1>18
  DEF Next, TcpThread, Made, Called

-----------------------------------------------------------------------------
(* The events: what came from the other node is reported in order.          *)

LEMMA EventsOfAll == EventsInOrder <=> \A c \in Made : InOrder(c)
  BY DEF EventsInOrder, InOrder, Ordered

LEMMA QueuedEvents ==
    /\ ConnectedEvent # DisconnectedEvent
    /\ ConnectedEvent.type # "Packet" /\ DisconnectedEvent.type # "Packet"
    /\ ConnectedEvent \in QueuedEvent /\ DisconnectedEvent \in QueuedEvent
    /\ \A n : /\ PacketEvent(n).type = "Packet" /\ PacketEvent(n).number = n
              /\ PacketEvent(n) # ConnectedEvent /\ PacketEvent(n) # DisconnectedEvent
              /\ n \in 1 .. MaxTheirs => PacketEvent(n) \in QueuedEvent
    /\ \A e \in QueuedEvent : \/ e = ConnectedEvent \/ e = DisconnectedEvent
                              \/ e.type = "Packet" /\ e.number \in 1 .. MaxTheirs
<1>1. /\ ConnectedEvent.type = "Connected" /\ DisconnectedEvent.type = "Disconnected"
      /\ \A n : PacketEvent(n).type = "Packet" /\ PacketEvent(n).number = n
  BY DEF ConnectedEvent, DisconnectedEvent, PacketEvent
<1>2. ASSUME NEW n \in 1 .. MaxTheirs PROVE PacketEvent(n) \in QueuedEvent
  BY DEF PacketEvent, QueuedEvent
<1>3. ASSUME NEW e \in QueuedEvent, e # ConnectedEvent, e # DisconnectedEvent
      PROVE  e.type = "Packet" /\ e.number \in 1 .. MaxTheirs
  BY <1>3 DEF QueuedEvent
<1>4. ConnectedEvent \in QueuedEvent /\ DisconnectedEvent \in QueuedEvent
  BY DEF QueuedEvent
<1> QED
  BY <1>1, <1>2, <1>3, <1>4

\* Before a packet that is not the first there is a packet.
LEMMA PacketBefore ==
    ASSUME NEW es \in Seq(QueuedEvent), NEW theirs, Ordered(es, theirs),
           NEW i \in DOMAIN es, i # 1, i # 2
    PROVE  es[i - 1].type = "Packet" /\ es[i - 1].number \in 1 .. MaxTheirs
<1>1. /\ DOMAIN es = 1 .. Len(es) /\ Len(es) \in Nat
      /\ \A j \in 1 .. Len(es) : es[j] \in QueuedEvent
  OBVIOUS
<1>2. i - 1 \in 1 .. Len(es) /\ i - 1 # 1 /\ i - 1 # Len(es)
  BY <1>1
<1>3. es[i - 1] # ConnectedEvent /\ es[i - 1] # DisconnectedEvent
  BY <1>1, <1>2 DEF Ordered
<1> QED
  BY <1>1, <1>2, <1>3, QueuedEvents

LEMMA LatestIs ==
    ASSUME NEW es \in Seq(QueuedEvent), NEW theirs, Ordered(es, theirs), es # <<>>,
           es[Len(es)] # DisconnectedEvent
    PROVE  /\ Len(es) # 1 => es[Len(es)].type = "Packet" /\ Latest(es) \in 1 .. MaxTheirs
           /\ Len(es) = 1 => Latest(es) = 1
           /\ Latest(es) \in Nat \ {0}
<1>1. /\ DOMAIN es = 1 .. Len(es) /\ Len(es) \in Nat \ {0}
      /\ \A j \in 1 .. Len(es) : es[j] \in QueuedEvent
  OBVIOUS
<1>2. Len(es) \in DOMAIN es /\ es[Len(es)] \in QueuedEvent
  BY <1>1
<1>3. CASE Len(es) # 1
  <2>1. es[Len(es)] # ConnectedEvent
    BY <1>2, <1>3 DEF Ordered
  <2>2. es[Len(es)].type = "Packet" /\ es[Len(es)].number \in 1 .. MaxTheirs
    BY <1>2, <2>1, QueuedEvents
  <2> QED
    BY <1>3, <2>2, BoundAssumption DEF Latest
<1>4. CASE Len(es) = 1
  BY <1>4 DEF Latest
<1> QED
  BY <1>3, <1>4

\* More packets of the other node change nothing.
LEMMA OrderedLater ==
    ASSUME NEW es \in Seq(QueuedEvent), NEW s, NEW t, Ordered(es, s),
           Len(s) \in Nat, DOMAIN s = 1 .. Len(s),
           \A i \in DOMAIN es : es[i].type = "Packet" => es[i].number <= Len(s),
           \A i \in DOMAIN s : t[i] = s[i]
    PROVE  Ordered(es, t)
<1> SUFFICES ASSUME NEW i \in DOMAIN es, es[i].type = "Packet"
             PROVE  LET before == IF i = 2 THEN 1 ELSE es[i - 1].number
                    IN  \A n \in before + 1 .. es[i].number - 1 : t[n] = "undecodable"
  BY DEF Ordered
<1> DEFINE before == IF i = 2 THEN 1 ELSE es[i - 1].number
<1>1. es[i] \in QueuedEvent
  OBVIOUS
<1>2. es[i].number \in Nat /\ es[i].number <= Len(s)
  BY <1>1, QueuedEvents
<1>3. i # 1
  BY QueuedEvents DEF Ordered
<1>4. before \in Nat
  BY <1>3, PacketBefore
<1>5. \A n \in before + 1 .. es[i].number - 1 : s[n] = "undecodable"
  BY DEF Ordered
<1> HIDE DEF before
<1>6. ASSUME NEW n \in before + 1 .. es[i].number - 1 PROVE t[n] = "undecodable"
  <2>1. n \in 1 .. Len(s)
    BY <1>2, <1>4
  <2> QED
    BY <1>5, <2>1
<1> QED
  BY <1>6 DEF before

LEMMA OrderedAppend ==
    ASSUME NEW es \in Seq(QueuedEvent), NEW e \in QueuedEvent, NEW theirs, Ordered(es, theirs),
           es = <<>> <=> e = ConnectedEvent,
           es # <<>> => es[Len(es)] # DisconnectedEvent,
           e.type = "Packet" =>
               /\ Latest(es) < e.number
               /\ \A n \in Latest(es) + 1 .. e.number - 1 : theirs[n] = "undecodable"
    PROVE  Ordered(Append(es, e), theirs)
<1> DEFINE a == Append(es, e)
           l == Len(es)
<1>1. /\ l \in Nat /\ DOMAIN es = 1 .. l /\ Len(a) = l + 1 /\ DOMAIN a = 1 .. l + 1
      /\ \A j \in 1 .. l : a[j] = es[j]
      /\ a[l + 1] = e
  BY AppendAt
<1>2. es = <<>> <=> l = 0
  OBVIOUS
<1> HIDE DEF a, l
<1>3. ASSUME NEW i \in 1 .. l
      PROVE  /\ a[i] = ConnectedEvent <=> i = 1
             /\ a[i] # DisconnectedEvent
             /\ a[i].type = "Packet" =>
                   LET before == IF i = 2 THEN 1 ELSE a[i - 1].number
                   IN  /\ before < a[i].number
                       /\ \A n \in before + 1 .. a[i].number - 1 : theirs[n] = "undecodable"
  <2>1. a[i] = es[i] /\ i \in DOMAIN es
    BY <1>1
  <2>2. i = l => es[i] # DisconnectedEvent
    BY <1>1, <1>2 DEF l
  <2>3. (a[i] = ConnectedEvent <=> i = 1) /\ a[i] # DisconnectedEvent
    BY <2>1, <2>2 DEF Ordered, l
  <2>4. ASSUME a[i].type = "Packet"
        PROVE  LET before == IF i = 2 THEN 1 ELSE a[i - 1].number
               IN  /\ before < a[i].number
                   /\ \A n \in before + 1 .. a[i].number - 1 : theirs[n] = "undecodable"
    <3>1. i # 1
      BY <2>3, <2>4, QueuedEvents
    <3>2. i # 2 => a[i - 1] = es[i - 1]
      BY <1>1, <3>1
    <3> QED
      BY <2>1, <2>4, <3>2 DEF Ordered
  <2> QED
    BY <2>3, <2>4
<1>4. /\ e = ConnectedEvent <=> l + 1 = 1
      /\ e.type = "Packet" =>
            LET before == IF l + 1 = 2 THEN 1 ELSE a[(l + 1) - 1].number
            IN  /\ before < e.number
                /\ \A n \in before + 1 .. e.number - 1 : theirs[n] = "undecodable"
  <2>1. e = ConnectedEvent <=> l + 1 = 1
    BY <1>1, <1>2
  <2>2. ASSUME e.type = "Packet"
        PROVE  (IF l + 1 = 2 THEN 1 ELSE a[(l + 1) - 1].number) = Latest(es)
    <3>1. l # 0 /\ (l + 1) - 1 = l /\ (l + 1 = 2 <=> l = 1)
      BY <1>1, <1>2, <2>2, QueuedEvents
    <3>2. a[l] = es[l]
      BY <1>1, <3>1
    <3> QED
      BY <3>1, <3>2 DEF Latest, l
  <2> QED
    BY <2>1, <2>2
<1>5. ASSUME NEW i \in 1 .. l + 1 PROVE i \in 1 .. l \/ i = l + 1
  BY <1>1
<1>6. Ordered(a, theirs)
  BY <1>1, <1>3, <1>4, <1>5 DEF Ordered
<1> QED
  BY <1>6 DEF a

Told(c) == Heard(c) /\ InOrder(c)

LEMMA ToldSame ==
    ASSUME NEW d, clients'[d] = clients[d], sockets'[d] = sockets[d], events'[d] = events[d],
           d \in known' <=> d \in known, Told(d)
    PROVE  Told(d)'
  BY DEF Told, Heard, InOrder

LEMMA ToldFrame ==
    ASSUME Objects, NEW c \in Made, Touches(c), known' = known \/ known' = known \ {c},
           \A d \in Made : d # c => events'[d] = events[d],
           \A d \in Made : Told(d), Told(c)'
    PROVE  \A d \in Made' : Told(d)'
<1> SUFFICES ASSUME NEW d \in Made, d # c PROVE Told(d)'
  BY DEF Touches, Made
<1> QED
  BY ToldSame DEF Touches

LEMMA ToldUnchanged ==
    ASSUME Objects, NoClient, events' = events, \A d \in Made : Told(d)
    PROVE  \A d \in Made' : Told(d)'
  BY ToldSame DEF NoClient, Made

LEMMA ToldCreated ==
    ASSUME Objects, NEW k, NEW s, Creates(k, s), \A d \in Made : Told(d),
           events' = events, events[made + 1] = <<>>
    PROVE  \A d \in Made' : Told(d)'
<1>1. Made' = Made \cup {made + 1} /\ made + 1 \notin Made
  BY CreatesObjects DEF Objects, Made
<1>2. ASSUME NEW d \in Made PROVE Told(d)'
  <2>1. clients'[d] = clients[d] /\ sockets'[d] = sockets[d] /\ (d \in known' <=> d \in known)
    BY <1>1 DEF Creates
  <2>2. Told(d)
    OBVIOUS
  <2> QED
    BY <2>1, <2>2, ToldSame
<1>3. ASSUME NEW d, d = made + 1 PROVE Told(d)'
  BY <1>3 DEF Told, Heard, InOrder, Ordered
<1> QED
  BY <1>1, <1>2, <1>3

\* A step about client c that reports nothing, and after which no more is read.
LEMMA ToldKept ==
    ASSUME Shape, Numbered, NEW c \in Made, Touches(c), known' = known, events' = events,
           \A d \in Made : Told(d),
           Len(sockets[c].theirs) <= Len(sockets'[c].theirs),
           \A i \in DOMAIN sockets[c].theirs : sockets'[c].theirs[i] = sockets[c].theirs[i],
           2 * Len(sockets[c].theirs) >= sockets[c].arrived, sockets[c].taken <= sockets[c].arrived,
           \/ clients'[c].readError
           \/ /\ clients'[c].readError = clients[c].readError
              /\ sockets[c].taken <= sockets'[c].taken
              /\ \A m \in Nat : 2 * m <= sockets'[c].taken => 2 * m <= sockets[c].taken
    PROVE  \A d \in Made' : Told(d)'
<1> DEFINE es == events[c]
           s == sockets[c]
           t == sockets'[c]
<1>1. c \in Client /\ es \in Seq(QueuedEvent) /\ s \in SocketRecord
  BY IdsAreClients, Recorded DEF Shape, Queues
<1>2. t \in SocketRecord
  BY ElementOfSeq DEF Touches, Made
<1>3. /\ Len(s.theirs) \in Nat /\ DOMAIN s.theirs = 1 .. Len(s.theirs) /\ Len(t.theirs) \in Nat
      /\ s.taken \in Nat /\ s.arrived \in Nat /\ t.taken \in Nat
  BY <1>1, <1>2, Numerals
<1>4. Told(c)
  OBVIOUS
<1> HIDE DEF es, s, t
<1>5. InOrder(c)'
  <2>1. Ordered(es, t.theirs)
    <3>1. Ordered(es, s.theirs)
      BY <1>4 DEF Told, InOrder, es, s
    <3>2. \A i \in DOMAIN es : es[i].type = "Packet" => es[i].number <= Len(s.theirs)
      BY <1>4 DEF Told, Heard, es, s
    <3>3. \A i \in DOMAIN s.theirs : t.theirs[i] = s.theirs[i]
      BY DEF s, t
    <3> QED
      BY <1>1, <1>3, <3>1, <3>2, <3>3, OrderedLater
  <2> QED
    BY <1>4, <2>1 DEF Told, InOrder, es, t
<1>6. \A i \in DOMAIN es : es[i].type = "Packet" => es[i].number <= Len(t.theirs)
  <2> SUFFICES ASSUME NEW i \in DOMAIN es, es[i].type = "Packet"
               PROVE  es[i].number <= Len(t.theirs)
    OBVIOUS
  <2>1. es[i].number <= Len(s.theirs)
    BY <1>4 DEF Told, Heard, es, s
  <2>2. es[i].number \in Nat
    <3>1. es[i] \in QueuedEvent
      BY <1>1
    <3> QED
      BY <3>1, QueuedEvents
  <2>3. Len(s.theirs) <= Len(t.theirs)
    BY DEF s, t
  <2> QED
    BY <1>3, <2>1, <2>2, <2>3
<1>7. ASSUME es # <<>>, c \in known, ~ clients'[c].readError
      PROVE  /\ 2 * Latest(es) <= t.taken
             /\ \A m \in 1 .. MaxTheirs : Latest(es) < m /\ 2 * m <= t.taken =>
                   t.theirs[m] = "undecodable"
  <2>1. /\ 2 * Latest(es) <= s.taken
        /\ \A m \in 1 .. MaxTheirs : Latest(es) < m /\ 2 * m <= s.taken =>
              s.theirs[m] = "undecodable"
    BY <1>4, <1>7 DEF Told, Heard, es, s
  <2>2. Latest(es) \in Nat
    <3>1. es[Len(es)] # DisconnectedEvent /\ Ordered(es, s.theirs)
      BY <1>4, <1>7 DEF Told, InOrder, es, s
    <3> QED
      BY <1>1, <1>7, <3>1, LatestIs
  <2>3. s.taken <= t.taken /\ \A m \in Nat : 2 * m <= t.taken => 2 * m <= s.taken
    BY <1>7 DEF s, t
  <2>4. 2 * Latest(es) <= t.taken
    BY <1>3, <2>1, <2>2, <2>3
  <2>5. ASSUME NEW m \in 1 .. MaxTheirs, Latest(es) < m, 2 * m <= t.taken
        PROVE  t.theirs[m] = "undecodable"
    <3>1. m \in Nat /\ 2 * m <= s.taken
      BY <2>3, <2>5
    <3>2. s.theirs[m] = "undecodable"
      BY <2>1, <2>5, <3>1
    <3>3. m \in 1 .. Len(s.theirs)
      <4>1. 2 * m <= 2 * Len(s.theirs)
        BY <1>3, <3>1 DEF s
      <4> QED
        BY <1>3, <2>5, <4>1
    <3> QED
      BY <1>3, <3>2, <3>3 DEF s, t
  <2> QED
    BY <2>4, <2>5
<1>8. Heard(c)'
  BY <1>6, <1>7 DEF Heard, es, t
<1> QED
  BY <1>5, <1>8, ToldFrame DEF Told, Shape

\* A packet is read: the handshake introduces the node, once; a packet is handed on if it can
\* be decoded.
LEMMA ToldPacket ==
    ASSUME Shape, Timely, Numbered, Stopped, \A d \in Made : Told(d) /\ Traffic(d),
           NEW c \in Made, NEW round, NEW n \in Nat,
           doing = Reading(c, round), known' = known, Touches(c), Reads(c), ReadsPacket(c, n)
    PROVE  \A d \in Made' : Told(d)'
<1> DEFINE es == events[c]
           s == sockets[c]
           th == s.theirs
           kind == th[n]
<1>1. c \in Client /\ es \in Seq(QueuedEvent) /\ s \in SocketRecord /\ DOMAIN events = Client
  BY IdsAreClients, Recorded DEF Shape, Queues
<1>2. /\ Len(th) \in Nat /\ DOMAIN th = 1 .. Len(th) /\ s.taken \in Nat /\ s.arrived \in Nat
  BY <1>1, Numerals
<1>3. Told(c) /\ Traffic(c) /\ c \in known /\ ~ clients[c].readError
  <2>1. c \in known
    BY WorksFor DEF Shape
  <2> QED
    BY <2>1, DoingFields DEF Stopped
<1>4. /\ s.taken < 2 * n /\ 2 * n - 2 <= s.taken /\ sockets'[c].taken = 2 * n
      /\ sockets'[c].theirs = th /\ clients' = clients
      /\ Receive(c, n, kind) /\ 2 * n <= s.arrived
  <2>1. sockets'[c].taken = 2 * n /\ sockets'[c].taken \in s.taken .. s.arrived
    BY DEF ReadsPacket, Reads
  <2>2. 2 * n <= s.arrived
    BY <1>2, <2>1
  <2> QED
    BY <2>1, <2>2 DEF ReadsPacket, Reads
<1> HIDE DEF es, s, th, kind
<1>5. /\ s.arrived <= 2 * MaxTheirs /\ s.arrived <= 2 * Len(th)
      /\ \A i \in DOMAIN th : th[i] = "handshake" <=> i = 1
  BY <1>3 DEF Traffic, Counted, s, th
<1>6. n \in 1 .. MaxTheirs /\ n \in 1 .. Len(th)
  <2>1. n >= 1
    BY <1>2, <1>4
  <2>2. 2 * n <= 2 * MaxTheirs /\ 2 * n <= 2 * Len(th)
    BY <1>2, <1>4, <1>5, BoundAssumption
  <2> QED
    BY <1>2, <2>1, <2>2, BoundAssumption
<1>7. kind = "handshake" <=> n = 1
  BY <1>2, <1>5, <1>6 DEF kind
<1>8. /\ Ordered(es, th)
      /\ es # <<>> => es[Len(es)] # DisconnectedEvent
      /\ \A i \in DOMAIN es : es[i].type = "Packet" => es[i].number <= Len(th)
      /\ es # <<>> => /\ 2 * Latest(es) <= s.taken
                      /\ \A m \in 1 .. MaxTheirs : Latest(es) < m /\ 2 * m <= s.taken =>
                            th[m] = "undecodable"
  BY <1>3 DEF Told, InOrder, Heard, es, s, th
<1>9. es # <<>> => Latest(es) \in Nat \ {0}
  BY <1>1, <1>8, LatestIs
<1>10. es # <<>> => Latest(es) < n
  BY <1>2, <1>4, <1>8, <1>9
<1>11. ASSUME es # <<>>, NEW m \in 1 .. MaxTheirs, Latest(es) < m, m < n
       PROVE  th[m] = "undecodable"
  <2>1. 2 * m <= s.taken
    BY <1>2, <1>4, <1>11
  <2> QED
    BY <1>8, <1>11, <2>1
<1>12. ASSUME events' = events,
              es # <<>> => kind = "undecodable"
       PROVE  \A d \in Made' : Told(d)'
  <2>1. InOrder(c)'
    BY <1>3, <1>4, <1>12 DEF Told, InOrder, es, s, th
  <2>2. es # <<>> => 2 * Latest(es) <= 2 * n
    BY <1>9, <1>10
  <2>3. ASSUME es # <<>>, NEW m \in 1 .. MaxTheirs, Latest(es) < m, 2 * m <= 2 * n
        PROVE  th[m] = "undecodable"
    <3>1. CASE m < n
      BY <1>11, <2>3, <3>1
    <3>2. CASE m = n
      BY <1>12, <2>3, <3>2 DEF kind
    <3> QED
      BY <2>3, <3>1, <3>2
  <2>4. Heard(c)'
    BY <1>4, <1>8, <1>12, <2>2, <2>3 DEF Heard, es
  <2> QED
    BY <1>12, <2>1, <2>4, ToldFrame DEF Told, Shape
<1>13. ASSUME NEW e \in QueuedEvent, events' = [events EXCEPT ![c] = Append(@, e)],
              e # DisconnectedEvent, es = <<>> <=> e = ConnectedEvent,
              e = ConnectedEvent => n = 1,
              e # ConnectedEvent => e.type = "Packet" /\ e.number = n
       PROVE  \A d \in Made' : Told(d)'
  <2> DEFINE a == Append(es, e)
             l == Len(es)
  <2>1. events'[c] = a /\ \A d \in Made : d # c => events'[d] = events[d]
    BY <1>1, <1>13 DEF es
  <2>2. /\ l \in Nat /\ DOMAIN es = 1 .. l /\ Len(a) = l + 1 /\ DOMAIN a = 1 .. l + 1
        /\ \A j \in 1 .. l : a[j] = es[j]
        /\ a[l + 1] = e /\ a \in Seq(QueuedEvent)
    BY <1>1, <1>13, AppendAt
  <2>3. Ordered(a, th)
    <3>1. ASSUME e.type = "Packet"
          PROVE  /\ Latest(es) < e.number
                 /\ \A m \in Latest(es) + 1 .. e.number - 1 : th[m] = "undecodable"
      <4>1. e.number = n /\ es # <<>>
        BY <1>13, <3>1, QueuedEvents
      <4>2. ASSUME NEW m \in Latest(es) + 1 .. n - 1 PROVE th[m] = "undecodable"
        <5>1. m \in 1 .. MaxTheirs /\ Latest(es) < m /\ m < n
          BY <1>6, <1>9, <4>1, BoundAssumption
        <5> QED
          BY <1>11, <4>1, <5>1
      <4> QED
        BY <1>10, <4>1, <4>2
    <3> QED
      BY <1>1, <1>8, <1>13, <3>1, OrderedAppend
  <2> HIDE DEF a
  <2>4. InOrder(c)'
    <3>1. a # <<>> /\ a[Len(a)] # DisconnectedEvent
      BY <1>13, <2>2
    <3> QED
      BY <1>3, <1>4, <2>1, <2>3, <3>1 DEF InOrder, th, s
  <2>5. Latest(a) = n
    <3>1. CASE es = <<>>
      BY <1>13, <2>2, <3>1 DEF Latest
    <3>2. CASE es # <<>>
      <4>1. l # 0
        BY <1>1, <3>2
      <4>2. Len(a) # 1
        BY <2>2, <4>1
      <4> QED
        BY <1>13, <2>2, <3>2, <4>2 DEF Latest
    <3> QED
      BY <3>1, <3>2
  <2>6. ASSUME NEW i \in DOMAIN a, a[i].type = "Packet" PROVE a[i].number <= Len(th)
    <3>1. CASE i = l + 1
      BY <1>6, <1>13, <2>2, <2>6, <3>1, QueuedEvents
    <3>2. CASE i # l + 1
      <4>1. i \in 1 .. l
        BY <2>2, <3>2
      <4> QED
        BY <1>8, <2>2, <2>6, <4>1
    <3> QED
      BY <3>1, <3>2
  <2>7. \A m \in 1 .. MaxTheirs : ~ (n < m /\ 2 * m <= 2 * n)
    BY <1>6
  <2>8. Heard(c)'
    BY <1>4, <2>1, <2>5, <2>6, <2>7 DEF Heard
  <2> QED
    BY <2>1, <2>4, <2>8, ToldFrame DEF Told, Shape
<1>14. CASE kind = "handshake"
  <2>1. es = <<>>
    <3>1. n = 1 /\ s.taken < 2
      BY <1>2, <1>4, <1>7, <1>14
    <3> QED
      BY <1>2, <1>10, <1>9, <3>1
  <2>2. events' = [events EXCEPT ![c] = Append(@, ConnectedEvent)]
    BY <1>4, <1>14, <2>1 DEF Receive, Introduced, Appended, es
  <2> QED
    BY <1>7, <1>13, <1>14, <2>1, <2>2, QueuedEvents
<1>15. CASE kind # "handshake" /\ (kind = "undecodable" \/ es = <<>>)
  <2>1. events' = events
    BY <1>4, <1>15 DEF Receive, Introduced, es
  <2> QED
    BY <1>12, <1>15, <2>1
<1>16. CASE kind # "handshake" /\ kind # "undecodable" /\ es # <<>>
  <2>1. events' = [events EXCEPT ![c] = Append(@, PacketEvent(n))]
    BY <1>4, <1>16 DEF Receive, Introduced, Appended, es
  <2> QED
    BY <1>6, <1>13, <1>16, <2>1, QueuedEvents
<1> QED
  BY <1>14, <1>15, <1>16

LEMMA ToldErase ==
    ASSUME Shape, Numbered, \A d \in Made : Told(d) /\ Traffic(d),
           \A i \in DOMAIN erase : erase[i] \in known,
           NEW c \in Made, Touches(c), Erases(c)
    PROVE  \A d \in Made' : Told(d)'
<1> DEFINE es == events[c]
           th == sockets[c].theirs
           a == Append(es, DisconnectedEvent)
           l == Len(es)
<1>1. c \in Client /\ es \in Seq(QueuedEvent) /\ DOMAIN events = Client
  BY IdsAreClients DEF Shape, Queues
<1>2. Told(c) /\ c \in known /\ c \notin known'
  <2>1. erase \in Seq(Made) /\ erase # <<>> /\ c = Head(erase) /\ c \notin known'
    BY DEF Shape, Queues, Erases
  <2>2. c = erase[1] /\ 1 \in DOMAIN erase
    BY <2>1, TailAt
  <2> QED
    BY <2>1, <2>2
<1>3. /\ Ordered(es, th)
      /\ es # <<>> => es[Len(es)] # DisconnectedEvent
      /\ \A i \in DOMAIN es : es[i].type = "Packet" => es[i].number <= Len(th)
  BY <1>2 DEF Told, InOrder, Heard
<1> HIDE DEF es, th
<1>4. CASE es = <<>>
  <2>1. events' = events
    BY <1>4 DEF Erases, es
  <2>2. Told(c)'
    BY <1>2, <1>4, <2>1 DEF Told, Heard, InOrder, Ordered, es
  <2> QED
    BY <2>1, <2>2, ToldFrame DEF Shape, Erases
<1>5. CASE es # <<>>
  <2>1. events' = [events EXCEPT ![c] = Append(@, DisconnectedEvent)]
    BY <1>5 DEF Erases, es
  <2>2. events'[c] = a /\ \A d \in Made : d # c => events'[d] = events[d]
    BY <1>1, <2>1 DEF es
  <2>3. /\ l \in Nat /\ DOMAIN es = 1 .. l /\ Len(a) = l + 1 /\ DOMAIN a = 1 .. l + 1
        /\ \A j \in 1 .. l : a[j] = es[j]
        /\ a[l + 1] = DisconnectedEvent
    BY <1>1, QueuedEvents, AppendAt
  <2>4. Ordered(a, th)
    BY <1>1, <1>3, <1>5, QueuedEvents, OrderedAppend
  <2> HIDE DEF a
  <2>5. InOrder(c)'
    BY <1>2, <2>2, <2>3, <2>4 DEF InOrder, Erases, th
  <2>6. ASSUME NEW i \in DOMAIN a, a[i].type = "Packet" PROVE a[i].number <= Len(th)
    <3>1. CASE i = l + 1
      BY <2>3, <2>6, <3>1, QueuedEvents
    <3>2. CASE i # l + 1
      <4>1. i \in 1 .. l
        BY <2>3, <3>2
      <4> QED
        BY <1>3, <2>3, <2>6, <4>1
    <3> QED
      BY <3>1, <3>2
  <2>7. Heard(c)'
    BY <1>2, <2>2, <2>6 DEF Heard, Erases, th
  <2> QED
    BY <2>2, <2>5, <2>7, ToldFrame DEF Told, Shape, Erases
<1> QED
  BY <1>4, <1>5

LEMMA ToldStep ==
    ASSUME Shape, Timely, Numbered, Stopped, PointersValid, \A d \in Made : Told(d) /\ Traffic(d),
           Made' \subseteq Client, Next
    PROVE  \A d \in Made' : Told(d)'
<1> DEFINE Goal == \A d \in Made' : Told(d)'
<1> USE DEF Shape, managerVars
<1>1. ASSUME NEW k, NEW s, Creates(k, s), events' = events PROVE Goal
  <2>1. made + 1 \in Made' /\ made \in Nat
    BY <1>1, CreatesObjects DEF Objects
  <2>2. made + 1 \in Client /\ made + 1 > made
    BY <2>1
  <2>3. events[made + 1] = <<>>
    BY <2>2 DEF Timely
  <2> QED
    BY <1>1, <2>3, ToldCreated
<1>2. ASSUME NoClient, events' = events PROVE Goal
  BY <1>2, ToldUnchanged
<1>3. ASSUME NEW p \in Peer, CreateConnection(p), events' = events PROVE Goal
  BY <1>1, <1>2, <1>3, CreateConnectionEffect
<1>4. ASSUME NEW c \in Made, Touches(c), known' = known, events' = events,
             sockets'[c].theirs = sockets[c].theirs,
             \/ clients'[c].readError
             \/ /\ clients'[c].readError = clients[c].readError
                /\ sockets[c].taken <= sockets'[c].taken
                /\ \A m \in Nat : 2 * m <= sockets'[c].taken => 2 * m <= sockets[c].taken
      PROVE  Goal
  <2>1. Counted(sockets[c])
    BY DEF Traffic
  <2>2. /\ sockets[c].arrived \in Nat /\ Len(sockets[c].theirs) \in Nat
        /\ sockets[c].taken \in Nat
    BY Recorded, Numerals
  <2>3. 2 * Len(sockets[c].theirs) >= sockets[c].arrived /\ sockets[c].taken <= sockets[c].arrived
    BY <2>1, <2>2 DEF Counted
  <2>4. Len(sockets[c].theirs) <= Len(sockets'[c].theirs)
    BY <1>4, <2>2
  <2> QED
    BY <1>4, <2>3, <2>4, ToldKept
<1>5. ASSUME NEW c \in Made, Touches(c), known' = known, events' = events,
             sockets'[c].theirs = sockets[c].theirs, sockets'[c].taken = sockets[c].taken,
             clients'[c].readError = clients[c].readError
      PROVE  Goal
  <2>1. sockets[c].taken \in Nat
    BY Recorded, Numerals
  <2> QED
    BY <1>4, <1>5, <2>1
<1>6. CASE Wait
  <2>1. /\ clients' = clients /\ known' = known /\ made' = made /\ events' = events
        /\ \A d \in Made : SameTraffic(sockets'[d], sockets[d])
    BY <1>6, WaitEffect DEF Wait
  <2>2. ASSUME NEW d \in Made PROVE Told(d)'
    BY <2>1 DEF Told, Heard, InOrder, SameTraffic
  <2> QED
    BY <2>1, <2>2 DEF Made
<1>7. CASE NewConnection
  BY <1>1, <1>2, <1>7, NewConnectionEffect DEF NewConnection
<1>8. CASE Timer \/ Notify \/ Incoming
  BY <1>2, <1>8 DEF Timer, Notify, Incoming, NoClient
<1>9. CASE ConnectPlanned
  <2>1. Head(doing.peers) \in Called
    BY <1>9, TailAt, DoingFields DEF ConnectPlanned, Busy, Doing
  <2> QED
    BY <1>3, <1>9, <2>1, CalledPeers DEF ConnectPlanned
<1>10. CASE Erase
  <2>1. PICK c \in Made : Touches(c) /\ Erases(c)
    BY <1>10, EraseEffect DEF Queues
  <2> QED
    BY <2>1, ToldErase DEF PointersValid
<1>11. ASSUME NEW p \in Called, PipeConnect(p) PROVE Goal
  BY <1>3, <1>11, CalledPeers DEF PipeConnect
<1>12. ASSUME NEW c \in Made, PipeClient(c) PROVE Goal
  <2>1. known' = known /\ events' = events
    BY <1>12 DEF PipeClient
  <2>2. CASE c \notin known
    BY <1>2, <1>12, <2>1, <2>2, PipeClientEffect DEF Touches, NoClient
  <2>3. CASE c \in known
    BY <1>5, <1>12, <2>1, <2>3, PipeClientEffect DEF RearmedEffect, SameTraffic
  <2> QED
    BY <2>2, <2>3
<1>13. ASSUME NEW c \in Made, StopWriting(c) PROVE Goal
  <2>1. known' = known /\ events' = events
    BY <1>13 DEF StopWriting
  <2> QED
    BY <1>5, <1>13, <2>1, StopWritingEffect DEF WritingStopped, SameTraffic
<1>14. ASSUME NEW c \in Made, NEW type \in {"Read", "Write"}, ClientEvent(c, type) PROVE Goal
  <2>1. Touches(c) /\ sockets' = sockets /\ known' = known /\ events' = events
    BY <1>14, ClientEventEffect
  <2>2. clients'[c].readError = clients[c].readError
    BY <1>14, ClientEventEffect DEF Connected, Failed, SameFlags
  <2> QED
    BY <1>5, <2>1, <2>2
<1>15. ASSUME NEW c \in Made, NEW round \in 0 .. Rounds, Write(c, round) PROVE Goal
  <2>1. c \in known /\ known' = known /\ events' = events
    BY <1>15, WorksFor DEF Write
  <2>2. Traffic(c)
    OBVIOUS
  <2>3. /\ Touches(c) /\ Buffered(clients'[c], clients[c])
        /\ sockets'[c].theirs = sockets[c].theirs /\ sockets'[c].taken = sockets[c].taken
    BY <1>15, <2>1, <2>2, WriteEffect DEF Traffic
  <2> QED
    BY <1>5, <2>1, <2>3 DEF Buffered, SameClient
<1>16. ASSUME NEW c \in Made, NEW round \in 0 .. Rounds, Check(c, round) PROVE Goal
  <2>1. known' = known /\ Traffic(c) /\ events' = events
    BY <1>16 DEF Check
  <2>2. Touches(c) /\ Buffered(clients'[c], clients[c]) /\ sockets' = sockets
    BY <1>16, <2>1, CheckEffect DEF Traffic
  <2> QED
    BY <1>5, <2>1, <2>2 DEF Buffered, SameClient
<1>17. ASSUME NEW c \in Made, NEW round \in 0 .. Rounds, Read(c, round) PROVE Goal
  <2>1. known' = known /\ Traffic(c) /\ doing = Reading(c, round)
    BY <1>17 DEF Read
  <2>2. /\ Touches(c) /\ Reads(c)
        /\ \/ (\E s \in SocketRecord : ReadingStopped(c, s)) /\ events' = events
           \/ \E n \in Nat : ReadsPacket(c, n)
           \/ ReadsLess(c)
    BY <1>17, <2>1, ReadEffect DEF Traffic
  <2>3. sockets'[c].theirs = sockets[c].theirs
    BY <2>2 DEF Reads
  <2>4. CASE (\E s \in SocketRecord : ReadingStopped(c, s)) /\ events' = events
    BY <1>4, <2>1, <2>2, <2>3, <2>4 DEF ReadingStopped
  <2>5. CASE \E n \in Nat : ReadsPacket(c, n)
    BY <2>1, <2>2, <2>5, ToldPacket
  <2>6. CASE ReadsLess(c)
    <3>1. sockets[c].taken <= sockets'[c].taken
      <4>1. sockets[c].taken \in Nat /\ sockets[c].arrived \in Nat
        BY Recorded, Numerals
      <4> QED
        BY <2>2, <4>1 DEF Reads
    <3> QED
      BY <1>4, <2>1, <2>2, <2>3, <2>6, <3>1 DEF ReadsLess
  <2> QED
    BY <2>2, <2>4, <2>5, <2>6
<1>18. ASSUME NEW c \in Made, Attach(c) PROVE Goal
  <2>1. known' = known /\ events' = events
    BY <1>18 DEF Attach
  <2> QED
    BY <1>5, <1>18, <2>1, AttachEffect DEF SameFlags
<1>19. ASSUME NEW c \in Made, Kernel(c) PROVE Goal
  <2>1. Traffic(c)
    OBVIOUS
  <2>2. /\ Touches(c) /\ Advances(sockets'[c], sockets[c])
        /\ clients' = clients /\ known' = known /\ events' = events
    BY <1>19, <2>1, KernelEffect DEF Traffic, KernelOnly
  <2>3. /\ sockets[c].arrived \in Nat /\ Len(sockets[c].theirs) \in Nat
        /\ sockets[c].taken \in Nat
    BY Recorded, Numerals
  <2>4. 2 * Len(sockets[c].theirs) >= sockets[c].arrived /\ sockets[c].taken <= sockets[c].arrived
    BY <2>1, <2>3 DEF Traffic, Counted
  <2>5. /\ clients'[c].readError = clients[c].readError
        /\ sockets'[c].taken = sockets[c].taken /\ sockets[c].taken <= sockets'[c].taken
    BY <2>2, <2>3 DEF Advances
  <2> QED
    BY <2>2, <2>4, <2>5, ToldKept DEF Advances
<1> HIDE DEF managerVars, Shape
<1> QED
  BY <1>6, <1>7, <1>8, <1>9, <1>10, <1>11, <1>12, <1>13, <1>14, <1>15, <1>16, <1>17, <1>18, <1>19
  DEF Next, TcpThread, Made, Called

-----------------------------------------------------------------------------
(* What waits to be written has somebody's attention.                       *)

Stopping1(c) == doing.at = "stop" /\ doing.client = c

Served(c) ==
    \/ "Write" \in sockets[c].interest /\ ~ Stopping1(c)
    \/ Stopping1(c) /\ doing.error
    \/ sender = c \/ Has(pipe, SentMsg(c))

Minded(c) == Working(c) /\ Pending(clients[c]) => Served(c)

LEMMA ArmedOfAll == Armed <=> \A c \in Made : Minded(c)
  BY DEF Armed, Minded, Served, Stopping1, Has

\* The TCP thread's turn is about client c, if about any.
Turn(c) ==
    \/ doing' = doing
    \/ (doing.at = "stop" => doing.client = c) /\ (doing'.at = "stop" => doing'.client = c)

\* No message about another client than c is lost.
Keeps(c) ==
    /\ \A d : d # c /\ sender = d => sender' = d \/ Has(pipe', SentMsg(d))
    /\ \A d : d # c /\ Has(pipe, SentMsg(d)) => Has(pipe', SentMsg(d))

LEMMA MindedOther ==
    ASSUME NEW c, NEW d, d # c, Turn(c), Keeps(c), clients'[d] = clients[d],
           sockets'[d] = sockets[d], d \in known' => d \in known, Minded(d)
    PROVE  Minded(d)'
<1>1. ASSUME Working(d)', Pending(clients[d])' PROVE Served(d)'
  <2>1. Working(d) /\ Pending(clients[d])
    BY <1>1 DEF Working, Pending
  <2>2. Served(d)
    BY <2>1 DEF Minded
  <2>3. CASE doing' = doing
    BY <2>2, <2>3 DEF Served, Stopping1, Keeps
  <2>4. CASE (doing.at = "stop" => doing.client = c) /\ (doing'.at = "stop" => doing'.client = c)
    <3>1. ~ Stopping1(d) /\ ~ Stopping1(d)'
      BY <2>4 DEF Stopping1
    <3> QED
      BY <2>2, <3>1 DEF Served, Keeps
  <2> QED
    BY <2>3, <2>4 DEF Turn
<1> QED
  BY <1>1 DEF Minded

LEMMA MindedFrame ==
    ASSUME Objects, NEW c \in Made, Touches(c), known' \subseteq known, Turn(c), Keeps(c),
           \A d \in Made : Minded(d), Minded(c)'
    PROVE  \A d \in Made' : Minded(d)'
<1> SUFFICES ASSUME NEW d \in Made, d # c PROVE Minded(d)'
  BY DEF Touches, Made
<1> QED
  BY MindedOther DEF Touches

\* Nothing that matters to any client.
LEMMA MindedSame ==
    ASSUME Objects, NoClient, Turn(0), Keeps(0), \A d \in Made : Minded(d)
    PROVE  \A d \in Made' : Minded(d)'
<1> SUFFICES ASSUME NEW d \in Made PROVE Minded(d)'
  BY DEF NoClient, Made
<1>1. d # 0
  BY DEF Objects, Made
<1> QED
  BY <1>1, MindedOther DEF NoClient

LEMMA MindedCreated ==
    ASSUME Objects, NEW k, NEW s, Creates(k, s), Turn(0), Keeps(0), \A d \in Made : Minded(d),
           \/ k.state = "Disconnected"
           \/ Has(pipe', SentMsg(made + 1))
    PROVE  \A d \in Made' : Minded(d)'
<1>1. Made' = Made \cup {made + 1} /\ made + 1 \notin Made
  BY CreatesObjects DEF Objects, Made
<1>2. ASSUME NEW d \in Made PROVE Minded(d)'
  <2>1. /\ clients'[d] = clients[d] /\ sockets'[d] = sockets[d] /\ (d \in known' <=> d \in known)
        /\ d # 0
    BY <1>1 DEF Creates, Objects, Made
  <2> QED
    BY <2>1, MindedOther
<1>3. ASSUME NEW d, d = made + 1 PROVE Minded(d)'
  BY <1>3 DEF Minded, Working, Served, Creates
<1> QED
  BY <1>1, <1>2, <1>3

LEMMA KeepsIf ==
    ASSUME Shape, Shape'
    PROVE  /\ pipe' = pipe /\ sender' = sender => \A c : Keeps(c)
           /\ \A m : pipe' = Append(pipe, m) /\ (sender' = sender \/ m = SentMsg(sender))
                 => Has(pipe', m) /\ \A c : Keeps(c)
           /\ pipe # <<>> /\ pipe' = Tail(pipe) /\ sender' = sender
                 => \A c : (\A d : Head(pipe) = SentMsg(d) => d = c) => Keeps(c)
<1>1. pipe \in Seq(MadeMsg)
  BY DEF Shape, Queues
<1>2. pipe' = pipe /\ sender' = sender => \A c : Keeps(c)
  BY DEF Keeps
<1>3. ASSUME NEW m, pipe' = Append(pipe, m), sender' = sender \/ m = SentMsg(sender)
      PROVE  Has(pipe', m) /\ \A c : Keeps(c)
  <2>1. m \in MadeMsg'
    <3>1. pipe' \in Seq(MadeMsg') /\ Len(pipe') = Len(pipe) + 1 /\ pipe'[Len(pipe) + 1] = m
      BY <1>1, <1>3 DEF Shape, Queues
    <3>2. Len(pipe) + 1 \in 1 .. Len(pipe')
      BY <1>1, <3>1
    <3> QED
      BY <3>1, <3>2, ElementOfSeq
  <2>2. pipe \in Seq(MadeMsg \cup MadeMsg')
    BY <1>1, Widened
  <2>3. \A y : Has(pipe', y) <=> Has(pipe, y) \/ m = y
    BY <1>3, <2>1, <2>2, AppendHas
  <2> QED
    BY <1>3, <2>3 DEF Keeps
<1>4. ASSUME pipe # <<>>, pipe' = Tail(pipe), sender' = sender,
             NEW c, \A d : Head(pipe) = SentMsg(d) => d = c
      PROVE  Keeps(c)
  <2>1. \A y : Has(pipe, y) <=> Head(pipe) = y \/ Has(pipe', y)
    BY <1>1, <1>4, TailHas
  <2> QED
    BY <1>4, <2>1 DEF Keeps
<1> QED
  BY <1>2, <1>3, <1>4

LEMMA IdleTurn == ASSUME Busy("idle") \/ Busy("connect"), doing'.at # "stop" PROVE \A c : Turn(c)
  BY DEF Turn, Busy

\* A message in the pipe is for its client.
LEMMA HeadFor ==
    ASSUME NEW d, Head(pipe) = SentMsg(d)
    PROVE  Head(pipe).type # "Connect" /\ Head(pipe).client = d
  BY MsgFields

LEMMA MindedStep ==
    ASSUME Shape, Shape', Timely, Stopped, \A d \in Made : Minded(d) /\ Traffic(d), Next
    PROVE  \A d \in Made' : Minded(d)'
<1> DEFINE Goal == \A d \in Made' : Minded(d)'
<1> USE DEF Shape, managerVars
<1>1. ASSUME NEW p \in Peer, CreateConnection(p), Turn(0), Keeps(0) PROVE Goal
  <2>1. NewClient(p, "Disconnected").state = "Disconnected"
    BY DEF NewClient
  <2> QED
    BY <1>1, <2>1, CreateConnectionEffect, MindedSame, MindedCreated
<1>2. CASE Wait
  <2>1. /\ clients' = clients /\ known' = known /\ made' = made /\ doing' = doing
        /\ pipe' = pipe /\ sender' = sender
        /\ \A d \in Made : sockets'[d].interest = sockets[d].interest
    BY <1>2, WaitEffect DEF Wait
  <2>2. ASSUME NEW d \in Made PROVE Minded(d)'
    BY <2>1 DEF Minded, Working, Served, Stopping1
  <2> QED
    BY <2>1, <2>2 DEF Made
<1>3. CASE NewConnection
  <2>1. doing' = doing /\ sender' = sender
    BY <1>3 DEF NewConnection
  <2>2. CASE NoClient /\ pipe' = pipe
    <3>1. Keeps(0) /\ Turn(0)
      BY <2>1, <2>2, KeepsIf DEF Turn
    <3> QED
      BY <2>2, <3>1, MindedSame
  <2>3. CASE pipe' = Append(pipe, SentMsg(made + 1))
    <3>1. Has(pipe', SentMsg(made + 1)) /\ Keeps(0) /\ Turn(0)
      BY <2>1, <2>3, KeepsIf DEF Turn
    <3> QED
      BY <1>3, <2>2, <3>1, NewConnectionEffect, MindedCreated
  <2> QED
    BY <1>3, <2>2, <2>3, NewConnectionEffect
<1>4. CASE Timer
  <2>1. NoClient /\ Keeps(0)
    BY <1>4, KeepsIf DEF Timer, NoClient
  <2>2. Turn(0)
    BY <1>4, DoingFields, IdleTurn DEF Timer, Handling
  <2> QED
    BY <2>1, <2>2, MindedSame
<1>5. CASE Notify
  <2>1. NoClient /\ Keeps(0) /\ Turn(0)
    BY <1>5, KeepsIf DEF Notify, NoClient, Turn
  <2> QED
    BY <2>1, MindedSame
<1>6. CASE Incoming
  <2>1. NoClient /\ Keeps(0) /\ Turn(0)
    BY <1>6, KeepsIf DEF Incoming, NoClient, Turn
  <2> QED
    BY <2>1, MindedSame
<1>7. CASE ConnectPlanned
  <2>1. Head(doing.peers) \in Called
    BY <1>7, TailAt, DoingFields DEF ConnectPlanned, Busy, Doing
  <2>2. Turn(0)
    BY <1>7, DoingFields, IdleTurn DEF ConnectPlanned
  <2>3. Keeps(0)
    BY <1>7, KeepsIf DEF ConnectPlanned
  <2> QED
    BY <1>1, <1>7, <2>1, <2>2, <2>3, CalledPeers DEF ConnectPlanned
<1>8. CASE Erase
  <2>1. PICK c \in Made : Touches(c) /\ Erases(c)
    BY <1>8, EraseEffect DEF Queues
  <2>2. Turn(c) /\ Keeps(c) /\ Minded(c)'
    BY <2>1, KeepsIf DEF Erases, Turn, Minded, Working
  <2> QED
    BY <2>1, <2>2, MindedFrame DEF Erases
<1>9. ASSUME NEW p \in Called, PipeConnect(p) PROVE Goal
  <2>1. /\ doing' = doing /\ pipe # <<>> /\ Head(pipe) = ConnectMsg(p) /\ pipe' = Tail(pipe)
        /\ sender' = sender /\ CreateConnection(p)
    BY <1>9 DEF PipeConnect
  <2>2. Keeps(0) /\ Turn(0)
    BY <2>1, KeepsIf, HeadFor, MsgFields DEF Turn
  <2> QED
    BY <1>1, <2>1, <2>2, CalledPeers
<1>10. ASSUME NEW c \in Made, PipeClient(c) PROVE Goal
  <2>1. /\ known' = known /\ doing' = doing /\ pipe # <<>> /\ pipe' = Tail(pipe)
        /\ sender' = sender /\ Head(pipe).client = c /\ doing.at = "idle"
    BY <1>10 DEF PipeClient, Handling, Busy
  <2>2. Keeps(c) /\ Turn(c) /\ Touches(c)
    BY <1>10, <2>1, KeepsIf, HeadFor, PipeClientEffect DEF Turn
  <2>3. Minded(c)'
    <3>1. CASE c \notin known
      BY <2>1, <3>1 DEF Minded, Working
    <3>2. CASE c \in known
      <4>1. RearmedEffect(c)
        BY <1>10, <3>2, PipeClientEffect
      <4> QED
        BY <2>1, <4>1 DEF RearmedEffect, Minded, Working, Served, Stopping1
    <3> QED
      BY <3>1, <3>2
  <2> QED
    BY <2>1, <2>2, <2>3, MindedFrame
<1>11. ASSUME NEW c \in Made, StopWriting(c) PROVE Goal
  <2>1. known' = known /\ pipe' = pipe /\ sender' = sender /\ doing' = Idle
    BY <1>11 DEF StopWriting
  <2>2. PICK error \in BOOLEAN : Touches(c) /\ WritingStopped(c, error)
    BY <1>11, StopWritingEffect
  <2>3. doing = Stopping(c, error) /\ doing.at = "stop" /\ doing.client = c /\ doing.error = error
    BY <2>2, DoingFields DEF WritingStopped
  <2>4. Turn(c) /\ Keeps(c)
    BY <2>1, <2>3, DoingFields, KeepsIf DEF Turn
  <2>5. ASSUME Working(c)', Pending(clients[c])' PROVE Served(c)'
    <3>1. Working(c) /\ ~ error
      BY <2>1, <2>2, <2>3, <2>5 DEF WritingStopped, Working, SameIdentity, Stopped
    <3>2. Pending(clients[c])
      BY <2>2, <2>5, SameBuffersKeep DEF WritingStopped
    <3>3. sender = c \/ Has(pipe, SentMsg(c))
      BY <2>3, <3>1, <3>2 DEF Minded, Served, Stopping1
    <3> QED
      BY <2>1, <3>3 DEF Served
  <2> QED
    BY <2>1, <2>2, <2>4, <2>5, MindedFrame DEF Minded
<1>12. ASSUME NEW c \in Made, NEW type \in {"Read", "Write"}, ClientEvent(c, type) PROVE Goal
  <2>1. /\ Touches(c) /\ sockets' = sockets /\ known' = known /\ sender' = sender
        /\ doing.at = "idle" /\ Busy("idle")
    BY <1>12, ClientEventEffect DEF ClientEvent, Handling, Busy
  <2>2. doing' = doing \/ doing' = Handler(c, type)
    BY <1>12, ClientEventEffect
  <2>3. Turn(c) /\ ~ Stopping1(c) /\ ~ Stopping1(c)'
    <3>1. doing'.at # "stop"
      BY <2>1, <2>2, HandlerIs, DoingFields
    <3> QED
      BY <2>1, <3>1, IdleTurn DEF Stopping1
  <2>4. CASE clients' = clients /\ pipe' = pipe
    <3>1. Minded(c)'
      BY <2>1, <2>3, <2>4 DEF Minded, Working, Served
    <3> QED
      BY <2>1, <2>3, <2>4, <3>1, KeepsIf, MindedFrame
  <2>5. CASE Connected(c)
    <3>1. Has(pipe', SentMsg(c)) /\ Keeps(c)
      BY <2>1, <2>5, KeepsIf DEF Connected
    <3> QED
      BY <2>1, <2>3, <3>1, MindedFrame DEF Minded, Served
  <2>6. CASE Failed(c)
    <3>1. Keeps(c) /\ Minded(c)'
      BY <2>1, <2>6, KeepsIf DEF Failed, Minded, Working
    <3> QED
      BY <2>1, <2>3, <3>1, MindedFrame
  <2> QED
    BY <1>12, <2>4, <2>5, <2>6, ClientEventEffect
<1>13. ASSUME NEW c \in Made, Stops(c, clients'[c]), Buffered(clients'[c], clients[c]),
              doing.at # "stop"
       PROVE  Turn(c) /\ Minded(c)'
  <2>1. PICK e \in BOOLEAN : /\ doing' = Stopping(c, e)
                             /\ ~ e => clients'[c].writeError \/ ~ Pending(clients'[c])
    BY <1>13 DEF Stops
  <2>2. doing'.at = "stop" /\ doing'.client = c /\ doing'.error = e
    BY <2>1, DoingFields
  <2> QED
    BY <1>13, <2>1, <2>2 DEF Turn, Minded, Working, Served, Stopping1
\* The TCP thread goes on with the client, and the socket and its messages are as before.
<1>14. ASSUME NEW c \in Made, Buffered(clients'[c], clients[c]), doing.at # "stop",
              doing'.at # "stop", sockets'[c].interest = sockets[c].interest, known' = known,
              pipe' = pipe, sender' = sender
       PROVE  Turn(c) /\ Minded(c)'
  <2>1. Turn(c) /\ ~ Stopping1(c) /\ ~ Stopping1(c)'
    BY <1>14 DEF Turn, Stopping1
  <2>2. ASSUME Working(c)', Pending(clients[c])' PROVE Served(c)'
    <3>1. Working(c) /\ Pending(clients[c])
      BY <1>14, <2>2 DEF Working, Buffered, SameClient
    <3> QED
      BY <1>14, <2>1, <3>1 DEF Minded, Served
  <2> QED
    BY <2>1, <2>2 DEF Minded
<1>15. ASSUME NEW c \in Made, NEW round \in 0 .. Rounds, Write(c, round) PROVE Goal
  <2>1. /\ known' = known /\ pipe' = pipe /\ sender' = sender /\ doing = Writing(c, round)
        /\ doing.at = "write" /\ c \in known /\ Keeps(c)
    BY <1>15, WorksFor, DoingFields, KeepsIf DEF Write
  <2>2. Traffic(c)
    OBVIOUS
  <2>3. /\ Touches(c) /\ Buffered(clients'[c], clients[c])
        /\ sockets'[c].interest = sockets[c].interest
        /\ doing' = doing \/ Stops(c, clients'[c]) \/ doing' = Checking(c, round)
    BY <1>15, <2>1, <2>2, WriteEffect DEF Traffic
  <2>4. Turn(c) /\ Minded(c)'
    BY <1>13, <1>14, <2>1, <2>3, DoingFields
  <2> QED
    BY <2>1, <2>3, <2>4, MindedFrame
<1>16. ASSUME NEW c \in Made, NEW round \in 0 .. Rounds, Check(c, round) PROVE Goal
  <2>1. /\ known' = known /\ pipe' = pipe /\ sender' = sender /\ doing = Checking(c, round)
        /\ doing.at = "check" /\ Keeps(c) /\ Traffic(c)
    BY <1>16, DoingFields, KeepsIf DEF Check
  <2>2. /\ Touches(c) /\ Buffered(clients'[c], clients[c]) /\ sockets' = sockets
        /\ doing' = Idle \/ Stops(c, clients'[c]) \/ doing' = Writing(c, round + 1)
    BY <1>16, <2>1, CheckEffect DEF Traffic
  <2>3. Turn(c) /\ Minded(c)'
    BY <1>13, <1>14, <2>1, <2>2, DoingFields
  <2> QED
    BY <2>1, <2>2, <2>3, MindedFrame
<1>17. ASSUME NEW c \in Made, NEW round \in 0 .. Rounds, Read(c, round) PROVE Goal
  <2>1. known' = known /\ Traffic(c) /\ doing = Reading(c, round) /\ sender' = sender
    BY <1>17 DEF Read
  <2>2. doing.at = "read"
    BY <2>1, DoingFields
  <2>3. /\ Touches(c) /\ Reads(c)
        /\ \/ /\ \E s \in SocketRecord : ReadingStopped(c, s)
              /\ doing' = Idle /\ pipe' = pipe
           \/ /\ \E n \in Nat : ReadsPacket(c, n)
              /\ doing' = Idle \/ doing' = Reading(c, round + 1)
           \/ ReadsLess(c)
    BY <1>17, <2>1, ReadEffect DEF Traffic
  <2>4. doing'.at # "stop" /\ Turn(c) /\ ~ Stopping1(c) /\ ~ Stopping1(c)'
    <3>1. doing'.at # "stop"
      BY <2>3, DoingFields DEF ReadsLess
    <3> QED
      BY <2>2, <3>1 DEF Turn, Stopping1
  <2>5. Keeps(c) /\ (Has(pipe, SentMsg(c)) => Has(pipe', SentMsg(c)))
    <3>1. pipe' = pipe \/ pipe' = Append(pipe, DisconnectMsg(c))
      BY <2>3 DEF ReadsPacket, ReadsLess, Receive
    <3>2. Keeps(c) /\ Keeps(0)
      BY <2>1, <3>1, KeepsIf
    <3>3. c # 0
      BY DEF Made
    <3> QED
      BY <3>2, <3>3 DEF Keeps
  <2>6. CASE \E s \in SocketRecord : ReadingStopped(c, s)
    <3>1. \/ "Write" \in sockets'[c].interest
          \/ clients'[c].dead
      BY <2>6 DEF ReadingStopped
    <3>2. Minded(c)'
      BY <2>4, <3>1 DEF Minded, Working, Served
    <3> QED
      BY <2>1, <2>3, <2>4, <2>5, <3>2, MindedFrame
  <2>7. CASE clients' = clients /\ sockets'[c].interest = sockets[c].interest
    <3>1. Minded(c)'
      BY <2>1, <2>4, <2>5, <2>7 DEF Minded, Working, Served
    <3> QED
      BY <2>1, <2>3, <2>4, <2>5, <3>1, MindedFrame
  <2> QED
    BY <2>3, <2>6, <2>7 DEF ReadsPacket, ReadsLess
<1>18. ASSUME NEW c \in Made, Attach(c) PROVE Goal
  <2>1. known' = known /\ pipe' = pipe /\ doing' = doing /\ sender = 0 /\ sender' = c /\ c # 0
    BY <1>18 DEF Attach, Made
  <2>2. Turn(c) /\ Minded(c)'
    BY <2>1 DEF Turn, Minded, Served
  <2>3. ASSUME NEW d \in Made, d # c PROVE Minded(d)'
    <3>1. clients'[d] = clients[d] /\ sockets'[d] = sockets[d] /\ d # 0
      BY <1>18, <2>3, AttachEffect DEF Touches, Made
    <3> QED
      BY <2>1, <3>1 DEF Minded, Working, Served, Stopping1
  <2> QED
    BY <1>18, <2>2, <2>3, AttachEffect DEF Touches, Made
<1>19. ASSUME NEW c \in Made, Kernel(c) PROVE Goal
  <2>1. Traffic(c)
    OBVIOUS
  <2>2. /\ Touches(c) /\ Advances(sockets'[c], sockets[c])
        /\ clients' = clients /\ known' = known /\ doing' = doing /\ pipe' = pipe
        /\ sender' = sender
    BY <1>19, <2>1, KernelEffect DEF Traffic, KernelOnly
  <2>3. Turn(c) /\ Keeps(c)
    BY <2>2, KeepsIf DEF Turn
  <2>4. Minded(c)'
    BY <2>2 DEF Minded, Working, Served, Stopping1, Advances
  <2> QED
    BY <2>2, <2>3, <2>4, MindedFrame
<1> HIDE DEF managerVars, Shape
<1> QED
  BY <1>2, <1>3, <1>4, <1>5, <1>6, <1>7, <1>8, <1>9, <1>10, <1>11, <1>12, <1>15, <1>16, <1>17,
     <1>18, <1>19
  DEF Next, TcpThread, Made, Called


-----------------------------------------------------------------------------
(* stopWriting does not take back an error.                                 *)

LEMMA Quiet == ASSUME doing'.at \notin {"stop", "read"} PROVE Stopped'
  BY DEF Stopped

LEMMA StoppedSame ==
    ASSUME Objects, Doing, Stopped, doing' = doing,
           \A d \in Made : /\ clients'[d].readError = clients[d].readError
                           /\ clients'[d].writeError = clients[d].writeError
    PROVE  Stopped'
<1>1. CASE doing.at \in {"stop", "read"}
  <2>1. doing.client \in Made
    BY <1>1, DoingFields DEF Doing, Objects
  <2> QED
    BY <2>1 DEF Stopped
<1>2. CASE doing.at \notin {"stop", "read"}
  BY <1>2, Quiet
<1> QED
  BY <1>1, <1>2

LEMMA StoppedStep ==
    ASSUME Shape, Timely, Stopped, \A d \in Made : Traffic(d), Next
    PROVE  Stopped'
<1> USE DEF Shape, managerVars, kernelVars
<1>1. CASE Wait \/ NewConnection \/ Erase \/ \E p \in Called : PipeConnect(p)
  BY <1>1, Quiet DEF Wait, NewConnection, Erase, PipeConnect, Handling, Busy
<1>2. CASE Timer
  BY <1>2, Quiet, DoingFields DEF Timer
<1>3. CASE ConnectPlanned
  BY <1>3, Quiet, DoingFields DEF ConnectPlanned
<1>4. CASE Notify \/ Incoming
  BY <1>4, StoppedSame DEF Notify, Incoming
<1>5. ASSUME NEW c \in Made, PipeClient(c) PROVE Stopped'
  BY <1>5, Quiet DEF PipeClient, Handling, Busy
<1>6. ASSUME NEW c \in Made, StopWriting(c) PROVE Stopped'
  BY <1>6, Quiet, DoingFields DEF StopWriting
<1>7. ASSUME NEW c \in Made, NEW type \in {"Read", "Write"}, ClientEvent(c, type) PROVE Stopped'
  <2>1. doing.at = "idle" /\ clients'[c].readError = clients[c].readError
    BY <1>7, ClientEventEffect DEF ClientEvent, Handling, Busy, Connected, Failed, SameFlags
  <2>2. doing' = doing \/ doing' = Handler(c, type)
    BY <1>7, ClientEventEffect
  <2>3. CASE doing' = Reading(c, 0) /\ ~ clients[c].readError
    BY <2>1, <2>3, DoingFields DEF Stopped
  <2>4. CASE doing' \in {doing, Idle, Writing(c, 0)}
    BY <2>1, <2>4, Quiet, DoingFields
  <2> QED
    BY <2>2, <2>3, <2>4, HandlerIs
<1>8. ASSUME NEW c \in Made, Stops(c, clients'[c]) PROVE Stopped'
  BY <1>8, DoingFields DEF Stops, Stopped
<1>9. ASSUME NEW c \in Made, NEW round \in 0 .. Rounds, Write(c, round) PROVE Stopped'
  <2>1. doing = Writing(c, round) /\ c \in known /\ Traffic(c)
    BY <1>9, WorksFor DEF Write
  <2>2. doing' = doing \/ Stops(c, clients'[c]) \/ doing' = Checking(c, round)
    BY <1>9, <2>1, WriteEffect DEF Traffic
  <2> QED
    BY <1>8, <2>1, <2>2, Quiet, DoingFields
<1>10. ASSUME NEW c \in Made, NEW round \in 0 .. Rounds, Check(c, round) PROVE Stopped'
  <2>1. Traffic(c)
    OBVIOUS
  <2>2. doing' = Idle \/ Stops(c, clients'[c]) \/ doing' = Writing(c, round + 1)
    BY <1>10, <2>1, CheckEffect DEF Traffic
  <2> QED
    BY <1>8, <2>2, Quiet, DoingFields
<1>11. ASSUME NEW c \in Made, NEW round \in 0 .. Rounds, Read(c, round) PROVE Stopped'
  <2>1. doing = Reading(c, round) /\ Traffic(c)
    BY <1>11 DEF Read
  <2>2. ~ clients[c].readError
    BY <2>1, DoingFields DEF Stopped
  <2>3. doing' = Idle \/ (doing' = Reading(c, round + 1) /\ clients' = clients)
    BY <1>11, <2>1, ReadEffect DEF Traffic, ReadsPacket, ReadsLess
  <2> QED
    BY <2>2, <2>3, Quiet, DoingFields DEF Stopped
<1>12. ASSUME NEW c \in Made, Attach(c) PROVE Stopped'
  <2>1. doing' = doing
    BY <1>12 DEF Attach
  <2>2. \A d \in Made : /\ clients'[d].readError = clients[d].readError
                        /\ clients'[d].writeError = clients[d].writeError
    BY <1>12, AttachEffect DEF Touches, SameFlags
  <2> QED
    BY <2>1, <2>2, StoppedSame
<1>13. ASSUME NEW c \in Made, Kernel(c) PROVE Stopped'
  BY <1>13, KernelEffect, StoppedSame DEF KernelOnly, Traffic
<1> HIDE DEF managerVars, Shape
<1> QED
  BY <1>1, <1>2, <1>3, <1>4, <1>5, <1>6, <1>7, <1>9, <1>10, <1>11, <1>12, <1>13
  DEF Next, TcpThread, Made, Called

-----------------------------------------------------------------------------
(* Clients keep their peer, lose their info, and are connected once.        *)

Older(a, k) ==
    /\ a.peer = k.peer /\ (a.info => k.info)
    /\ a.state = "Disconnected" => k.state = "Disconnected" /\ a.posted = k.posted

\* The ways in which a step changes the clients.
Ages ==
    /\ Objects' /\ made <= made'
    /\ \A d \in Made : Older(clients'[d], clients[d])
    /\ \A d \in known' : d \in Made => d \in known
    /\ \/ known \subseteq known'
       \/ \E c \in Made : Touches(c) /\ Erases(c)

LEMMA AgesCreated == ASSUME Objects, NEW k, NEW s, Creates(k, s) PROVE Ages
<1>1. Objects' /\ made <= made' /\ known \subseteq known'
  BY CreatesObjects
<1>2. \A d \in Made : Older(clients'[d], clients[d])
  BY DEF Creates, Older
<1>3. \A d \in known' : d \in Made => d \in known
  BY DEF Creates, Made, Objects
<1> QED
  BY <1>1, <1>2, <1>3 DEF Ages

LEMMA AgesSame == ASSUME Objects, NoClient PROVE Ages
  BY DEF Ages, Older, NoClient, Objects, Made

LEMMA AgesTouched ==
    ASSUME Objects, NEW c \in Made, Touches(c), known' = known, Older(clients'[c], clients[c])
    PROVE  Ages
<1>1. Objects' /\ made' = made
  BY TouchesObjects
<1>2. ASSUME NEW d \in Made PROVE Older(clients'[d], clients[d])
  BY DEF Touches, Older
<1>3. made <= made'
  BY <1>1 DEF Objects
<1> QED
  BY <1>1, <1>2, <1>3 DEF Ages

LEMMA AgesStep == ASSUME Shape, Timely, \A d \in Made : Traffic(d), Next PROVE Ages
<1> USE DEF Shape, managerVars
<1>1. ASSUME NEW p \in Peer, CreateConnection(p) PROVE Ages
  BY <1>1, CreateConnectionEffect, AgesSame, AgesCreated
<1>2. CASE Wait
  <2>1. clients' = clients /\ known' = known /\ made' = made /\ Objects'
    BY <1>2, WaitEffect DEF Wait
  <2> QED
    BY <2>1 DEF Ages, Older, Objects
<1>3. CASE NewConnection
  BY <1>3, NewConnectionEffect, AgesSame, AgesCreated
<1>4. CASE Timer \/ Notify \/ Incoming
  BY <1>4, AgesSame DEF Timer, Notify, Incoming, NoClient
<1>5. CASE ConnectPlanned
  <2>1. Head(doing.peers) \in Called
    BY <1>5, TailAt, DoingFields DEF ConnectPlanned, Busy, Doing
  <2> QED
    BY <1>1, <1>5, <2>1, CalledPeers DEF ConnectPlanned
<1>6. CASE Erase
  <2>1. PICK c \in Made : Touches(c) /\ Erases(c)
    BY <1>6, EraseEffect DEF Queues
  <2>2. Objects' /\ made' = made /\ clients' = clients /\ known' \subseteq known
    BY <2>1, TouchesObjects DEF Erases
  <2> QED
    BY <2>1, <2>2 DEF Ages, Older, Objects
<1>7. ASSUME NEW p \in Called, PipeConnect(p) PROVE Ages
  BY <1>1, <1>7, CalledPeers DEF PipeConnect
<1>8. ASSUME NEW c \in Made, PipeClient(c) PROVE Ages
  <2>1. known' = known
    BY <1>8 DEF PipeClient
  <2>2. CASE c \notin known
    BY <1>8, <2>1, <2>2, PipeClientEffect, AgesSame DEF Touches, NoClient
  <2>3. CASE c \in known
    BY <1>8, <2>1, <2>3, PipeClientEffect, AgesTouched
    DEF RearmedEffect, SameIdentity, SameBuffers, Older
  <2> QED
    BY <2>2, <2>3
<1>9. ASSUME NEW c \in Made, StopWriting(c) PROVE Ages
  <2>1. known' = known
    BY <1>9 DEF StopWriting
  <2> QED
    BY <1>9, <2>1, StopWritingEffect, AgesTouched
    DEF WritingStopped, SameIdentity, SameBuffers, Older
<1>10. ASSUME NEW c \in Made, NEW type \in {"Read", "Write"}, ClientEvent(c, type) PROVE Ages
  <2>1. Touches(c) /\ known' = known
    BY <1>10, ClientEventEffect
  <2>2. Older(clients'[c], clients[c])
    BY <1>10, ClientEventEffect DEF Connected, Failed, SameBuffers, Older
  <2> QED
    BY <2>1, <2>2, AgesTouched
<1>11. ASSUME NEW c \in Made, known' = known, Touches(c), Buffered(clients'[c], clients[c])
       PROVE  Ages
  BY <1>11, AgesTouched DEF Buffered, SameClient, Older
<1>12. ASSUME NEW c \in Made, NEW round \in 0 .. Rounds, Write(c, round) PROVE Ages
  <2>1. c \in known /\ known' = known /\ Traffic(c)
    BY <1>12, WorksFor DEF Write
  <2> QED
    BY <1>11, <1>12, <2>1, WriteEffect DEF Traffic
<1>13. ASSUME NEW c \in Made, NEW round \in 0 .. Rounds, Check(c, round) PROVE Ages
  <2>1. known' = known /\ Traffic(c)
    BY <1>13 DEF Check
  <2> QED
    BY <1>11, <1>13, <2>1, CheckEffect DEF Traffic
<1>14. ASSUME NEW c \in Made, NEW round \in 0 .. Rounds, Read(c, round) PROVE Ages
  <2>1. known' = known /\ Traffic(c)
    BY <1>14 DEF Read
  <2>2. Touches(c) /\ ((\E s : ReadingStopped(c, s)) \/ clients' = clients)
    BY <1>14, <2>1, ReadEffect DEF Traffic, ReadsPacket, ReadsLess
  <2> QED
    BY <2>1, <2>2, AgesTouched DEF ReadingStopped, SameIdentity, Older
<1>15. ASSUME NEW c \in Made, Attach(c) PROVE Ages
  <2>1. known' = known /\ clients[c].state # "Disconnected"
    BY <1>15 DEF Attach, Introduced, Timely
  <2> QED
    BY <1>15, <2>1, AttachEffect, AgesTouched DEF SameIdentity, Older
<1>16. ASSUME NEW c \in Made, Kernel(c) PROVE Ages
  <2>1. Traffic(c)
    OBVIOUS
  <2>2. Touches(c) /\ clients' = clients /\ known' = known
    BY <1>16, <2>1, KernelEffect DEF Traffic, KernelOnly
  <2> QED
    BY <2>2, AgesTouched DEF Older
<1> HIDE DEF managerVars, Shape
<1> QED
  BY <1>2, <1>3, <1>4, <1>5, <1>6, <1>7, <1>8, <1>9, <1>10, <1>12, <1>13, <1>14, <1>15, <1>16
  DEF Next, TcpThread, Made, Called

-----------------------------------------------------------------------------
(* Types, step by step.                                                     *)

\* The step makes client d for the connect call for p.
ConnectsTo(p, d) ==
    /\ PipeConnect(p) \/ (ConnectPlanned /\ Head(doing.peers) = p)
    /\ Creates(NewClient(p, "Disconnected"), NewSocket("connecting", {"Read", "Write"}))
    /\ d = made + 1

Accepts(d) ==
    /\ NewConnection
    /\ Creates(Attached(NewClient(None, "Connected")), NewSocket("open", {"Read"}))
    /\ d = made + 1

LEMMA MadeSame ==
    ASSUME Next, made' # made
    PROVE  NewConnection \/ ConnectPlanned \/ \E p \in Called : PipeConnect(p)
<1>1. /\ Wait => made' = made
      /\ Timer \/ Erase \/ Notify \/ Incoming => made' = made
  BY DEF Wait, Timer, Erase, Notify, Incoming, managerVars
<1>2. \A c \in Made : /\ PipeClient(c) \/ StopWriting(c) => made' = made
                      /\ \A type : ClientEvent(c, type) => made' = made
                      /\ \A round : Write(c, round) \/ Check(c, round) \/ Read(c, round) => made' = made
  BY DEF PipeClient, StopWriting, ClientEvent, Write, Check, Read, managerVars
<1>3. \A c \in Made : Attach(c) \/ Kernel(c) => made' = made
  BY DEF Attach, Kernel, Establish, Arrive, Transmit, Finish, Reset, Changes, managerVars
<1> QED
  BY <1>1, <1>2, <1>3 DEF Next, TcpThread, Made, Called

LEMMA Newcomer ==
    ASSUME Shape, Next
    PROVE  \/ made' = made
           \/ \E d : Accepts(d) \/ \E p \in Called : ConnectsTo(p, d)
<1> USE DEF Shape
<1>1. CASE NewConnection
  BY <1>1, NewConnectionEffect DEF Accepts, NoClient
<1>2. CASE ConnectPlanned
  <2>1. Head(doing.peers) \in Called /\ CreateConnection(Head(doing.peers))
    BY <1>2, TailAt, DoingFields DEF ConnectPlanned, Busy, Doing
  <2>2. Head(doing.peers) \in Peer
    BY <2>1, CalledPeers
  <2> QED
    BY <1>2, <2>1, <2>2, CreateConnectionEffect DEF ConnectsTo, NoClient
<1>3. ASSUME NEW p \in Called, PipeConnect(p)
      PROVE  made' = made \/ \E d : ConnectsTo(p, d)
  <2>1. CreateConnection(p) /\ p \in Peer
    BY <1>3, CalledPeers DEF PipeConnect
  <2> QED
    BY <1>3, <2>1, CreateConnectionEffect DEF ConnectsTo, NoClient
<1> QED
  BY <1>1, <1>2, <1>3, MadeSame

LEMMA NewFields ==
    /\ \A p, state : LET k == NewClient(p, state) IN
          /\ k.peer = p /\ k.state = state /\ k.info = (p # None)
          /\ ~ k.dead /\ ~ k.readError /\ ~ k.writeError /\ k.posted = 0
    /\ LET k == Attached(NewClient(None, "Connected")) IN
          k.peer = None /\ k.state = "Connected" /\ ~ k.info /\ ~ k.dead
<1>1. NewClient(None, "Connected") \in ClientRecord
  BY NewTypes
<1> QED
  BY <1>1, AttachedFields DEF NewClient, SameIdentity, SameFlags

\* The connect calls are for the first n peers.
Outcomes(n) ==
    /\ attempts \in [0 .. n - 1 -> 0 .. Attempts]
    /\ told \in [0 .. n - 1 -> {"Nothing", "Connected", "FailedToEstablish"}]

LEMMA CallsKept ==
    ASSUME Calls, NEW c \in Made, clients[c].info, ClientEvent(c, "Read") \/ ClientEvent(c, "Write"),
           Connected(c) \/ Failed(c), attempts[clients[c].peer] > 0,
           NEW n \in 0 .. Nodes - 1, Outcomes(n)
    PROVE  Outcomes(n)'
<1> DEFINE p == clients[c].peer
<1>1. p \in 0 .. n - 1
  BY DEF Calls, Called, Outcomes
<1> HIDE DEF p
<1>2. attempts[p] - 1 \in 0 .. Attempts
  BY <1>1, AttemptsAssumption DEF p, Outcomes
<1>3. /\ attempts' = attempts \/ attempts' = [attempts EXCEPT ![p] = attempts[p] - 1]
      /\ told' = told \/ \E t \in {"Connected", "FailedToEstablish"} : told' = [told EXCEPT ![p] = t]
  BY <1>1 DEF Connected, Failed, p, Outcomes
<1> QED
  BY <1>1, <1>2, <1>3 DEF Outcomes

FewerComing ==
    \A n \in 0 .. Nodes - 1 :
        backlog + incoming <= Nodes - 1 - n => backlog' + incoming' <= Nodes - 1 - n

LEMMA CallsFrame ==
    ASSUME Shape, Ages, Next,
           \A n \in 0 .. Nodes - 1 : Outcomes(n) => Outcomes(n)',
           backlog' \in Nat, incoming' \in Nat, FewerComing
    PROVE  Calls' /\ Called' = Called
<1>1. PICK n \in 0 .. Nodes - 1 : Outcomes(n) /\ backlog + incoming <= Nodes - 1 - n
  BY DEF Shape, Calls, Outcomes
<1>2. backlog' + incoming' <= Nodes - 1 - n
  BY <1>1 DEF FewerComing
<1>3. Outcomes(n)'
  BY <1>1
<1>4. Called' = Called /\ Called = 0 .. n - 1
  BY <1>1, <1>3 DEF Called, Outcomes
<1>5. ASSUME NEW d \in Made', clients'[d].info PROVE clients'[d].peer \in Called
  <2>1. CASE d \in Made
    BY <1>5, <2>1 DEF Ages, Older, Shape, Calls
  <2>2. CASE d \notin Made
    <3>1. made' # made
      BY <2>2 DEF Made
    <3>2. PICK e : Accepts(e) \/ \E p \in Called : ConnectsTo(p, e)
      BY <3>1, Newcomer
    <3>3. d = e
      BY <2>2, <3>2, CreatesObjects DEF Shape, Accepts, ConnectsTo
    <3> QED
      BY <1>5, <3>2, <3>3, NewFields DEF Accepts, ConnectsTo, Creates
  <2> QED
    BY <2>1, <2>2
<1>6. Calls'
  BY <1>2, <1>3, <1>4, <1>5 DEF Calls, Outcomes
<1> QED
  BY <1>4, <1>6

\* Only events of clients write the outcomes of connect calls, and only accept and other
\* nodes write the connections to come.
LEMMA KernelSame ==
    ASSUME Shape, Timely, Next
    PROVE  \/ \E c \in Made : ClientEvent(c, "Read") \/ ClientEvent(c, "Write")
           \/ attempts' = attempts /\ told' = told
<1>1. Wait \/ Timer \/ Erase \/ Notify \/ Incoming \/ NewConnection \/ ConnectPlanned
      => attempts' = attempts /\ told' = told
  BY DEF Wait, Timer, Erase, Notify, Incoming, NewConnection, ConnectPlanned, managerVars
<1>2. \A p : PipeConnect(p) => attempts' = attempts /\ told' = told
  BY DEF PipeConnect
<1>3. \A c \in Made :
          /\ PipeClient(c) \/ StopWriting(c) => attempts' = attempts /\ told' = told
          /\ \A round : Write(c, round) \/ Check(c, round) \/ Read(c, round)
                => attempts' = attempts /\ told' = told
  BY DEF PipeClient, StopWriting, Write, Check, Read, managerVars
<1>4. \A c \in Made : Attach(c) \/ Kernel(c) => attempts' = attempts /\ told' = told
  BY DEF Attach, Kernel, Establish, Arrive, Transmit, Finish, Reset, Changes, managerVars
<1> QED
  BY <1>1, <1>2, <1>3, <1>4 DEF Next, TcpThread, Made

Moves ==
    \/ backlog' = backlog /\ incoming' = incoming /\ ~ NewConnection
    \/ Incoming /\ backlog' = backlog + 1 /\ incoming' = incoming - 1 /\ ~ NewConnection
    \/ NewConnection /\ backlog > 0 /\ backlog' = backlog - 1 /\ incoming' = incoming

LEMMA MovesFewer ==
    ASSUME backlog \in Nat, incoming \in Nat, backlog' \in Nat, incoming' \in Nat, Moves
    PROVE  FewerComing
<1>1. CASE backlog' = backlog /\ incoming' = incoming
  BY <1>1 DEF FewerComing
<1>2. CASE backlog' = backlog - 1 /\ incoming' = incoming
  BY <1>2, AttemptsAssumption DEF FewerComing
<1>3. CASE backlog' = backlog + 1 /\ incoming' = incoming - 1
  BY <1>3, AttemptsAssumption DEF FewerComing
<1> QED
  BY <1>1, <1>2, <1>3 DEF Moves

LEMMA BacklogStep ==
    ASSUME Shape, Timely, Next
    PROVE  /\ backlog \in Nat /\ incoming \in Nat /\ backlog' \in Nat /\ incoming' \in Nat
           /\ Moves /\ FewerComing
<1>9. backlog \in Nat /\ incoming \in Nat
  BY DEF Shape, Calls
<1>1. ASSUME NewConnection PROVE Moves
  <2>1. backlog > 0 /\ backlog' = backlog - 1 /\ incoming' = incoming
    BY <1>1 DEF NewConnection, Handling, Timely
  <2> QED
    BY <1>1, <2>1 DEF Moves
<1>2. ASSUME Incoming, ~ NewConnection PROVE Moves
  <2>1. backlog' = backlog + 1 /\ incoming' = incoming - 1
    BY <1>2 DEF Incoming
  <2> QED
    BY <1>2, <2>1 DEF Moves
<1>3. ASSUME backlog' = backlog, incoming' = incoming, ~ NewConnection PROVE Moves
  BY <1>3 DEF Moves
<1>4. Wait \/ Timer \/ Erase \/ Notify \/ ConnectPlanned
      => backlog' = backlog /\ incoming' = incoming
  BY DEF Wait, Timer, Erase, Notify, ConnectPlanned, kernelVars
<1>5. \A p : PipeConnect(p) => backlog' = backlog /\ incoming' = incoming
  BY DEF PipeConnect, kernelVars
<1>6. \A c \in Made :
          /\ PipeClient(c) \/ StopWriting(c) => backlog' = backlog /\ incoming' = incoming
          /\ \A type : ClientEvent(c, type) => backlog' = backlog /\ incoming' = incoming
          /\ \A round : Write(c, round) \/ Check(c, round) \/ Read(c, round)
                => backlog' = backlog /\ incoming' = incoming
  BY DEF PipeClient, StopWriting, ClientEvent, Write, Check, Read, kernelVars
<1>7. \A c \in Made : Attach(c) \/ Kernel(c) => backlog' = backlog /\ incoming' = incoming
  BY DEF Attach, Kernel, Establish, Arrive, Transmit, Finish, Reset, Changes, kernelVars
<1>8. Moves
  BY <1>1, <1>2, <1>3, <1>4, <1>5, <1>6, <1>7 DEF Next, TcpThread, Made
<1>10. backlog' \in Nat /\ incoming' \in Nat
  <2>1. incoming' = incoming - 1 /\ Incoming => incoming > 0
    BY DEF Incoming
  <2> QED
    BY <1>8, <1>9, <2>1 DEF Moves
<1> QED
  BY <1>8, <1>9, <1>10, MovesFewer

LEMMA EventKnown ==
    ASSUME Shape, NEW c, NEW type \in {"Read", "Write"}, ClientEvent(c, type)
    PROVE  c \in known
<1>1. [type |-> type, client |-> c] \in batch
  BY DEF ClientEvent, Handling
<1>2. [type |-> type, client |-> c] \in Rearming
  BY <1>1 DEF Shape, Queues, PipeEvent, TimerEvent, ListenEvent
<1> QED
  BY <1>2 DEF Rearming

LEMMA CallsStep ==
    ASSUME Shape, Timely, \A d \in Made : Traffic(d), \A p \in Called : Sole(p), Next
    PROVE  Calls' /\ Called' = Called
<1>1. Ages
  BY AgesStep
<1>2. backlog' \in Nat /\ incoming' \in Nat /\ FewerComing
  BY BacklogStep
<1>3. ASSUME NEW n \in 0 .. Nodes - 1, Outcomes(n) PROVE Outcomes(n)'
  <2>1. CASE attempts' = attempts /\ told' = told
    BY <1>3, <2>1 DEF Outcomes
  <2>2. ASSUME NEW c \in Made, NEW type \in {"Read", "Write"}, ClientEvent(c, type),
               Connected(c) \/ Failed(c)
        PROVE  Outcomes(n)'
    <3>1. c \in known /\ clients[c].info /\ clients[c].peer \in Called
      BY <2>2, EventKnown DEF Connected, Failed, Shape, Calls
    <3>2. attempts[clients[c].peer] > 0
      BY <3>1 DEF Sole, InClient
    <3> QED
      BY <1>3, <2>2, <3>1, <3>2, CallsKept DEF Shape
  <2>3. ASSUME NEW c \in Made, NEW type \in {"Read", "Write"}, ClientEvent(c, type)
        PROVE  Outcomes(n)'
    BY <2>1, <2>2, <2>3, ClientEventEffect DEF Shape
  <2> QED
    BY <2>1, <2>3, KernelSame
<1> QED
  BY <1>1, <1>2, <1>3, CallsFrame

LEMMA Works ==
    ASSUME NEW c \in known', NEW r \in 0 .. Rounds, NEW error \in BOOLEAN,
           doing' \in {Reading(c, r), Writing(c, r), Checking(c, r), Stopping(c, error)}
    PROVE  Doing'
  BY DEF Doing

LEMMA DoingKept == ASSUME Doing, doing' = doing, known \subseteq known', Called' = Called PROVE Doing'
  BY DEF Doing

LEMMA DoingStep ==
    ASSUME Shape, Timely, \A d \in Made : Traffic(d), Ages, Called' = Called, Next
    PROVE  Doing'
<1> USE DEF Shape, managerVars, kernelVars
<1>1. ASSUME doing' = Idle PROVE Doing'
  BY <1>1 DEF Doing
<1>2. ASSUME doing' = doing, doing = Idle \/ known \subseteq known' PROVE Doing'
  BY <1>1, <1>2, DoingKept
<1>3. CASE Wait \/ NewConnection \/ Notify \/ Incoming \/ \E p \in Called : PipeConnect(p)
  <2>1. doing' = doing
    BY <1>3 DEF Wait, NewConnection, Notify, Incoming, PipeConnect
  <2>2. ASSUME NEW c \in Made, Erases(c) PROVE doing = Idle
    BY <2>2, DoingFields DEF Erases, Doing
  <2> QED
    BY <1>2, <2>1, <2>2 DEF Ages
<1>4. CASE Erase
  <2>1. doing' = doing /\ doing = Idle
    BY <1>4, DoingFields DEF Erase, Busy, Doing
  <2> QED
    BY <1>2, <2>1
<1>5. CASE Timer
  <2>1. doing' = Connecting(planned) /\ planned # <<>> /\ planned \in Seq(Called)
    BY <1>5 DEF Timer, Handling, Timely, Queues
  <2> QED
    BY <2>1, DoingFields DEF Doing
<1>6. CASE ConnectPlanned
  <2>1. doing.peers \in Seq(Called) /\ doing.peers # <<>>
    BY <1>6, DoingFields DEF ConnectPlanned, Busy, Doing
  <2>2. CASE Len(doing.peers) = 1
    BY <1>1, <1>6, <2>2 DEF ConnectPlanned
  <2>3. CASE Len(doing.peers) # 1
    <3> DEFINE t == Tail(doing.peers)
    <3>1. t \in Seq(Called) /\ Len(t) = Len(doing.peers) - 1 /\ Len(doing.peers) \in Nat \ {0}
      BY <2>1, TailAt
    <3>2. t # <<>>
      <4>1. Len(t) # 0
        BY <2>3, <3>1
      <4> HIDE DEF t
      <4> QED
        BY <4>1
    <3>3. doing' = Connecting(t)
      BY <1>6, <2>3 DEF ConnectPlanned
    <3> HIDE DEF t
    <3> QED
      BY <3>1, <3>2, <3>3, DoingFields DEF Doing
  <2> QED
    BY <2>2, <2>3
<1>7. ASSUME NEW c \in Made, PipeClient(c) \/ Attach(c) PROVE Doing'
  BY <1>2, <1>7 DEF PipeClient, Attach
<1>8. ASSUME NEW c \in Made, Kernel(c) PROVE Doing'
  BY <1>2, <1>8, KernelEffect DEF KernelOnly, Traffic
<1>9. ASSUME NEW c \in Made, StopWriting(c) PROVE Doing'
  BY <1>1, <1>9 DEF StopWriting
<1>10. ASSUME NEW c \in Made, NEW type \in {"Read", "Write"}, ClientEvent(c, type) PROVE Doing'
  <2>1. c \in known'
    BY <1>10, EventKnown, ClientEventEffect
  <2>2. doing' = doing \/ doing' = Handler(c, type)
    BY <1>10, ClientEventEffect
  <2>3. 0 \in 0 .. Rounds /\ known' = known
    BY <1>10, SizeAssumption DEF ClientEvent
  <2> QED
    BY <1>1, <1>2, <2>1, <2>2, <2>3, HandlerIs, Works
<1>11. ASSUME NEW c \in known', Stops(c, clients'[c]) PROVE Doing'
  BY <1>11, SizeAssumption, Works DEF Stops
<1>12. ASSUME NEW c \in Made, NEW round \in 0 .. Rounds, Write(c, round) PROVE Doing'
  <2>1. c \in known /\ known' = known /\ Traffic(c)
    BY <1>12, WorksFor DEF Write
  <2>2. doing' = doing \/ Stops(c, clients'[c]) \/ doing' = Checking(c, round)
    BY <1>12, <2>1, WriteEffect DEF Traffic
  <2> QED
    BY <1>2, <1>11, <2>1, <2>2, Works
<1>13. ASSUME NEW c \in Made, NEW round \in 0 .. Rounds, Check(c, round) PROVE Doing'
  <2>1. c \in known /\ known' = known /\ Traffic(c)
    BY <1>13, WorksFor DEF Check
  <2>2. \/ doing' = Idle \/ Stops(c, clients'[c])
        \/ round + 1 \in 0 .. Rounds /\ doing' = Writing(c, round + 1)
    BY <1>13, <2>1, CheckEffect DEF Traffic
  <2> QED
    BY <1>1, <1>11, <2>1, <2>2, Works
<1>14. ASSUME NEW c \in Made, NEW round \in 0 .. Rounds, Read(c, round) PROVE Doing'
  <2>1. c \in known /\ known' = known /\ Traffic(c)
    BY <1>14, WorksFor DEF Read
  <2>2. doing' = Idle \/ (round + 1 \in 0 .. Rounds /\ doing' = Reading(c, round + 1))
    BY <1>14, <2>1, ReadEffect DEF Traffic, ReadsLess
  <2> QED
    BY <1>1, <2>1, <2>2, Works
<1> HIDE DEF managerVars, Shape
<1> QED
  BY <1>3, <1>4, <1>5, <1>6, <1>7, <1>8, <1>9, <1>10, <1>12, <1>13, <1>14
  DEF Next, TcpThread, Made, Called

\* What a step may do with the queues, when no client is forgotten.
Enqueues ==
    /\ \/ planned' = planned
       \/ planned' = <<>> /\ TimerEvent \notin batch'
       \/ \E p \in Called : planned' = Append(planned, p)
    /\ \/ pipe' = pipe \/ (pipe # <<>> /\ pipe' = Tail(pipe))
       \/ \E c \in Made' : pipe' = Append(pipe, SentMsg(c)) \/ pipe' = Append(pipe, DisconnectMsg(c))
    /\ sender' = sender \/ sender' \in Made' \cup {0}
    /\ batch' \subseteq batch
    /\ erase' = erase \/ \E c \in Made : erase' = Erased(c)
    /\ \/ events' = events
       \/ /\ doing.at = "read" /\ doing.client \in Made
          /\ \E e \in QueuedEvent : events' = Appended(doing.client, e)
    /\ alive' = alive \/ alive' = FALSE

LEMMA AppendedType ==
    ASSUME NEW c, NEW e \in QueuedEvent, events \in [Client -> Seq(QueuedEvent)], events' = Appended(c, e)
    PROVE  /\ events' \in [Client -> Seq(QueuedEvent)]
           /\ \A d \in Client : d # c => events'[d] = events[d]
           /\ c \in Client => events'[c] = Append(events[c], e)
<1>1. CASE c \in Client
  <2>1. events[c] \in Seq(QueuedEvent)
    BY <1>1
  <2> DEFINE a == Append(events[c], e)
  <2>2. a \in Seq(QueuedEvent)
    BY <2>1, AppendAt
  <2>3. events' = [events EXCEPT ![c] = a]
    BY DEF Appended
  <2> HIDE DEF a
  <2>4. /\ events' \in [Client -> Seq(QueuedEvent)] /\ events'[c] = a
        /\ \A d \in Client : d # c => events'[d] = events[d]
    BY <1>1, <2>2, <2>3
  <2> QED
    BY <2>4 DEF a
<1>2. CASE c \notin Client
  BY <1>2 DEF Appended
<1> QED
  BY <1>1, <1>2

LEMMA QueuesFrame ==
    ASSUME Objects, Queues, Objects', made <= made', known \subseteq known', Called' = Called, Enqueues
    PROVE  Queues'
<1>1. planned' \in Seq(Called')
  <2>1. planned \in Seq(Called)
    BY DEF Queues
  <2> HIDE DEF Called
  <2>2. ASSUME NEW p \in Called, planned' = Append(planned, p) PROVE planned' \in Seq(Called)
    BY <2>1, <2>2, AppendAt
  <2>3. <<>> \in Seq(Called)
    OBVIOUS
  <2> QED
    BY <2>1, <2>2, <2>3 DEF Enqueues
<1>2. pipe' \in Seq(MadeMsg')
  BY QueuesKeep DEF Enqueues
<1>3. sender' \in Made' \cup {0}
  BY QueuesKeep DEF Enqueues
<1>4. batch' \subseteq {PipeEvent, TimerEvent, ListenEvent} \cup Rearming'
  BY QueuesKeep DEF Enqueues
<1>5. erase' \in Seq(Made')
  BY QueuesKeep DEF Enqueues
<1>6. events' \in [Client -> Seq(QueuedEvent)]
  BY AppendedType DEF Enqueues, Queues
<1>7. alive' \in BOOLEAN
  BY DEF Enqueues, Queues
<1> QED
  BY <1>1, <1>2, <1>3, <1>4, <1>5, <1>6, <1>7 DEF Queues

LEMMA ReadyEvents == Ready \subseteq {PipeEvent, ListenEvent} \cup Rearming
<1>1. \A c \in known : ReadEv(c) \in Rearming /\ WriteEv(c) \in Rearming
  BY DEF ReadEv, WriteEv, Rearming
<1> QED
  BY <1>1 DEF Ready

LEMMA HandedOutDue == ASSUME NEW due, NEW some \in HandedOut(due) PROVE some \subseteq due
  BY DEF HandedOut

LEMMA WaitQueues == ASSUME Shape, Wait PROVE Queues'
<1>1. /\ UNCHANGED <<clients, managerVars, kernelVars, pipe, sender, doing, erase, events, alive>>
      /\ batch' \subseteq Ready \cup {TimerEvent}
  BY HandedOutDue DEF Wait
<1>2. /\ made' = made /\ known' = known /\ planned' = planned /\ attempts' = attempts /\ pipe' = pipe
      /\ sender' = sender /\ erase' = erase /\ events' = events /\ alive' = alive
  BY <1>1 DEF managerVars
<1>3. batch' \subseteq {PipeEvent, TimerEvent, ListenEvent} \cup Rearming'
  BY <1>1, <1>2, ReadyEvents DEF Rearming
<1> QED
  BY <1>2, <1>3 DEF Queues, Shape, Called, MadeMsg, Made

LEMMA EraseQueues == ASSUME Shape, NEW c \in Made, Touches(c), Erases(c) PROVE Queues'
<1>1. /\ made' = made /\ planned' = planned /\ attempts' = attempts /\ pipe' = pipe
      /\ sender' = sender /\ alive' = alive /\ batch' = {} /\ erase # <<>> /\ erase' = Tail(erase)
      /\ events' = events \/ events' = Appended(c, DisconnectedEvent)
  BY DEF Touches, Erases, Appended
<1>2. erase' \in Seq(Made)
  <2>1. erase \in Seq(Made)
    BY DEF Shape, Queues
  <2> HIDE DEF Made
  <2> QED
    BY <1>1, <2>1, TailAt
<1>3. events' \in [Client -> Seq(QueuedEvent)]
  BY <1>1, AppendedType, QueuedEvents DEF Shape, Queues
<1> QED
  BY <1>1, <1>2, <1>3 DEF Queues, Shape, Called, MadeMsg, Made

\* readEvent numbers a packet that arrived.
LEMMA PacketNumber ==
    ASSUME Objects, NEW c \in Made, NEW n \in Nat, Counted(sockets[c]), Reads(c), ReadsPacket(c, n)
    PROVE  PacketEvent(n) \in QueuedEvent
<1>1. sockets[c].taken \in Nat /\ sockets[c].arrived \in Nat
  BY Recorded, Numerals
<1>2. /\ sockets[c].taken < 2 * n /\ 2 * n <= sockets[c].arrived
      /\ sockets[c].arrived <= 2 * MaxTheirs
  BY <1>1 DEF Reads, ReadsPacket, Counted
<1>3. n \in 1 .. MaxTheirs
  BY <1>1, <1>2, BoundAssumption
<1> QED
  BY <1>3, QueuedEvents

LEMMA EnqueuesStep ==
    ASSUME Shape, Timely, \A d \in Made : Traffic(d), Objects', made <= made', Next, ~ Wait, ~ Erase
    PROVE  Enqueues
<1> USE DEF Shape, managerVars
<1>1. Made \subseteq Made'
  BY DEF Objects, Made
<1>2. CASE NewConnection
  <2>1. pipe' = pipe \/ (made + 1 \in Made' /\ pipe' = Append(pipe, SentMsg(made + 1)))
    BY <1>2 DEF NewConnection, Objects, Made
  <2> QED
    BY <1>2, <2>1 DEF NewConnection, Handling, Enqueues
<1>3. CASE Timer \/ Notify \/ Incoming
  <2>1. Notify => sender \in Made'
    BY <1>1 DEF Notify, Queues
  <2> QED
    BY <1>3, <2>1 DEF Timer, Notify, Incoming, Handling, Enqueues
<1>4. CASE ConnectPlanned
  BY <1>4 DEF ConnectPlanned, Enqueues
<1>5. ASSUME NEW p \in Called, PipeConnect(p) PROVE Enqueues
  BY <1>5 DEF PipeConnect, Handling, Enqueues
<1>6. ASSUME NEW c \in Made, PipeClient(c) PROVE Enqueues
  <2>1. erase' = erase \/ erase' = Erased(c)
    BY <1>6, PipeClientEffect
  <2> QED
    BY <1>6, <2>1 DEF PipeClient, Handling, Enqueues
<1>7. ASSUME NEW c \in Made, StopWriting(c) PROVE Enqueues
  <2>1. erase' = erase \/ erase' = Erased(c)
    BY <1>7 DEF StopWriting
  <2> QED
    BY <1>7, <2>1 DEF StopWriting, Enqueues
<1>8. ASSUME NEW c \in Made, NEW type \in {"Read", "Write"}, ClientEvent(c, type) PROVE Enqueues
  <2>1. batch' \subseteq batch /\ sender' = sender /\ alive' = alive /\ events' = events
    BY <1>8 DEF ClientEvent, Handling
  <2>2. CASE UNCHANGED <<planned, pipe, erase>>
    BY <2>1, <2>2 DEF Enqueues
  <2>3. CASE Connected(c)
    BY <1>1, <2>1, <2>3 DEF Enqueues, Connected
  <2>4. CASE Failed(c)
    <3>1. clients[c].peer \in Called
      BY <2>4 DEF Failed, Calls
    <3> QED
      BY <2>1, <2>4, <3>1 DEF Enqueues, Failed
  <2> QED
    BY <1>8, <2>2, <2>3, <2>4, ClientEventEffect
<1>9. ASSUME NEW c \in Made, NEW round \in 0 .. Rounds, Write(c, round) PROVE Enqueues
  BY <1>9 DEF Write, Enqueues
<1>10. ASSUME NEW c \in Made, NEW round \in 0 .. Rounds, Check(c, round) PROVE Enqueues
  BY <1>10 DEF Check, Enqueues
<1>11. ASSUME NEW c \in Made, NEW round \in 0 .. Rounds, Read(c, round) PROVE Enqueues
  <2>1. /\ batch' = batch /\ sender' = sender /\ alive' = alive /\ planned' = planned /\ Traffic(c)
        /\ doing = Reading(c, round)
    BY <1>11 DEF Read
  <2>2. /\ Reads(c)
        /\ \/ (\E s : ReadingStopped(c, s)) /\ pipe' = pipe /\ events' = events
           \/ \E n \in Nat : ReadsPacket(c, n)
           \/ ReadsLess(c)
    BY <1>11, <2>1, ReadEffect DEF Traffic
  <2>3. CASE (\E s : ReadingStopped(c, s)) /\ pipe' = pipe /\ events' = events
    BY <2>1, <2>3 DEF ReadingStopped, Enqueues
  <2>4. ASSUME NEW n \in Nat, ReadsPacket(c, n) PROVE Enqueues
    <3>1. PacketEvent(n) \in QueuedEvent /\ ConnectedEvent \in QueuedEvent
      BY <2>1, <2>2, <2>4, PacketNumber, QueuedEvents DEF Traffic
    <3>2. /\ pipe' = pipe \/ pipe' = Append(pipe, DisconnectMsg(c))
          /\ \/ events' = events \/ events' = Appended(c, ConnectedEvent)
             \/ events' = Appended(c, PacketEvent(n))
      BY <2>4 DEF ReadsPacket, Receive
    <3>3. doing.at = "read" /\ doing.client = c
      BY <2>1, DoingFields
    <3> QED
      BY <1>1, <2>1, <2>4, <3>1, <3>2, <3>3 DEF Enqueues, ReadsPacket
  <2>5. CASE ReadsLess(c)
    BY <2>1, <2>5 DEF ReadsLess, Enqueues
  <2> QED
    BY <2>2, <2>3, <2>4, <2>5
<1>12. ASSUME NEW c \in Made, Attach(c) PROVE Enqueues
  BY <1>1, <1>12 DEF Attach, Enqueues
<1>13. ASSUME NEW c \in Made, Kernel(c) PROVE Enqueues
  BY <1>13, KernelEffect DEF KernelOnly, Traffic, Enqueues
<1> HIDE DEF managerVars, Shape
<1> QED
  BY <1>2, <1>3, <1>4, <1>5, <1>6, <1>7, <1>8, <1>9, <1>10, <1>11, <1>12, <1>13
  DEF Next, TcpThread, Made, Called

\* The types, by one step.
LEMMA ShapeStep ==
    ASSUME Shape, Timely, \A d \in Made : Traffic(d), \A p \in Called : Sole(p), Next
    PROVE  Shape' /\ Called' = Called
<1>1. Ages /\ Objects' /\ made <= made'
  BY AgesStep DEF Ages
<1>2. Calls' /\ Called' = Called
  BY CallsStep
<1>3. Doing'
  BY <1>1, <1>2, DoingStep
<1>4. CASE Wait
  BY <1>1, <1>2, <1>3, <1>4, WaitQueues DEF Shape
<1>5. CASE \E c \in Made : Touches(c) /\ Erases(c)
  BY <1>1, <1>2, <1>3, <1>5, EraseQueues DEF Shape
<1>6. CASE ~ Wait /\ known \subseteq known' /\ ~ \E c \in Made : Touches(c) /\ Erases(c)
  <2>1. ~ Erase
    BY <1>6, EraseEffect DEF Shape, Queues
  <2>2. Enqueues
    BY <1>1, <1>6, <2>1, EnqueuesStep
  <2> QED
    BY <1>1, <1>2, <1>3, <1>6, <2>2, QueuesFrame DEF Shape
<1> QED
  BY <1>1, <1>4, <1>5, <1>6 DEF Ages

-----------------------------------------------------------------------------
(* eraseList and the pointers of the select loop.                           *)

Lives ==
    /\ erase' = erase /\ known \subseteq known'
    /\ \A d \in Made : clients'[d].dead = clients[d].dead
    /\ \A d \in known' : d \notin known => ~ clients'[d].dead

Dies(c) ==
    /\ c \in known /\ known' = known /\ erase' = Erased(c) /\ clients'[c].dead
    /\ \A d \in Made : d # c => clients'[d].dead = clients[d].dead

LEMMA LivesCreated == ASSUME Objects, NEW k, NEW s, Creates(k, s), ~ k.dead, erase' = erase PROVE Lives
<1>1. \A d \in known' : d \notin known => d = made + 1
  BY DEF Creates
<1> QED
  BY <1>1 DEF Creates, Lives

LEMMA LivesTouched ==
    ASSUME NEW c \in Made, Touches(c), known' = known, erase' = erase,
           clients'[c].dead = clients[c].dead
    PROVE  Lives
  BY DEF Touches, Lives

LEMMA DiesTouched ==
    ASSUME NEW c \in known, Touches(c), known' = known, erase' = Erased(c), clients'[c].dead
    PROVE  Dies(c)
  BY DEF Touches, Dies

LEMMA DeathsStep ==
    ASSUME Shape, Timely, \A d \in Made : Traffic(d), Next
    PROVE  Lives \/ (\E c \in Made : Dies(c)) \/ \E c \in Made : Touches(c) /\ Erases(c)
<1> DEFINE Goal == Lives \/ (\E c \in Made : Dies(c)) \/ \E c \in Made : Touches(c) /\ Erases(c)
<1> USE DEF Shape, managerVars
<1>1. ASSUME NEW p \in Peer, CreateConnection(p), erase' = erase PROVE Goal
  <2>1. CASE NoClient
    BY <1>1, <2>1 DEF NoClient, Lives
  <2>2. CASE Creates(NewClient(p, "Disconnected"), NewSocket("connecting", {"Read", "Write"}))
    BY <1>1, <2>2, LivesCreated, NewFields
  <2> QED
    BY <1>1, <2>1, <2>2, CreateConnectionEffect
<1>2. CASE Wait \/ Timer \/ Notify \/ Incoming
  BY <1>2 DEF Wait, Timer, Notify, Incoming, Lives
<1>3. CASE NewConnection
  <2>1. erase' = erase
    BY <1>3 DEF NewConnection
  <2> QED
    BY <1>3, <2>1, NewConnectionEffect, NewFields, LivesCreated DEF NoClient, Lives
<1>4. CASE ConnectPlanned
  <2>1. Head(doing.peers) \in Called
    BY <1>4, TailAt, DoingFields DEF ConnectPlanned, Busy, Doing
  <2> QED
    BY <1>1, <1>4, <2>1, CalledPeers DEF ConnectPlanned
<1>5. CASE Erase
  BY <1>5, EraseEffect DEF Queues
<1>6. ASSUME NEW p \in Called, PipeConnect(p) PROVE Goal
  BY <1>1, <1>6, CalledPeers DEF PipeConnect
<1>7. ASSUME NEW c \in Made, PipeClient(c) PROVE Goal
  <2>1. known' = known /\ Touches(c)
    BY <1>7, PipeClientEffect DEF PipeClient
  <2>2. CASE c \notin known
    BY <1>7, <2>1, <2>2, PipeClientEffect, LivesTouched
  <2>3. CASE c \in known /\ Head(pipe).type = "Disconnect"
    BY <1>7, <2>1, <2>3, PipeClientEffect, DiesTouched DEF RearmedEffect
  <2>4. CASE c \in known /\ Head(pipe).type # "Disconnect"
    <3>1. clients'[c].dead = clients[c].dead /\ erase' = erase
      <4>1. clients[c].dead \in BOOLEAN
        BY Recorded DEF ClientRecord
      <4> QED
        BY <1>7, <2>4, <4>1, PipeClientEffect DEF RearmedEffect
    <3> QED
      BY <2>1, <3>1, LivesTouched
  <2> QED
    BY <2>2, <2>3, <2>4
<1>8. ASSUME NEW c \in Made, StopWriting(c) PROVE Goal
  <2>1. known' = known
    BY <1>8 DEF StopWriting
  <2>2. PICK error \in BOOLEAN : Touches(c) /\ WritingStopped(c, error)
    BY <1>8, StopWritingEffect
  <2>3. c \in known /\ clients[c].dead \in BOOLEAN
    BY <2>2, Recorded DEF WritingStopped, ClientRecord
  <2>4. CASE clients[c].readError
    BY <2>1, <2>2, <2>3, <2>4, DiesTouched DEF WritingStopped
  <2>5. CASE ~ clients[c].readError
    <3>1. clients'[c].dead = clients[c].dead /\ erase' = erase
      BY <2>2, <2>3, <2>5 DEF WritingStopped
    <3> QED
      BY <2>1, <2>2, <3>1, LivesTouched
  <2> QED
    BY <2>4, <2>5
<1>9. ASSUME NEW c \in Made, NEW type \in {"Read", "Write"}, ClientEvent(c, type) PROVE Goal
  <2>1. Touches(c) /\ known' = known /\ c \in known
    BY <1>9, ClientEventEffect, EventKnown
  <2>2. CASE clients' = clients /\ erase' = erase
    BY <2>1, <2>2, LivesTouched
  <2>3. CASE Connected(c)
    BY <2>1, <2>3, LivesTouched DEF Connected, SameFlags
  <2>4. CASE Failed(c)
    BY <2>1, <2>4, DiesTouched DEF Failed
  <2> QED
    BY <1>9, <2>2, <2>3, <2>4, ClientEventEffect
<1>10. ASSUME NEW c \in Made, NEW round \in 0 .. Rounds, Write(c, round) PROVE Goal
  <2>1. c \in known /\ known' = known /\ Traffic(c) /\ erase' = erase
    BY <1>10, WorksFor DEF Write
  <2> QED
    BY <1>10, <2>1, WriteEffect, LivesTouched DEF Traffic, Buffered, SameClient
<1>11. ASSUME NEW c \in Made, NEW round \in 0 .. Rounds, Check(c, round) PROVE Goal
  <2>1. known' = known /\ Traffic(c) /\ erase' = erase
    BY <1>11 DEF Check
  <2> QED
    BY <1>11, <2>1, CheckEffect, LivesTouched DEF Traffic, Buffered, SameClient
<1>12. ASSUME NEW c \in Made, NEW round \in 0 .. Rounds, Read(c, round) PROVE Goal
  <2>1. c \in known /\ known' = known /\ Traffic(c)
    BY <1>12, WorksFor DEF Read
  <2>2. /\ Touches(c)
        /\ (\E s : ReadingStopped(c, s)) \/ (clients' = clients /\ erase' = erase)
    BY <1>12, <2>1, ReadEffect DEF Traffic, ReadsPacket, ReadsLess
  <2>3. CASE clients' = clients /\ erase' = erase
    BY <2>1, <2>2, <2>3, LivesTouched
  <2>4. CASE \E s : ReadingStopped(c, s)
    BY <2>1, <2>2, <2>4, LivesTouched, DiesTouched DEF ReadingStopped
  <2> QED
    BY <2>2, <2>3, <2>4
<1>13. ASSUME NEW c \in Made, Attach(c) PROVE Goal
  <2>1. known' = known /\ erase' = erase
    BY <1>13 DEF Attach
  <2> QED
    BY <1>13, <2>1, AttachEffect, LivesTouched DEF SameFlags
<1>14. ASSUME NEW c \in Made, Kernel(c) PROVE Goal
  BY <1>14, KernelEffect DEF KernelOnly, Traffic, Lives
<1> HIDE DEF managerVars, Shape
<1> QED
  BY <1>2, <1>3, <1>4, <1>5, <1>6, <1>7, <1>8, <1>9, <1>10, <1>11, <1>12, <1>13, <1>14
  DEF Next, TcpThread, Made, Called

\* PointersValid, without the events that are still to be handled.
Listed ==
    /\ \A i, j \in DOMAIN erase : erase[i] = erase[j] => i = j
    /\ \A i \in DOMAIN erase : erase[i] \in known /\ clients[erase[i]].dead
    /\ \A c \in known : clients[c].dead => Has(erase, c)

LEMMA ListedPointers == ASSUME Shape PROVE PointersValid <=> Listed
<1>1. ASSUME NEW c, {ReadEv(c), WriteEv(c)} \cap batch # {} PROVE c \in known
  <2>1. PICK e \in batch : e = ReadEv(c) \/ e = WriteEv(c)
    BY <1>1
  <2>2. e \in Rearming /\ e.client = c
    BY <2>1, EventFields DEF Shape, Queues
  <2> QED
    BY <2>2 DEF Rearming
<1> QED
  BY <1>1 DEF PointersValid, Listed, Has

LEMMA PointersStep ==
    ASSUME Shape, Shape', Timely, PointersValid, \A d \in Made : Traffic(d), Next
    PROVE  PointersValid'
<1>1. Listed /\ known \subseteq Made /\ erase \in Seq(Made)
  BY ListedPointers DEF Shape, Objects, Queues
<1>2. ASSUME Lives PROVE Listed'
  BY <1>1, <1>2 DEF Lives, Listed, Has
<1>3. ASSUME NEW c \in Made, Dies(c) PROVE Listed'
  <2>1. CASE clients[c].dead
    BY <1>1, <1>3, <2>1 DEF Dies, Erased, Listed, Has
  <2>2. CASE ~ clients[c].dead
    <3>1. erase' = Append(erase, c) /\ ~ Has(erase, c)
      BY <1>1, <1>3, <2>2 DEF Dies, Erased, Listed, Has
    <3> DEFINE a == Append(erase, c)
    <3>2. /\ DOMAIN erase = 1 .. Len(erase) /\ Len(erase) \in Nat
          /\ DOMAIN a = 1 .. Len(erase) + 1 /\ a[Len(erase) + 1] = c
          /\ \A j \in 1 .. Len(erase) : a[j] = erase[j]
      <4> HIDE DEF Made
      <4> QED
        BY <1>1, <1>3, AppendAt
    <3> HIDE DEF a
    <3>3. \A j \in DOMAIN a : (j \in DOMAIN erase /\ a[j] = erase[j]) \/ (j = Len(erase) + 1 /\ a[j] = c)
      BY <3>2
    <3>4. \A i, j \in DOMAIN a : a[i] = a[j] => i = j
      BY <1>1, <3>1, <3>3 DEF Listed, Has
    <3>5. \A i \in DOMAIN a : a[i] \in known' /\ clients'[a[i]].dead
      BY <1>1, <1>3, <3>3 DEF Dies, Listed
    <3>6. ASSUME NEW d \in known', clients'[d].dead PROVE Has(a, d)
      <4>1. CASE d = c
        <5>1. Len(erase) + 1 \in DOMAIN a
          BY <3>2
        <5> QED
          BY <3>2, <4>1, <5>1 DEF Has
      <4>2. CASE d # c
        <5>1. Has(erase, d)
          BY <1>1, <1>3, <3>6, <4>2 DEF Dies, Listed
        <5>2. \A j \in DOMAIN erase : j \in DOMAIN a /\ a[j] = erase[j]
          BY <3>2
        <5> QED
          BY <5>1, <5>2 DEF Has
      <4> QED
        BY <4>1, <4>2
    <3>7. a = erase'
      BY <3>1 DEF a
    <3> QED
      BY <3>4, <3>5, <3>6, <3>7 DEF Listed
  <2> QED
    BY <2>1, <2>2
<1>4. ASSUME NEW c \in Made, Erases(c) PROVE Listed'
  <2> DEFINE t == Tail(erase)
  <2>1. /\ DOMAIN t = 1 .. Len(erase) - 1 /\ DOMAIN erase = 1 .. Len(erase)
        /\ Len(erase) \in Nat \ {0} /\ c = erase[1] /\ 1 \in DOMAIN erase
        /\ \A j \in 1 .. Len(erase) - 1 : t[j] = erase[j + 1]
    <3>1. erase # <<>> /\ c = Head(erase)
      BY <1>4 DEF Erases
    <3> HIDE DEF Made
    <3> QED
      BY <1>1, <3>1, TailAt
  <2>2. known' = known \ {c} /\ clients' = clients /\ erase' = t
    BY <1>4 DEF Erases
  <2> HIDE DEF t
  <2>3. \A j \in DOMAIN t : j + 1 \in DOMAIN erase /\ j + 1 # 1 /\ t[j] = erase[j + 1]
    BY <2>1
  <2>4. ASSUME NEW i \in DOMAIN t, NEW j \in DOMAIN t, t[i] = t[j] PROVE i = j
    <3>1. i + 1 = j + 1 /\ i \in Nat /\ j \in Nat
      BY <1>1, <2>1, <2>3, <2>4 DEF Listed
    <3> QED
      BY <3>1
  <2>5. \A i \in DOMAIN t : t[i] \in known' /\ clients'[t[i]].dead
    BY <1>1, <2>1, <2>2, <2>3 DEF Listed
  <2>6. ASSUME NEW d \in known', clients'[d].dead PROVE Has(t, d)
    <3>1. PICK i \in DOMAIN erase : erase[i] = d
      BY <1>1, <2>2, <2>6 DEF Listed, Has
    <3>2. i # 1
      BY <2>1, <2>2, <3>1
    <3>3. i - 1 \in DOMAIN t /\ t[i - 1] = erase[(i - 1) + 1] /\ (i - 1) + 1 = i
      BY <2>1, <3>2
    <3> QED
      BY <3>1, <3>3 DEF Has
  <2> QED
    BY <2>2, <2>4, <2>5, <2>6 DEF Listed
<1>5. Listed'
  BY <1>2, <1>3, <1>4, DeathsStep
<1>6. Shape' => (PointersValid' <=> Listed')
  BY ListedPointers, PTL
<1> QED
  BY <1>5, <1>6

-----------------------------------------------------------------------------
(* The timer, accept and clients that still connect.                        *)

\* A step takes up a client that is connected, or goes on with the one it has.
GoesOn(c) == doing.at \in {"read", "write", "check", "stop"} /\ doing.client = c

LEMMA GoesOnStep ==
    ASSUME Shape, Timely, \A d \in Made : Traffic(d), Next, NEW c, GoesOn(c)'
    PROVE  GoesOn(c) \/ clients'[c].state # "Disconnected"
<1> DEFINE Goal == GoesOn(c) \/ clients'[c].state # "Disconnected"
<1> USE DEF Shape, managerVars
<1>1. ASSUME doing' = doing PROVE Goal
  BY <1>1 DEF GoesOn
<1>2. ASSUME doing' = Idle \/ \E peers : doing' = Connecting(peers) PROVE Goal
  BY <1>2, DoingFields DEF GoesOn
<1>3. ASSUME NEW b, doing.at \in {"read", "write", "check"}, doing.client = b,
             \/ Stops(b, clients'[b])
             \/ \E r : doing' \in {Reading(b, r), Writing(b, r), Checking(b, r)}
      PROVE  Goal
  <2>1. doing'.client = b
    BY <1>3, DoingFields DEF Stops
  <2> QED
    BY <1>3, <2>1 DEF GoesOn
<1>4. CASE Wait \/ NewConnection \/ Erase \/ Notify \/ Incoming \/ \E p \in Called : PipeConnect(p)
  BY <1>1, <1>4 DEF Wait, NewConnection, Erase, Notify, Incoming, PipeConnect
<1>5. CASE Timer
  BY <1>2, <1>5 DEF Timer
<1>6. CASE ConnectPlanned
  BY <1>2, <1>6 DEF ConnectPlanned
<1>7. ASSUME NEW b \in Made, PipeClient(b) \/ StopWriting(b) \/ Attach(b) PROVE Goal
  BY <1>1, <1>2, <1>7 DEF PipeClient, StopWriting, Attach
<1>8. ASSUME NEW b \in Made, Kernel(b) PROVE Goal
  BY <1>1, <1>8, KernelEffect DEF KernelOnly, Traffic
<1>9. ASSUME NEW b \in Made, NEW type \in {"Read", "Write"}, ClientEvent(b, type) PROVE Goal
  <2>1. \/ doing' = doing
        \/ doing' = Handler(b, type) /\ clients'[b].state # "Disconnected"
    BY <1>9, ClientEventEffect DEF Connected
  <2>2. CASE doing' = Writing(b, 0) \/ doing' = Reading(b, 0)
    <3>1. doing'.client = b
      BY <2>2, DoingFields
    <3>2. CASE clients'[b].state # "Disconnected"
      BY <3>1, <3>2 DEF GoesOn
    <3> QED
      BY <1>1, <2>1, <3>2
  <2> QED
    BY <1>1, <1>2, <2>1, <2>2, HandlerIs
<1>10. ASSUME NEW b \in Made, NEW round \in 0 .. Rounds, Write(b, round) PROVE Goal
  <2>1. doing = Writing(b, round) /\ b \in known /\ Traffic(b)
    BY <1>10, WorksFor DEF Write
  <2>2. doing' = doing \/ Stops(b, clients'[b]) \/ doing' = Checking(b, round)
    BY <1>10, <2>1, WriteEffect DEF Traffic
  <2> QED
    BY <1>1, <1>3, <2>1, <2>2, DoingFields
<1>11. ASSUME NEW b \in Made, NEW round \in 0 .. Rounds, Check(b, round) PROVE Goal
  <2>1. doing = Checking(b, round) /\ Traffic(b)
    BY <1>11 DEF Check
  <2>2. doing' = Idle \/ Stops(b, clients'[b]) \/ doing' = Writing(b, round + 1)
    BY <1>11, <2>1, CheckEffect DEF Traffic
  <2> QED
    BY <1>2, <1>3, <2>1, <2>2, DoingFields
<1>12. ASSUME NEW b \in Made, NEW round \in 0 .. Rounds, Read(b, round) PROVE Goal
  <2>1. doing = Reading(b, round) /\ Traffic(b)
    BY <1>12 DEF Read
  <2>2. doing' = Idle \/ doing' = Reading(b, round + 1)
    BY <1>12, <2>1, ReadEffect DEF Traffic, ReadsLess
  <2> QED
    BY <1>2, <1>3, <2>1, <2>2, DoingFields
<1> HIDE DEF managerVars, Shape
<1> QED
  BY <1>4, <1>5, <1>6, <1>7, <1>8, <1>9, <1>10, <1>11, <1>12
  DEF Next, TcpThread, Made, Called

LEMMA WaitReasons ==
    ASSUME Wait
    PROVE  /\ TimerEvent \in batch' => planned' # <<>>
           /\ ListenEvent \in batch' => backlog' > 0
<1>1. TimerEvent \notin Ready
  BY DEF Ready, TimerEvent, ReadEv, WriteEv, PipeEvent, ListenEvent
<1>2. ListenEvent \in Ready => backlog > 0
  BY DEF Ready, ListenEvent, ReadEv, WriteEv, PipeEvent
<1>3. ListenEvent # TimerEvent
  BY DEF ListenEvent, TimerEvent
<1>4. /\ batch' \subseteq Ready \/ (planned # <<>> /\ batch' \subseteq Ready \cup {TimerEvent})
      /\ planned' = planned /\ backlog' = backlog
  BY HandedOutDue DEF Wait, managerVars, kernelVars
<1> QED
  BY <1>1, <1>2, <1>3, <1>4

\* What a step may do with the events of clients that were not heard of.
LEMMA EventsStep ==
    ASSUME Shape, Timely, \A d \in Made : Traffic(d), Objects', made <= made', Next
    PROVE  \/ events' = events
           \/ \E c \in Made : events[c] # <<>> /\ \A d \in Client : d # c => events'[d] = events[d]
           \/ /\ doing.at = "read" /\ doing.client \in Made
              /\ \A d \in Client : d # doing.client => events'[d] = events[d]
<1>1. CASE Wait
  BY <1>1 DEF Wait
<1>2. CASE Erase
  <2>1. PICK c \in Made : Touches(c) /\ Erases(c)
    BY <1>2, EraseEffect DEF Shape, Queues
  <2>2. events \in [Client -> Seq(QueuedEvent)]
    BY DEF Shape, Queues
  <2>3. CASE events[c] # <<>>
    <3>1. events' = Appended(c, DisconnectedEvent)
      BY <2>1, <2>3 DEF Erases, Appended
    <3>2. \A d \in Client : d # c => events'[d] = events[d]
      BY <2>2, <3>1, AppendedType, QueuedEvents
    <3> QED
      BY <2>3, <3>2
  <2>4. CASE events[c] = <<>>
    BY <2>1, <2>4 DEF Erases
  <2> QED
    BY <2>3, <2>4
<1>3. CASE ~ Wait /\ ~ Erase
  <2>1. Enqueues
    BY <1>3, EnqueuesStep
  <2>2. ASSUME NEW e \in QueuedEvent, events' = Appended(doing.client, e)
        PROVE  \A d \in Client : d # doing.client => events'[d] = events[d]
    BY <2>2, AppendedType DEF Shape, Queues
  <2> QED
    BY <2>1, <2>2 DEF Enqueues
<1> QED
  BY <1>1, <1>2, <1>3

LEMMA AppendFilled ==
    ASSUME NEW S, NEW s \in Seq(S), NEW x \in S
    PROVE  Append(s, x) # <<>>
<1> DEFINE a == Append(s, x)
<1>1. a[Len(s) + 1] = x /\ DOMAIN a = 1 .. Len(s) + 1 /\ Len(s) \in Nat
  BY AppendAt
<1> HIDE DEF a
<1>2. Len(s) + 1 \in DOMAIN a
  BY <1>1
<1>3. a # <<>>
  BY <1>2
<1> QED
  BY <1>3 DEF a

LEMMA TimelyStep ==
    ASSUME Shape, Timely, \A d \in Made : Traffic(d), Ages, Made' \subseteq Client, Next
    PROVE  Timely'
<1>1. Objects /\ Objects' /\ made <= made'
  BY DEF Ages, Shape
<1>2. (TimerEvent \in batch' => planned' # <<>>) /\ (ListenEvent \in batch' => backlog' > 0)
  <2>1. CASE Wait
    BY <2>1, WaitReasons
  <2>2. CASE Erase
    BY <2>2 DEF Erase
  <2>3. CASE ~ Wait /\ ~ Erase
    <3>1. Enqueues /\ Moves /\ backlog \in Nat
      BY <1>1, <2>3, EnqueuesStep, BacklogStep
    <3>2. ASSUME TimerEvent \in batch' PROVE planned' # <<>>
      <4>1. planned # <<>> /\ planned \in Seq(Called)
        BY <3>1, <3>2 DEF Enqueues, Timely, Shape, Queues
      <4>2. ASSUME NEW p \in Called PROVE Append(planned, p) # <<>>
        <5> HIDE DEF Called
        <5> QED
          BY <4>1, AppendFilled
      <4> QED
        BY <3>1, <3>2, <4>1, <4>2 DEF Enqueues
    <3>3. ASSUME ListenEvent \in batch' PROVE backlog' > 0
      <4>1. backlog > 0 /\ ~ NewConnection
        BY <3>1, <3>3 DEF Enqueues, Timely, NewConnection, Handling
      <4> QED
        BY <3>1, <4>1 DEF Moves
    <3> QED
      BY <3>2, <3>3
  <2> QED
    BY <2>1, <2>2, <2>3
<1>3. ASSUME NEW d \in Client, d > made \/ clients[d].state = "Disconnected",
             d \in Made' \/ d > made', d > made' \/ clients'[d].state = "Disconnected"
      PROVE  events'[d] = <<>>
  <2>1. events[d] = <<>>
    <3>1. d > made \/ d \in Made
      <4>1. d \in Nat /\ d >= 1 /\ made \in Nat
        BY <1>1 DEF Client, Objects
      <4> QED
        BY <4>1 DEF Made
    <3> QED
      BY <1>3, <3>1 DEF Timely
  <2>2. ASSUME doing.at = "read", doing.client \in Made PROVE d # doing.client
    <3>1. clients[doing.client].state # "Disconnected"
      BY <2>2 DEF Timely
    <3>2. ~ (doing.client > made)
      BY <1>1, <2>2 DEF Made, Objects
    <3> QED
      BY <1>3, <3>1, <3>2
  <2> QED
    BY <1>1, <2>1, <2>2, EventsStep
<1>4. ASSUME NEW d \in Client, d > made' PROVE events'[d] = <<>>
  <2>1. d > made
    BY <1>1, <1>4 DEF Objects, Client
  <2> QED
    BY <1>3, <1>4, <2>1
<1>5. ASSUME NEW d \in Made', clients'[d].state = "Disconnected"
      PROVE  /\ events'[d] = <<>> /\ clients'[d].posted = 0
             /\ ~ GoesOn(d)'
  <2>1. CASE d \in Made
    <3>1. clients[d].state = "Disconnected" /\ clients'[d].posted = clients[d].posted
      BY <1>5, <2>1 DEF Ages, Older
    <3>2. events'[d] = <<>>
      BY <1>3, <1>5, <3>1
    <3>3. clients[d].posted = 0 /\ ~ GoesOn(d)
      BY <2>1, <3>1 DEF Timely, GoesOn
    <3> QED
      BY <1>5, <3>1, <3>2, <3>3, GoesOnStep
  <2>2. CASE d \notin Made
    <3>1. d > made /\ made' # made
      BY <1>1, <1>5, <2>2 DEF Made, Objects
    <3>2. events'[d] = <<>>
      BY <1>3, <1>5, <3>1
    <3>3. PICK e : Accepts(e) \/ \E p \in Called : ConnectsTo(p, e)
      BY <3>1, Newcomer
    <3>4. d = e
      BY <1>1, <1>5, <2>2, <3>3, CreatesObjects DEF Accepts, ConnectsTo
    <3>5. clients'[d].posted = 0
      BY <1>5, <3>3, <3>4, NewFields DEF Accepts, ConnectsTo, Creates
    <3>6. ~ GoesOn(d)
      <4>1. ASSUME GoesOn(d) PROVE d \in known
        BY <4>1, DoingFields DEF GoesOn, Shape, Doing
      <4> QED
        BY <1>1, <2>2, <4>1 DEF Objects
    <3> QED
      BY <1>5, <3>2, <3>5, <3>6, GoesOnStep
  <2> QED
    BY <2>1, <2>2
<1> QED
  BY <1>2, <1>4, <1>5 DEF Timely, GoesOn

-----------------------------------------------------------------------------
(* The info of a connect call.                                              *)

Less(t, s, y) == (Has(t, y) => Has(s, y)) /\ (Single(s, y) => Single(t, y))

LEMMA LessTail == ASSUME NEW S, NEW s \in Seq(S), s # <<>>, NEW y PROVE Less(Tail(s), s, y)
  BY TailHas DEF Less

LEMMA LessAppend == ASSUME NEW S, NEW s \in Seq(S), NEW x \in S, NEW y, x # y PROVE Less(Append(s, x), s, y)
  BY AppendHas DEF Less

LEMMA SoleKept ==
    ASSUME NEW p, Sole(p), Less(pipe', pipe, ConnectMsg(p)), Less(planned', planned, p),
           Less(Planned', Planned, p), \A d \in known' : InClient(p, d)' => InClient(p, d),
           told'[p] = told[p], attempts'[p] = attempts[p]
    PROVE  Sole(p)'
<1>1. Waits(p)' => Waits(p)
  BY DEF Less, Waits
<1>2. \A d \in known' : InClient(p, d)' => d \in known /\ InClient(p, d)
  BY DEF InClient
<1> QED
  BY <1>1, <1>2 DEF Sole, Less

\* The client that waited is made.
LEMMA SoleMade ==
    ASSUME NEW p, Sole(p), Waits(p), ~ Waits(p)', NEW c, \A d \in known' : InClient(p, d)' => d = c,
           told'[p] = told[p], attempts'[p] = attempts[p]
    PROVE  Sole(p)'
<1>1. told'[p] = "Nothing" /\ attempts'[p] > 0
  BY DEF Sole
<1>2. ~ Has(pipe', ConnectMsg(p)) /\ ~ Has(planned', p) /\ ~ Has(Planned', p)
  BY DEF Waits
<1>3. Single(pipe', ConnectMsg(p)) /\ Single(planned', p) /\ Single(Planned', p)
  BY <1>2 DEF Has, Single
<1> QED
  BY <1>1, <1>2, <1>3 DEF Sole, Waits

LEMMA SoleNone ==
    ASSUME NEW p, ~ Waits(p)', \A d \in known' : ~ InClient(p, d)'
    PROVE  Sole(p)'
<1>2. ~ Has(pipe', ConnectMsg(p)) /\ ~ Has(planned', p) /\ ~ Has(Planned', p)
  BY DEF Waits
<1>3. Single(pipe', ConnectMsg(p)) /\ Single(planned', p) /\ Single(Planned', p)
  BY <1>2 DEF Has, Single
<1> QED
  BY <1>2, <1>3 DEF Sole, Waits

LEMMA PlannedIs ==
    /\ doing.at # "connect" => Planned = <<>>
    /\ doing.at = "connect" => Planned = doing.peers
    /\ doing'.at # "connect" => Planned' = <<>>
    /\ doing'.at = "connect" => Planned' = doing'.peers
    /\ doing' = doing => Planned' = Planned
  BY DEF Planned

LEMMA NothingHeld == \A y : ~ Has(<<>>, y) /\ Single(<<>>, y)
  BY DEF Has, Single

LEMMA InClientKept ==
    ASSUME Shape, Ages, Next, NEW p,
           made' = made \/ (\E d : Accepts(d)) \/ \E q \in Called : q # p /\ \E d : ConnectsTo(q, d)
    PROVE  \A d \in known' : InClient(p, d)' => InClient(p, d)
<1>1. ASSUME NEW d \in known', InClient(p, d)', d \in Made PROVE InClient(p, d)
  BY <1>1 DEF Ages, Older, InClient
<1>2. ASSUME NEW d \in known', InClient(p, d)', d \notin Made PROVE FALSE
  <2>1. d \in Made' /\ made' # made
    BY <1>2 DEF Ages, Objects, Made
  <2>2. PICK e : Accepts(e) \/ \E q \in Called : q # p /\ ConnectsTo(q, e)
    BY <2>1
  <2>3. d = e
    BY <1>2, <2>1, <2>2, CreatesObjects DEF Shape, Accepts, ConnectsTo
  <2> QED
    BY <1>2, <2>2, <2>3, NewFields DEF Accepts, ConnectsTo, Creates, InClient
<1> QED
  BY <1>1, <1>2

\* The steps that do not touch the planned connections.
LEMMA PlannedKept ==
    ASSUME Shape, \A d \in Made : Traffic(d), Next, ~ Timer, ~ ConnectPlanned,
           \A c \in Made : ~ (ClientEvent(c, "Read") \/ ClientEvent(c, "Write"))
    PROVE  planned' = planned /\ Planned' = Planned
<1> DEFINE Goal == planned' = planned /\ Planned' = Planned
<1> USE DEF Shape, managerVars
<1>1. ASSUME planned' = planned, doing' = doing PROVE Goal
  BY <1>1, PlannedIs
<1>2. ASSUME planned' = planned, doing.at # "connect", doing'.at # "connect" PROVE Goal
  BY <1>2, PlannedIs
<1>3. CASE Wait \/ NewConnection \/ Erase \/ Notify \/ Incoming \/ \E p \in Called : PipeConnect(p)
  BY <1>1, <1>3 DEF Wait, NewConnection, Erase, Notify, Incoming, PipeConnect
<1>4. ASSUME NEW b \in Made, PipeClient(b) \/ Attach(b) PROVE Goal
  BY <1>1, <1>4 DEF PipeClient, Attach
<1>5. ASSUME NEW b \in Made, StopWriting(b) PROVE Goal
  BY <1>2, <1>5, DoingFields DEF StopWriting, Busy
<1>6. ASSUME NEW b \in Made, Kernel(b) PROVE Goal
  BY <1>1, <1>6, KernelEffect DEF KernelOnly, Traffic
<1>7. ASSUME NEW b \in Made, NEW round \in 0 .. Rounds, Write(b, round) PROVE Goal
  <2>1. doing = Writing(b, round) /\ b \in known /\ Traffic(b) /\ planned' = planned
    BY <1>7, WorksFor DEF Write
  <2>2. doing' = doing \/ Stops(b, clients'[b]) \/ doing' = Checking(b, round)
    BY <1>7, <2>1, WriteEffect DEF Traffic
  <2> QED
    BY <1>2, <2>1, <2>2, DoingFields DEF Stops
<1>8. ASSUME NEW b \in Made, NEW round \in 0 .. Rounds, Check(b, round) PROVE Goal
  <2>1. doing = Checking(b, round) /\ Traffic(b) /\ planned' = planned
    BY <1>8 DEF Check
  <2>2. doing' = Idle \/ Stops(b, clients'[b]) \/ doing' = Writing(b, round + 1)
    BY <1>8, <2>1, CheckEffect DEF Traffic
  <2> QED
    BY <1>2, <2>1, <2>2, DoingFields DEF Stops
<1>9. ASSUME NEW b \in Made, NEW round \in 0 .. Rounds, Read(b, round) PROVE Goal
  <2>1. doing = Reading(b, round) /\ Traffic(b) /\ planned' = planned
    BY <1>9 DEF Read
  <2>2. doing' = Idle \/ doing' = Reading(b, round + 1)
    BY <1>9, <2>1, ReadEffect DEF Traffic, ReadsLess
  <2> QED
    BY <1>2, <2>1, <2>2, DoingFields
<1> HIDE DEF managerVars, Shape
<1> QED
  BY <1>3, <1>4, <1>5, <1>6, <1>7, <1>8, <1>9 DEF Next, TcpThread, Made, Called

Fewer(p) ==
    /\ Less(pipe', pipe, ConnectMsg(p)) /\ Less(planned', planned, p)
    /\ Less(Planned', Planned, p)

Takes(p) == Waits(p) /\ ~ Waits(p)'
SameCall(p) == told'[p] = told[p] /\ attempts'[p] = attempts[p]

LEMMA LessSame == \A s, y : Less(s, s, y)
  BY DEF Less

LEMMA FewerWait == ASSUME NEW p, Fewer(p) PROVE Waits(p)' => Waits(p)
  BY DEF Fewer, Less, Waits

LEMMA PipeTakes ==
    ASSUME Shape, NEW p \in Called, Sole(p), NEW q \in Called, PipeConnect(q)
    PROVE  SameCall(p) /\ Fewer(p) /\ (p = q => Takes(p))
<1>1. /\ pipe # <<>> /\ Head(pipe) = ConnectMsg(q) /\ pipe' = Tail(pipe) /\ pipe \in Seq(MadeMsg)
      /\ planned' = planned /\ doing' = doing /\ SameCall(p)
  BY DEF PipeConnect, SameCall, Shape, Queues
<1> HIDE DEF MadeMsg, Called
<1>2. Fewer(p)
  BY <1>1, LessTail, LessSame, PlannedIs DEF Fewer
<1>3. ASSUME p = q PROVE Takes(p)
  <2>1. Has(pipe, ConnectMsg(p)) /\ ~ Has(Tail(pipe), ConnectMsg(p))
    BY <1>1, <1>3, TailHas DEF Sole
  <2>2. ~ Has(planned, p) /\ ~ Has(Planned, p) /\ Planned' = Planned
    BY <1>1, <2>1, PlannedIs DEF Sole
  <2> QED
    BY <1>1, <2>1, <2>2 DEF Takes, Waits
<1> QED
  BY <1>1, <1>2, <1>3

LEMMA LoopTakes ==
    ASSUME Shape, NEW p \in Called, Sole(p), ConnectPlanned
    PROVE  /\ Head(doing.peers) \in Called /\ SameCall(p) /\ Fewer(p)
           /\ p = Head(doing.peers) => Takes(p)
<1>1. doing.at = "connect" /\ doing.peers \in Seq(Called) /\ doing.peers # <<>>
  BY DoingFields DEF ConnectPlanned, Busy, Shape, Doing
<1> DEFINE peers == doing.peers
<1>2. /\ planned' = planned /\ pipe' = pipe /\ SameCall(p)
      /\ doing' = IF Len(peers) = 1 THEN Idle ELSE Connecting(Tail(peers))
  BY DEF ConnectPlanned, SameCall
<1> HIDE DEF Called
<1>3. Planned' = Tail(peers) /\ Planned = peers /\ Head(peers) \in Called
  <2>1. Head(peers) \in Called /\ Tail(peers) \in Seq(Called) /\ Len(Tail(peers)) = Len(peers) - 1
    BY <1>1, TailAt
  <2>2. CASE Len(peers) = 1
    <3>1. Tail(peers) = <<>>
      <4>1. Len(Tail(peers)) = 0
        BY <2>1, <2>2
      <4> HIDE DEF peers
      <4> QED
        BY <2>1, <4>1, EmptySeq
    <3>2. Planned' = <<>>
      BY <1>2, <2>2, DoingFields, PlannedIs
    <3> QED
      BY <1>1, <2>1, <3>1, <3>2, PlannedIs
  <2>3. CASE Len(peers) # 1
    BY <1>1, <1>2, <2>1, <2>3, DoingFields, PlannedIs
  <2> QED
    BY <2>2, <2>3
<1>4. Fewer(p)
  BY <1>1, <1>2, <1>3, LessTail, LessSame DEF Fewer
<1>5. ASSUME p = Head(peers) PROVE Takes(p)
  <2>1. Has(Planned, p) /\ ~ Has(Planned', p)
    BY <1>1, <1>3, <1>5, TailHas DEF Sole
  <2> QED
    BY <1>2, <2>1 DEF Takes, Waits, Sole
<1> QED
  BY <1>2, <1>3, <1>4, <1>5

LEMMA ConnectsTakes ==
    ASSUME Shape, NEW p \in Called, Sole(p), NEW d, ConnectsTo(p, d)
    PROVE  Takes(p) /\ SameCall(p) /\ Creates(NewClient(p, "Disconnected"), NewSocket("connecting", {"Read", "Write"}))
  BY PipeTakes, LoopTakes DEF ConnectsTo

\* What becomes of the call for p.
Goes(p) ==
    /\ Sole(p)'
    /\ \/ attempts'[p] = attempts[p] /\ (Waits(p)' => Waits(p))
       \/ attempts'[p] = attempts[p] - 1

LEMMA GoesKept ==
    ASSUME NEW p, Sole(p), Fewer(p), SameCall(p), \A d \in known' : InClient(p, d)' => InClient(p, d)
    PROVE  Goes(p)
<1>1. Sole(p)'
  BY SoleKept DEF Fewer, SameCall
<1> QED
  BY <1>1, FewerWait DEF Goes, SameCall

LEMMA GoesConnect ==
    ASSUME Shape, Ages, NEW p \in Called, Sole(p), Next,
           ConnectPlanned \/ \E q \in Called : PipeConnect(q)
    PROVE  Goes(p)
<1>1. Fewer(p) /\ SameCall(p)
  BY PipeTakes, LoopTakes
<1>2. CASE made' = made \/ (\E d : Accepts(d)) \/ \E q \in Called : q # p /\ \E d : ConnectsTo(q, d)
  BY <1>1, <1>2, InClientKept, GoesKept
<1>3. CASE \E d : ConnectsTo(p, d)
  <2>1. PICK e : ConnectsTo(p, e)
    BY <1>3
  <2>2. Takes(p) /\ known' = known \cup {made + 1}
    BY <2>1, ConnectsTakes DEF Creates
  <2>3. ASSUME NEW d \in known', InClient(p, d)' PROVE d = made + 1
    <3>1. CASE d \in known
      <4>1. d \in Made
        BY <3>1 DEF Shape, Objects
      <4>2. InClient(p, d)
        BY <2>3, <3>1, <4>1 DEF Ages, Older, InClient
      <4> QED
        BY <2>2, <3>1, <4>2 DEF Takes, Sole
    <3> QED
      BY <2>2, <3>1
  <2>4. Sole(p)'
    BY <1>1, <2>2, <2>3, SoleMade DEF SameCall, Takes
  <2> QED
    BY <1>1, <2>2, <2>4 DEF Goes, SameCall, Takes
<1> QED
  BY <1>2, <1>3, Newcomer

LEMMA GoesTimer == ASSUME Shape, NEW p, Sole(p), Timer PROVE Goes(p)
<1>1. /\ doing.at = "idle" /\ doing' = Connecting(planned) /\ planned' = <<>>
      /\ pipe' = pipe /\ told' = told /\ attempts' = attempts /\ known' = known /\ clients' = clients
  BY DEF Timer, Handling, Busy
<1>2. Planned = <<>> /\ Planned' = planned
  BY <1>1, DoingFields, PlannedIs
<1>3. Waits(p)' <=> Waits(p)
  BY <1>1, <1>2, NothingHeld DEF Waits
<1>4. \A d \in known : InClient(p, d)' <=> InClient(p, d)
  BY <1>1 DEF InClient
<1>5. Sole(p)'
  BY <1>1, <1>2, <1>3, <1>4, NothingHeld DEF Sole
<1> QED
  BY <1>1, <1>3, <1>5 DEF Goes

LEMMA SentOther == \A c, p : SentMsg(c) # ConnectMsg(p) /\ DisconnectMsg(c) # ConnectMsg(p)
  BY MsgFields

LEMMA EventOwner ==
    ASSUME Shape, Ages, Next, NEW p \in Called, Sole(p), NEW c \in Made, NEW type \in {"Read", "Write"},
           ClientEvent(c, type)
    PROVE  /\ c \in known /\ known' = known
           /\ Planned' = Planned
           /\ \A d \in known' : InClient(p, d)' => InClient(p, d)
           /\ clients[c].info /\ clients[c].peer = p =>
                 /\ ~ Waits(p) /\ told[p] = "Nothing" /\ attempts[p] > 0
                 /\ \A d \in known' : InClient(p, d) => d = c
<1>1. c \in known /\ known' = known /\ made' = made /\ doing.at = "idle"
  BY EventKnown DEF ClientEvent, Handling, Busy
<1>2. doing' = doing \/ doing' = Handler(c, type)
  BY ClientEventEffect DEF Shape
<1>3. Planned' = Planned
  <2>1. doing'.at # "connect"
    BY <1>1, <1>2, HandlerIs, DoingFields
  <2> QED
    BY <1>1, <2>1, PlannedIs
<1>4. \A d \in known' : InClient(p, d)' => InClient(p, d)
  BY <1>1, InClientKept
<1>5. ASSUME clients[c].info, clients[c].peer = p
      PROVE  /\ ~ Waits(p) /\ told[p] = "Nothing" /\ attempts[p] > 0
             /\ \A d \in known' : InClient(p, d) => d = c
  BY <1>1, <1>5 DEF InClient, Sole
<1> QED
  BY <1>1, <1>3, <1>4, <1>5

LEMMA ExceptOther ==
    ASSUME NEW f, NEW q, NEW x, NEW p \in DOMAIN f
    PROVE  /\ p # q => [f EXCEPT ![q] = x][p] = f[p]
           /\ p = q => [f EXCEPT ![q] = x][p] = x
  OBVIOUS

LEMMA CallDomains == ASSUME Calls PROVE DOMAIN told = Called /\ DOMAIN attempts = Called
  BY DEF Calls, Called

LEMMA GoesConnected ==
    ASSUME Shape, Ages, Next, NEW p \in Called, Sole(p), NEW c \in Made, NEW type \in {"Read", "Write"},
           ClientEvent(c, type), Connected(c)
    PROVE  Goes(p)
<1>1. /\ pipe' = Append(pipe, SentMsg(c)) /\ planned' = planned /\ attempts' = attempts
      /\ told' = [told EXCEPT ![clients[c].peer] = "Connected"] /\ clients[c].info
      /\ ~ clients'[c].info
  BY DEF Connected
<1>2. Fewer(p)
  <2>1. pipe \in Seq(MadeMsg) /\ SentMsg(c) \in MadeMsg
    BY DEF Shape, Queues, MadeMsg, SentMsg
  <2>2. Less(pipe', pipe, ConnectMsg(p))
    <3> HIDE DEF MadeMsg
    <3> QED
      BY <1>1, <2>1, LessAppend, SentOther
  <2> QED
    BY <1>1, <2>2, EventOwner, LessSame DEF Fewer
<1>3. CASE p # clients[c].peer
  <2>1. told'[p] = told[p]
    BY <1>1, <1>3, ExceptOther, CallDomains DEF Shape
  <2> QED
    BY <1>1, <1>2, <2>1, EventOwner, GoesKept DEF SameCall
<1>4. CASE p = clients[c].peer
  <2>1. ~ Waits(p) /\ ~ Waits(p)'
    BY <1>1, <1>2, <1>4, EventOwner, FewerWait
  <2>2. \A d \in known' : ~ InClient(p, d)'
    <3>1. \A d \in known' : InClient(p, d)' => d = c
      BY <1>1, <1>4, EventOwner
    <3> QED
      BY <1>1, <3>1 DEF InClient
  <2> QED
    BY <1>1, <2>1, <2>2, SoleNone DEF Goes
<1> QED
  BY <1>3, <1>4

LEMMA GoesFailed ==
    ASSUME Shape, Ages, Next, NEW p \in Called, Sole(p), NEW c \in Made, NEW type \in {"Read", "Write"},
           ClientEvent(c, type), Failed(c)
    PROVE  Goes(p)
<1> DEFINE q == clients[c].peer
<1>1. /\ pipe' = pipe /\ clients[c].info /\ ~ clients'[c].info
      /\ attempts' = [attempts EXCEPT ![q] = attempts[q] - 1]
      /\ \/ attempts[q] > 1 /\ planned' = Append(planned, q) /\ told' = told
         \/ /\ ~ (attempts[q] > 1) /\ told' = [told EXCEPT ![q] = "FailedToEstablish"]
            /\ planned' = planned
  BY DEF Failed
<1>2. q \in Called /\ planned \in Seq(Called) /\ DOMAIN told = Called /\ DOMAIN attempts = Called
  BY <1>1, CallDomains DEF Shape, Calls, Queues
<1>3. attempts[q] \in Nat
  BY <1>2, AttemptsAssumption DEF Shape, Calls, Called
<1>4. Planned' = Planned /\ known' = known
  BY EventOwner
<1> HIDE DEF q, Called
<1>5. CASE p # q
  <2>1. told'[p] = told[p] /\ attempts'[p] = attempts[p]
    BY <1>1, <1>2, <1>5, ExceptOther
  <2>2. Less(planned', planned, p)
    BY <1>1, <1>2, <1>5, LessAppend, LessSame
  <2> QED
    BY <1>1, <1>4, <2>1, <2>2, LessSame, EventOwner, GoesKept DEF SameCall, Fewer
<1>6. CASE p = q
  <2>1. attempts'[p] = attempts[p] - 1
    BY <1>1, <1>2, <1>6, ExceptOther
  <2>2. ~ Waits(p) /\ told[p] = "Nothing" /\ attempts[p] > 0
    BY <1>1, <1>6, EventOwner DEF q
  <2>3. \A d \in known' : ~ InClient(p, d)'
    <3>1. \A d \in known' : InClient(p, d)' => d = c
      BY <1>1, <1>6, EventOwner DEF q
    <3> QED
      BY <1>1, <3>1 DEF InClient
  <2>4. CASE ~ (attempts[q] > 1)
    <3>1. ~ Waits(p)'
      BY <1>1, <1>4, <2>2, <2>4 DEF Waits
    <3> QED
      BY <2>1, <2>3, <3>1, SoleNone DEF Goes
  <2>5. CASE attempts[q] > 1
    <3>1. planned' = Append(planned, p) /\ told'[p] = "Nothing" /\ attempts'[p] > 0
      BY <1>1, <1>3, <1>6, <2>1, <2>2, <2>5
    <3>2. ~ Has(planned, p) /\ ~ Has(pipe', ConnectMsg(p)) /\ ~ Has(Planned', p)
      BY <1>1, <1>4, <2>2 DEF Waits
    <3>3. Single(planned', p) /\ Single(pipe', ConnectMsg(p)) /\ Single(Planned', p)
      BY <1>1, <1>2, <1>4, <3>1, <3>2, AppendHas DEF Sole
    <3>4. Sole(p)'
      BY <2>3, <3>1, <3>2, <3>3 DEF Sole
    <3> QED
      BY <2>1, <3>4 DEF Goes
  <2> QED
    BY <2>4, <2>5
<1> QED
  BY <1>5, <1>6

LEMMA GoesStep ==
    ASSUME Shape, Timely, \A d \in Made : Traffic(d), Ages, Next, NEW p \in Called, Sole(p)
    PROVE  Goes(p)
<1>1. CASE ConnectPlanned \/ \E q \in Called : PipeConnect(q)
  BY <1>1, GoesConnect
<1>2. CASE Timer
  BY <1>2, GoesTimer
<1>3. ASSUME NEW c \in Made, NEW type \in {"Read", "Write"}, ClientEvent(c, type) PROVE Goes(p)
  <2>1. CASE UNCHANGED <<clients, planned, attempts, told, pipe, erase>>
    BY <1>3, <2>1, EventOwner, LessSame, GoesKept DEF Fewer, SameCall
  <2> QED
    BY <1>3, <2>1, GoesConnected, GoesFailed, ClientEventEffect DEF Shape
<1>4. CASE /\ ~ ConnectPlanned /\ ~ (\E q \in Called : PipeConnect(q)) /\ ~ Timer
           /\ \A c \in Made : ~ (ClientEvent(c, "Read") \/ ClientEvent(c, "Write"))
  <2>1. planned' = planned /\ Planned' = Planned /\ SameCall(p)
    BY <1>4, PlannedKept, KernelSame DEF SameCall
  <2>2. \A d \in known' : InClient(p, d)' => InClient(p, d)
    BY <1>4, Newcomer, InClientKept DEF ConnectsTo
  <2>3. Less(pipe', pipe, ConnectMsg(p))
    <3>1. CASE pipe' = pipe
      BY <3>1, LessSame
    <3>2. CASE Wait \/ Erase
      BY <3>1, <3>2 DEF Wait, Erase
    <3>3. CASE ~ Wait /\ ~ Erase
      <4>1. Enqueues /\ pipe \in Seq(MadeMsg)
        BY <3>3, EnqueuesStep DEF Ages, Shape, Queues
      <4>2. CASE pipe # <<>> /\ pipe' = Tail(pipe)
        <5> HIDE DEF MadeMsg
        <5> QED
          BY <4>1, <4>2, LessTail
      <4>3. ASSUME NEW c \in Made', NEW m, m = SentMsg(c) \/ m = DisconnectMsg(c), pipe' = Append(pipe, m)
            PROVE  Less(pipe', pipe, ConnectMsg(p))
        <5> DEFINE S == MadeMsg \cup {m}
        <5>1. pipe \in Seq(S) /\ m \in S
          <6> HIDE DEF MadeMsg
          <6> QED
            BY <4>1, Widened
        <5> HIDE DEF S
        <5> QED
          BY <4>3, <5>1, LessAppend, SentOther
      <4> QED
        BY <3>1, <4>1, <4>2, <4>3 DEF Enqueues
    <3> QED
      BY <3>2, <3>3
  <2> QED
    BY <2>1, <2>2, <2>3, LessSame, GoesKept DEF Fewer
<1> QED
  BY <1>1, <1>2, <1>3, <1>4

-----------------------------------------------------------------------------
(* The ids: every client stands for another attempt or another node.        *)

LEMMA MovesUsed ==
    ASSUME backlog \in Nat, incoming \in Nat, backlog' \in Nat, incoming' \in Nat, Moves,
           NEW x \in Nat
    PROVE  /\ x + backlog + incoming < Nodes - 1 => x + backlog' + incoming' < Nodes - 1
           /\ NewConnection /\ x + backlog + incoming = Nodes - 1 => x + backlog' + incoming' < Nodes - 1
<1>1. CASE backlog' = backlog /\ incoming' = incoming /\ ~ NewConnection
  BY <1>1
<1>2. CASE backlog' = backlog - 1 /\ incoming' = incoming
  BY <1>2, AttemptsAssumption
<1>3. CASE backlog' = backlog + 1 /\ incoming' = incoming - 1 /\ ~ NewConnection
  BY <1>3, AttemptsAssumption
<1> QED
  BY <1>1, <1>2, <1>3 DEF Moves

LEMMA UsedStep ==
    ASSUME Shape, Called' = Called, Timely, Next, \A p \in Called : Goes(p), NEW slot \in Slot, Used(slot)
    PROVE  Used(slot)'
<1>1. slot[1] \in Nat /\ slot[2] \in Nat
  BY DEF Slot, Peer
<1>2. CASE slot[1] \in Called
  <2> DEFINE p == slot[1]
  <2>1. attempts[p] \in Nat
    BY <1>2, AttemptsAssumption DEF Shape, Calls, Called
  <2>2. CASE attempts'[p] = attempts[p] /\ (Waits(p)' => Waits(p))
    BY <1>2, <2>2 DEF Used
  <2>3. CASE attempts'[p] = attempts[p] - 1
    <3>1. slot[2] > attempts'[p]
      BY <1>1, <1>2, <2>1, <2>3 DEF Used
    <3> QED
      BY <1>2, <3>1 DEF Used
  <2> QED
    BY <1>2, <2>2, <2>3 DEF Goes
<1>3. CASE slot[1] \notin Called
  <2>1. slot[1] + backlog + incoming < Nodes - 1
    BY <1>3 DEF Used
  <2>2. slot[1] + backlog' + incoming' < Nodes - 1
    BY <1>1, <2>1, BacklogStep, MovesUsed
  <2> QED
    BY <1>3, <2>2 DEF Used
<1> QED
  BY <1>2, <1>3

LEMMA NumberedGrows ==
    ASSUME made \in Nat, made' = made + 1, Numbered, NEW slot \in Slot, ~ Used(slot), Used(slot)',
           \A s \in Slot : Used(s) => Used(s)'
    PROVE  Numbered'
<1>1. PICK f \in [Made -> Slot] :
          /\ \A c, d \in Made : f[c] = f[d] => c = d
          /\ \A c \in Made : Used(f[c])
  BY DEF Numbered
<1>2. /\ \A c \in Made' : c # made + 1 => c \in Made
      /\ made + 1 \in Made'
  BY DEF Made
<1>3. PICK g : /\ g \in [Made' -> Slot] /\ g[made + 1] = slot
               /\ \A c \in Made' : c # made + 1 => g[c] = f[c]
  <2> DEFINE h == [c \in Made' |-> IF c = made + 1 THEN slot ELSE f[c]]
  <2>1. \A c \in Made' : (IF c = made + 1 THEN slot ELSE f[c]) \in Slot
    BY <1>1, <1>2
  <2>2. h \in [Made' -> Slot] /\ h[made + 1] = slot /\ \A c \in Made' : c # made + 1 => h[c] = f[c]
    BY <1>2, <2>1
  <2> QED
    BY <2>2
<1>4. ASSUME NEW c \in Made', c # made + 1 PROVE c \in Made /\ g[c] \in Slot /\ g[c] = f[c] /\ Used(g[c])
  BY <1>1, <1>2, <1>3, <1>4
<1>5. ASSUME NEW c \in Made', NEW d \in Made', g[c] = g[d] PROVE c = d
  <2>1. \A e \in Made' : e # made + 1 => g[e] # slot
    BY <1>4
  <2> QED
    BY <1>1, <1>3, <1>4, <1>5, <2>1
<1>6. ASSUME NEW c \in Made' PROVE Used(g[c])'
  <2>1. CASE c = made + 1
    BY <1>3, <2>1
  <2>2. CASE c # made + 1
    BY <1>4, <2>2
  <2> QED
    BY <2>1, <2>2
<1> QED
  BY <1>3, <1>5, <1>6 DEF Numbered

LEMMA NumberedStep ==
    ASSUME Shape, Called' = Called, Timely, Next, \A p \in Called : Sole(p) /\ Goes(p), Numbered
    PROVE  Numbered'
<1>1. \A s \in Slot : Used(s) => Used(s)'
  BY UsedStep
<1>2. CASE made' = made
  BY <1>1, <1>2 DEF Numbered, Made
<1>3. ASSUME NEW p \in Called, NEW d, ConnectsTo(p, d) PROVE Numbered'
  <2> DEFINE slot == <<p, attempts[p]>>
  <2>1. Takes(p) /\ SameCall(p) /\ made' = made + 1 /\ made \in Nat
    BY <1>3, ConnectsTakes DEF Creates, Shape, Objects
  <2>2. attempts[p] \in 1 .. Attempts
    <3>1. attempts[p] > 0
      BY <2>1 DEF Takes, Sole
    <3> QED
      BY <3>1, AttemptsAssumption DEF Shape, Calls, Called
  <2>3. slot \in Slot
    BY <2>2, CalledPeers DEF Slot, Shape
  <2>4. ~ Used(slot)
    BY <2>1, <2>2 DEF Used, Takes
  <2>5. ASSUME NEW y \in Slot, y = slot PROVE Numbered'
    <3>1. Used(y)'
      BY <2>1, <2>5 DEF Used, Takes, SameCall
    <3> QED
      BY <1>1, <2>1, <2>4, <2>5, <3>1, NumberedGrows
  <2> QED
    BY <2>3, <2>5
<1>4. ASSUME NEW d, Accepts(d) PROVE Numbered'
  <2> DEFINE x == Nodes - 1 - (backlog + incoming)
             slot == <<x, 1>>
  <2>1. made' = made + 1 /\ made \in Nat /\ NewConnection
    BY <1>4 DEF Accepts, Creates, Shape, Objects
  <2>2. backlog \in Nat /\ incoming \in Nat /\ backlog > 0 /\ backlog' \in Nat /\ incoming' \in Nat /\ Moves
    BY <2>1, BacklogStep DEF Moves
  <2>3. PICK n \in 0 .. Nodes - 1 : Called = 0 .. n - 1 /\ backlog + incoming <= Nodes - 1 - n
    BY DEF Shape, Calls, Called
  <2>4. x \in Nat /\ x <= Nodes - 2 /\ x >= n /\ x + backlog + incoming = Nodes - 1
    BY <2>2, <2>3, AttemptsAssumption
  <2>5. x \in Peer /\ x \notin Called
    BY <2>3, <2>4, AttemptsAssumption DEF Peer
  <2>6. x + backlog' + incoming' < Nodes - 1
    <3> HIDE DEF x
    <3> QED
      BY <2>1, <2>2, <2>4, MovesUsed
  <2> HIDE DEF x
  <2>7. slot \in Slot
    BY <2>5, AttemptsAssumption DEF Slot
  <2>8. ~ Used(slot)
    BY <2>2, <2>4, <2>5, AttemptsAssumption DEF Used
  <2>9. ASSUME NEW y, y = slot PROVE Used(y)'
    BY <2>5, <2>6, <2>9 DEF Used
  <2>10. ASSUME NEW y \in Slot, y = slot PROVE Numbered'
    BY <1>1, <2>1, <2>8, <2>9, <2>10, NumberedGrows
  <2> QED
    BY <2>7, <2>10
<1> QED
  BY <1>2, <1>3, <1>4, Newcomer

-----------------------------------------------------------------------------
(* The invariant holds.                                                     *)

LEMMA InitShape == ASSUME Init PROVE Shape /\ Timely
<1>1. Objects
  <2>1. \A S : <<>> \in Seq(S) /\ Len(<<>>) = 0
    OBVIOUS
  <2> QED
    BY <2>1 DEF Init, Objects
<1>2. PICK n \in 0 .. Nodes - 1 :
          /\ attempts = [p \in 0 .. n - 1 |-> Attempts]
          /\ told = [p \in 0 .. n - 1 |-> "Nothing"]
          /\ pipe = [i \in 1 .. n |-> ConnectMsg(i - 1)]
          /\ incoming = Nodes - 1 - n
  BY DEF Init
<1>3. Made = {} /\ Called = 0 .. n - 1 /\ n \in Nat
  BY <1>2, AttemptsAssumption DEF Init, Made, Called
<1>4. Calls
  BY <1>2, <1>3, AttemptsAssumption DEF Init, Calls
<1>5. pipe \in Seq(MadeMsg)
  <2>1. \A i \in 1 .. n : ConnectMsg(i - 1) \in MadeMsg
    <3>1. \A i \in 1 .. n : i - 1 \in Called
      BY <1>3
    <3> QED
      BY <3>1 DEF ConnectMsg, MadeMsg
  <2> HIDE DEF MadeMsg
  <2> QED
    BY <1>2, <1>3, <2>1
<1>6. Queues
  <2>1. \A S : <<>> \in Seq(S)
    OBVIOUS
  <2>2. events \in [Client -> Seq(QueuedEvent)]
    BY <2>1 DEF Init
  <2> QED
    BY <1>5, <2>1, <2>2 DEF Init, Queues
<1>7. Doing
  BY DEF Init, Doing
<1>8. Timely
  BY <1>3 DEF Init, Timely
<1> QED
  BY <1>1, <1>4, <1>6, <1>7, <1>8 DEF Shape

LEMMA InitSole == ASSUME Init, NEW p \in Called PROVE Sole(p)
<1>1. PICK n \in 0 .. Nodes - 1 :
          /\ attempts = [q \in 0 .. n - 1 |-> Attempts]
          /\ told = [q \in 0 .. n - 1 |-> "Nothing"]
          /\ pipe = [i \in 1 .. n |-> ConnectMsg(i - 1)]
  BY DEF Init
<1>2. p \in 0 .. n - 1 /\ n \in Nat
  BY <1>1, AttemptsAssumption DEF Called
<1>3. \A i \in DOMAIN pipe : i \in 1 .. n /\ pipe[i] = ConnectMsg(i - 1)
  BY <1>1
<1>4. Single(pipe, ConnectMsg(p))
  <2>1. ASSUME NEW i \in DOMAIN pipe, pipe[i] = ConnectMsg(p) PROVE i = p + 1
    <3>1. i - 1 = p
      BY <1>3, <2>1, MsgFields
    <3> QED
      BY <1>2, <1>3, <3>1
  <2> QED
    BY <2>1 DEF Single
<1>5. planned = <<>> /\ Planned = <<>> /\ known = {}
  BY DoingFields, PlannedIs DEF Init
<1>6. told[p] = "Nothing" /\ attempts[p] > 0
  BY <1>1, <1>2, AttemptsAssumption
<1> QED
  BY <1>4, <1>5, <1>6, NothingHeld DEF Sole

LEMMA InitInv == Init => IInv
<1> SUFFICES ASSUME Init PROVE IInv
  OBVIOUS
<1>1. Made = {}
  BY DEF Init, Made
<1>2. PointersValid
  BY DEF Init, PointersValid
<1>3. Stopped
  BY DoingFields DEF Init, Stopped
<1>4. Armed
  BY <1>1 DEF Armed
<1>5. Numbered
  <2>1. <<>> \in [Made -> Slot]
    BY <1>1
  <2> QED
    BY <1>1, <2>1 DEF Numbered
<1> QED
  BY <1>1, <1>2, <1>3, <1>4, <1>5, InitShape, InitSole DEF IInv

LEMMA MadeClients == Objects /\ Numbered => Made \subseteq Client
  BY IdsAreClients

LEMMA NextInv == IInv /\ Next => IInv'
<1> SUFFICES ASSUME IInv, Next PROVE IInv'
  OBVIOUS
<1>1. /\ Shape /\ Timely /\ PointersValid /\ Stopped /\ Armed /\ Numbered
      /\ \A c \in Made : Traffic(c) /\ Heard(c) /\ InOrder(c)
      /\ \A p \in Called : Sole(p)
  BY DEF IInv
<1>2. Shape' /\ Called' = Called /\ Ages
  BY <1>1, ShapeStep, AgesStep
<1>3. \A p \in Called : Goes(p)
  BY <1>1, <1>2, GoesStep
<1>4. Numbered'
  BY <1>1, <1>2, <1>3, NumberedStep
<1>5. Made' \subseteq Client
  <2>1. Objects' /\ Numbered' => (Made \subseteq Client)'
    BY MadeClients, PTL
  <2> QED
    BY <1>2, <1>4, <2>1 DEF Shape
<1>6. \A c \in Made' : Traffic(c)'
  BY <1>1, TrafficStep
<1>7. \A c \in Made' : Told(c)'
  BY <1>1, <1>5, ToldStep DEF Told
<1>8. \A c \in Made' : Minded(c)'
  BY <1>1, <1>2, ArmedOfAll, MindedStep
<1>9. Armed'
  <2>1. Armed' <=> (\A c \in Made : Minded(c))'
    BY ArmedOfAll, PTL
  <2> QED
    BY <1>8, <2>1
<1>10. Timely' /\ PointersValid' /\ Stopped'
  BY <1>1, <1>2, <1>5, TimelyStep, PointersStep, StoppedStep
<1>11. \A p \in Called' : Sole(p)'
  BY <1>2, <1>3 DEF Goes
<1> QED
  BY <1>2, <1>4, <1>6, <1>7, <1>9, <1>10, <1>11 DEF IInv, Told

LEMMA StutterInv == IInv /\ UNCHANGED vars => IInv'
<1> SUFFICES ASSUME IInv, UNCHANGED vars PROVE IInv'
  OBVIOUS
<1>1. UNCHANGED <<clients, sockets, known, made, planned, attempts, told, backlog, incoming, pipe,
                  sender, batch, doing, erase, events, alive>>
  BY DEF vars, managerVars, kernelVars
<1>2. Shape' <=> Shape
  BY <1>1 DEF Shape, Objects, Calls, Queues, Doing, Made, Called, MadeMsg, Rearming
<1>3. Timely' <=> Timely
  BY <1>1 DEF Timely, Made
<1>4. PointersValid' <=> PointersValid
  BY <1>1 DEF PointersValid
<1>5. \A c : Traffic(c)' <=> Traffic(c)
  BY <1>1 DEF Traffic
<1>6. \A c : (Heard(c)' <=> Heard(c)) /\ (InOrder(c)' <=> InOrder(c))
  BY <1>1 DEF Heard, InOrder
<1>7. Stopped' <=> Stopped
  BY <1>1 DEF Stopped
<1>8. Armed' <=> Armed
  BY <1>1 DEF Armed, Working, Made
<1>9. \A p : (Sole(p)' <=> Sole(p)) /\ (Waits(p)' <=> Waits(p))
  BY <1>1 DEF Sole, Waits, Planned, InClient
<1>10. \A s : Used(s)' <=> Used(s)
  BY <1>1, <1>9 DEF Used, Called
<1>11. Numbered' <=> Numbered
  BY <1>1, <1>10 DEF Numbered, Made
<1>12. Made' = Made /\ Called' = Called
  BY <1>1 DEF Made, Called
<1> QED
  BY <1>2, <1>3, <1>4, <1>5, <1>6, <1>7, <1>8, <1>9, <1>11, <1>12 DEF IInv

\* The inductive invariant holds in every state.
THEOREM Invariance == Spec => []IInv
<1>1. IInv /\ [Next]_vars => IInv'
  BY NextInv, StutterInv
<1> QED
  BY <1>1, InitInv, PTL DEF Spec

-----------------------------------------------------------------------------
(* What follows from it.                                                    *)

\* TypeOK: what the invariant says of the records is bounded by the packets that are posted
\* and received.
LEMMA ClientTypes ==
    ASSUME Objects, NEW c \in Made, Queued(clients[c]), Counted(sockets[c])
    PROVE  /\ clients[c] \in [peer : Peer \cup {None}, state : {"Connected", "Disconnected"}, info : BOOLEAN,
                 readError : BOOLEAN, writeError : BOOLEAN, dead : BOOLEAN, queue : Seq(Nat),
                 buffer : Nat, sent : 0 .. 2, posted : 0 .. MaxPosts + 1]
           /\ sockets[c] \in [link : Link, interest : SUBSET {"Read", "Write"}, closed : BOOLEAN,
                 theirs : Seq(Kind \cup {"handshake"}), arrived : 0 .. 2 * MaxTheirs,
                 taken : 0 .. 2 * MaxTheirs, out : Seq(Nat), wire : Seq(Nat)]
<1> DEFINE k == clients[c]
           s == sockets[c]
<1>1. k \in ClientRecord /\ s \in SocketRecord
  BY Recorded
<1>2. Queued(k) /\ Counted(s)
  OBVIOUS
<1> HIDE DEF k, s
<1>3. k.posted \in 0 .. MaxPosts + 1
  BY <1>1, <1>2, BoundAssumption DEF Queued, ClientRecord
<1>4. s.arrived \in 0 .. 2 * MaxTheirs /\ s.taken \in 0 .. 2 * MaxTheirs
  BY <1>1, <1>2, BoundAssumption DEF Counted, SocketRecord
<1>5. {0, 1, 2} = 0 .. 2
  OBVIOUS
<1>6. k \in [peer : Peer \cup {None}, state : {"Connected", "Disconnected"}, info : BOOLEAN,
             readError : BOOLEAN, writeError : BOOLEAN, dead : BOOLEAN, queue : Seq(Nat),
             buffer : Nat, sent : 0 .. 2, posted : 0 .. MaxPosts + 1]
  BY <1>1, <1>3, <1>5 DEF ClientRecord
<1>7. s \in [link : Link, interest : SUBSET {"Read", "Write"}, closed : BOOLEAN,
             theirs : Seq(Kind \cup {"handshake"}), arrived : 0 .. 2 * MaxTheirs,
             taken : 0 .. 2 * MaxTheirs, out : Seq(Nat), wire : Seq(Nat)]
  BY <1>1, <1>4 DEF SocketRecord
<1> QED
  BY <1>6, <1>7 DEF k, s

LEMMA CallTypes ==
    ASSUME Calls
    PROVE  /\ \E n \in 0 .. Nodes - 1 :
                 /\ attempts \in [0 .. n - 1 -> 0 .. Attempts]
                 /\ told \in [0 .. n - 1 -> {"Nothing", "Connected", "FailedToEstablish"}]
                 /\ backlog + incoming \in 0 .. Nodes - 1 - n
           /\ Called \subseteq Peer
<1>1. PICK n \in 0 .. Nodes - 1 :
          /\ attempts \in [0 .. n - 1 -> 0 .. Attempts]
          /\ told \in [0 .. n - 1 -> {"Nothing", "Connected", "FailedToEstablish"}]
          /\ backlog + incoming <= Nodes - 1 - n
  BY DEF Calls
<1>2. backlog \in Nat /\ incoming \in Nat /\ Nodes \in Nat
  BY AttemptsAssumption DEF Calls
<1>3. backlog + incoming \in 0 .. Nodes - 1 - n
  BY <1>1, <1>2
<1>4. Called \subseteq Peer
  BY <1>1, <1>2 DEF Called, Peer
<1> QED
  BY <1>1, <1>3, <1>4

LEMMA QueueTypes ==
    ASSUME Objects, Queues, Called \subseteq Peer, Made \subseteq Client
    PROVE  /\ planned \in Seq(Peer) /\ pipe \in Seq(Msg) /\ sender \in Client \cup {0}
           /\ batch \subseteq Event /\ erase \in Seq(Client)
           /\ \A c \in Client : events[c] \in Seq({ConnectedEvent, DisconnectedEvent}
                                            \cup [type : {"Packet"}, number : 1 .. MaxTheirs])
<1>1. MadeMsg \subseteq Msg
  BY DEF MadeMsg, Msg
<1>2. Rearming \subseteq [type : {"Read", "Write"}, client : Client]
  BY DEF Rearming, Objects
<1>3. batch \subseteq Event
  BY <1>2 DEF Event, Queues
<1>4. sender \in Client \cup {0}
  BY DEF Queues
<1> HIDE DEF MadeMsg, Made, Called
<1>5. planned \in Seq(Peer) /\ pipe \in Seq(Msg) /\ erase \in Seq(Client)
  BY <1>1, Widened DEF Queues
<1>6. \A c \in Client : events[c] \in Seq(QueuedEvent)
  BY DEF Queues
<1> QED
  BY <1>3, <1>4, <1>5, <1>6 DEF QueuedEvent

LEMMA ClientCount == IsFiniteSet(Client) /\ Cardinality(Client) = (Nodes - 1) * Attempts
<1>1. (Nodes - 1) * Attempts \in Nat
  <2>1. Nodes - 1 \in Nat /\ Attempts \in Nat
    BY AttemptsAssumption
  <2> QED
    BY <2>1
<1> QED
  BY <1>1, FS_Interval DEF Client

LEMMA InvTypes == IInv => TypeOK
<1> SUFFICES ASSUME IInv PROVE TypeOK
  OBVIOUS
<1>1. /\ Objects /\ Calls /\ Queues /\ Numbered
      /\ \A c \in Made : Queued(clients[c]) /\ Counted(sockets[c])
  BY DEF IInv, Shape, Traffic
<1>2. made \in 0 .. (Nodes - 1) * Attempts /\ Made \subseteq Client
  BY <1>1, IdsAreClients
<1>3. made \in 0 .. Cardinality(Client)
  BY <1>2, ClientCount
<1>4. DOMAIN clients = 1 .. made /\ DOMAIN sockets = 1 .. made /\ known \subseteq 1 .. made
  BY <1>1 DEF Objects, Made
<1>5. alive \in BOOLEAN /\ Made = 1 .. made
  BY <1>1 DEF Queues, Made
<1>6. \A c \in 1 .. made :
          /\ clients[c] \in [peer : Peer \cup {None}, state : {"Connected", "Disconnected"}, info : BOOLEAN,
                 readError : BOOLEAN, writeError : BOOLEAN, dead : BOOLEAN, queue : Seq(Nat),
                 buffer : Nat, sent : 0 .. 2, posted : 0 .. MaxPosts + 1]
          /\ sockets[c] \in [link : Link, interest : SUBSET {"Read", "Write"}, closed : BOOLEAN,
                 theirs : Seq(Kind \cup {"handshake"}), arrived : 0 .. 2 * MaxTheirs,
                 taken : 0 .. 2 * MaxTheirs, out : Seq(Nat), wire : Seq(Nat)]
  BY <1>1, <1>5, ClientTypes
<1> QED
  BY <1>1, <1>2, <1>3, <1>4, <1>5, <1>6, CallTypes, QueueTypes DEF TypeOK

\* Every field has its type, every id is one that some attempt or connection accounts for,
\* and the counters keep their bounds.
THEOREM TypeCorrect == Spec => []TypeOK
  BY Invariance, InvTypes, PTL

\* The pieces that left a socket and those in its send buffer, one after the other.
LEMMA InvWire == IInv => WireInOrder
<1> SUFFICES ASSUME IInv, NEW c \in Made, NEW i \in DOMAIN (sockets[c].wire \o sockets[c].out)
             PROVE  (sockets[c].wire \o sockets[c].out)[i] = i
  BY DEF WireInOrder
<1> DEFINE w == sockets[c].wire
           o == sockets[c].out
<1>1. /\ \A j \in DOMAIN w : w[j] = j
      /\ \A j \in DOMAIN o : o[j] = Len(w) + j
  BY DEF IInv, Traffic, Sent
<1>2. w \in Seq(Nat) /\ o \in Seq(Nat)
  BY Recorded DEF IInv, Shape, SocketRecord
<1>3. i \in DOMAIN (w \o o)
  OBVIOUS
<1> HIDE DEF w, o
<1>4. /\ w \o o \in Seq(Nat) /\ Len(w \o o) = Len(w) + Len(o)
      /\ \A j \in 1 .. Len(w) : (w \o o)[j] = w[j]
      /\ \A j \in 1 .. Len(o) : (w \o o)[Len(w) + j] = o[j]
  BY <1>2, Appending
<1>5. /\ DOMAIN w = 1 .. Len(w) /\ DOMAIN o = 1 .. Len(o) /\ Len(w) \in Nat /\ Len(o) \in Nat
      /\ i \in 1 .. Len(w) + Len(o)
  BY <1>2, <1>3, <1>4
<1>6. ASSUME i <= Len(w) PROVE (w \o o)[i] = i
  <2>1. i \in 1 .. Len(w)
    BY <1>5, <1>6
  <2> QED
    BY <1>1, <1>4, <1>5, <2>1
<1>7. ASSUME ~ (i <= Len(w)) PROVE (w \o o)[i] = i
  <2>1. i - Len(w) \in 1 .. Len(o) /\ Len(w) + (i - Len(w)) = i
    BY <1>5, <1>7
  <2>2. (w \o o)[Len(w) + (i - Len(w))] = o[i - Len(w)] /\ o[i - Len(w)] = Len(w) + (i - Len(w))
    BY <1>1, <1>4, <1>5, <2>1
  <2> QED
    BY <2>1, <2>2
<1>8. (w \o o)[i] = i
  BY <1>6, <1>7
<1> QED
  BY <1>8 DEF w, o

\* What a client is sent leaves in order, whole and once, however the event loop's thread
\* appends to the queue between the TCP thread's writes, and however partial those are.
THEOREM SentInOrder == Spec => []WireInOrder
  BY Invariance, InvWire, PTL

\* A node is introduced before its packets come, these come in the order it sent them and
\* none twice, and it is reported as disconnected last, once, and when it is forgotten.
THEOREM AppendedInOrder == Spec => []EventsInOrder
<1>1. IInv => EventsInOrder
  BY EventsOfAll DEF IInv
<1> QED
  BY <1>1, Invariance, PTL

\* Neither eraseList nor an event still to be handled points to a client that was deleted,
\* and no client is deleted twice.
THEOREM NothingDangles == Spec => []PointersValid
<1>1. IInv => PointersValid
  BY DEF IInv
<1> QED
  BY <1>1, Invariance, PTL

\* A buffer that was attached for a client that works is never forgotten: the selector, a
\* message in the pipe or the thread that attached it will see to it.
THEOREM NothingForgotten == Spec => []Armed
<1>1. IInv => Armed
  BY DEF IInv
<1> QED
  BY <1>1, Invariance, PTL

-----------------------------------------------------------------------------
(* The owners of a connect call's info.                                     *)

\* Of the places that may hold it, at most one does, and at most once.
LEMMA OwnersAgree ==
    ASSUME NEW p, Sole(p), NEW x \in Owners(p), NEW y \in Owners(p)
    PROVE  x = y
<1>1. /\ Single(pipe, ConnectMsg(p)) /\ Single(planned, p) /\ Single(Planned, p)
      /\ \A c, d \in known : InClient(p, c) /\ InClient(p, d) => c = d
      /\ ~ (Has(pipe, ConnectMsg(p)) /\ Has(planned, p))
      /\ ~ (Has(pipe, ConnectMsg(p)) /\ Has(Planned, p))
      /\ ~ (Has(planned, p) /\ Has(Planned, p))
      /\ \A c \in known : InClient(p, c) => ~ Waits(p)
  BY DEF Sole
<1>2. \A z \in Owners(p) :
          \/ \E i \in DOMAIN pipe : pipe[i] = ConnectMsg(p) /\ z = <<"pipe", i>>
          \/ \E i \in DOMAIN planned : planned[i] = p /\ z = <<"planned", i>>
          \/ \E i \in DOMAIN Planned : Planned[i] = p /\ z = <<"loop", i>>
          \/ \E c \in known : InClient(p, c) /\ z = <<"client", c>>
  BY DEF Owners, InClient
<1>3. CASE \E i \in DOMAIN pipe : pipe[i] = ConnectMsg(p) /\ x = <<"pipe", i>>
  <2>1. Has(pipe, ConnectMsg(p)) /\ Waits(p)
    BY <1>3 DEF Has, Waits
  <2>2. \E i \in DOMAIN pipe : pipe[i] = ConnectMsg(p) /\ y = <<"pipe", i>>
    BY <1>1, <1>2, <2>1 DEF Has
  <2> QED
    BY <1>1, <1>3, <2>2 DEF Single
<1>4. CASE \E i \in DOMAIN planned : planned[i] = p /\ x = <<"planned", i>>
  <2>1. Has(planned, p) /\ Waits(p)
    BY <1>4 DEF Has, Waits
  <2>2. \E i \in DOMAIN planned : planned[i] = p /\ y = <<"planned", i>>
    BY <1>1, <1>2, <2>1 DEF Has
  <2> QED
    BY <1>1, <1>4, <2>2 DEF Single
<1>5. CASE \E i \in DOMAIN Planned : Planned[i] = p /\ x = <<"loop", i>>
  <2>1. Has(Planned, p) /\ Waits(p)
    BY <1>5 DEF Has, Waits
  <2>2. \E i \in DOMAIN Planned : Planned[i] = p /\ y = <<"loop", i>>
    BY <1>1, <1>2, <2>1 DEF Has
  <2> QED
    BY <1>1, <1>5, <2>2 DEF Single
<1>6. CASE \E c \in known : InClient(p, c) /\ x = <<"client", c>>
  <2>1. ~ Waits(p)
    BY <1>1, <1>6
  <2>2. \E c \in known : InClient(p, c) /\ y = <<"client", c>>
    BY <1>2, <2>1 DEF Waits, Has
  <2> QED
    BY <1>1, <1>6, <2>2
<1> QED
  BY <1>2, <1>3, <1>4, <1>5, <1>6

\* An owner stands for a call that was told nothing yet.
LEMMA OwnersWait ==
    ASSUME NEW p, Sole(p), NEW x \in Owners(p)
    PROVE  told[p] = "Nothing"
<1>1. Waits(p) \/ \E c \in known : InClient(p, c)
  BY DEF Owners, InClient, Waits, Has
<1> QED
  BY <1>1 DEF Sole

LEMMA InvOwned == IInv => ConnectOwned
<1> SUFFICES ASSUME IInv, NEW p \in DOMAIN told
             PROVE  Cardinality(Owners(p)) <= IF told[p] = "Nothing" THEN 1 ELSE 0
  BY DEF ConnectOwned
<1>1. Sole(p)
  BY CallDomains DEF IInv, Shape
<1>2. CASE Owners(p) = {}
  <2>1. Cardinality(Owners(p)) = 0
    BY <1>2, FS_EmptySet
  <2> QED
    BY <2>1
<1>3. CASE Owners(p) # {}
  <2>1. PICK x \in Owners(p) : TRUE
    BY <1>3
  <2>2. told[p] = "Nothing"
    BY <1>1, <2>1, OwnersWait
  <2>3. Owners(p) = {x}
    BY <1>1, <2>1, OwnersAgree
  <2>4. Cardinality(Owners(p)) = 1
    BY <2>3, FS_Singleton
  <2> QED
    BY <2>2, <2>4
<1> QED
  BY <1>2, <1>3

\* The info of a connect call is in one place at a time, whatever fails and however often,
\* and in none as soon as the call was told how it ended.
THEOREM InfoHasOneOwner == Spec => []ConnectOwned
  BY Invariance, InvOwned, PTL
=============================================================================
