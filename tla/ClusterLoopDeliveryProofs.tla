----------------------- MODULE ClusterLoopDeliveryProofs -----------------------
(***************************************************************************)
(* Proofs about which packets of ClusterLoop arrive where, and what they   *)
(* bring.  A request and a token reach only a node that can handle them.   *)
(* Whoever has a monitor's token has the newest properties, whoever is     *)
(* inside has newer ones than anybody else, and so the cluster implements  *)
(* DistributedMonitor.                                                     *)
(***************************************************************************)
EXTENDS ClusterLoopSafetyProofs

-----------------------------------------------------------------------------
(* How nodes meet: a node that counted N - 1 ClusterHandshakes heard of     *)
(* N - 1 different nodes, so every node has started before one asks.        *)

Edge(msg) == msg.type = "EdgeHandshake"
Cluster(msg) == msg.type = "ClusterHandshake"
Plain(msg) == msg.type \in {"RequestToken", "GiveToken"}

\* A ClusterHandshake is on its way in the channel c.
Hello(c) == \E i \in DOMAIN c : Cluster(c[i])

OneHello(c) == \A i, j \in DOMAIN c : Cluster(c[i]) /\ Cluster(c[j]) => i = j

\* The EdgeHandshake is the first packet of a connection: the receiver links the
\* sender before it handles anything else from it.
Opening(c, linked, broken) ==
    /\ \A i \in DOMAIN c : Edge(c[i]) => i = 1 /\ ~linked
    /\ ~linked /\ c # <<>> => Edge(c[1])
    /\ ~linked /\ c = <<>> => broken

Met(w) ==
    \A p, n \in Node :
        /\ OneHello(w[p][n])
        /\ Hello(w[p][n]) => p \in started /\ p # n
        /\ p # n => Opening(w[p][n], p \in links[n], {n, p} \in cut)
        /\ p = n => \A i \in DOMAIN w[p][n] : ~Edge(w[p][n][i])

\* m_clusterHandshakes of n is the number of the nodes H it heard of, and none of
\* them will be heard of again.
Heard(n, H) ==
    /\ H \subseteq links[n] \cap started
    /\ handshakes[n] = Cardinality(H)
    /\ \A p \in H : ~Hello(net[p][n])

Meeting ==
    /\ Met(net)
    /\ \A n \in Node :
          /\ links[n] \subseteq Node \ {n}
          /\ links[n] = Node \ {n} => n \in started
          /\ \E H \in SUBSET Node : Heard(n, H)
    /\ startedCluster # {} => started = Node

-----------------------------------------------------------------------------
(* One channel.                                                             *)

LEMMA TailChannel ==
    ASSUME NEW c \in Seq(Message), c # <<>>, OneHello(c)
    PROVE  /\ Tail(c) \in Seq(Message) /\ OneHello(Tail(c))
           /\ Hello(Tail(c)) => Hello(c) /\ ~Cluster(Head(c))
           /\ Cluster(Head(c)) => Hello(c)
           /\ \A linked, broken \in BOOLEAN : Opening(c, linked, broken) =>
                 /\ Opening(Tail(c), TRUE, broken)
                 /\ ~Edge(Head(c)) => linked
<1>1. /\ Tail(c) \in Seq(Message) /\ Head(c) = c[1] /\ 1 \in DOMAIN c
      /\ \A i \in DOMAIN Tail(c) : i + 1 \in DOMAIN c /\ Tail(c)[i] = c[i + 1] /\ i \in Nat \ {0}
  OBVIOUS
<1>2. OneHello(Tail(c))
  <2> SUFFICES ASSUME NEW i \in DOMAIN Tail(c), NEW j \in DOMAIN Tail(c),
                      Cluster(Tail(c)[i]), Cluster(Tail(c)[j])
               PROVE  i = j
    BY DEF OneHello
  <2>1. i + 1 = j + 1
    BY <1>1 DEF OneHello
  <2> QED
    BY <1>1, <2>1
<1>3. Hello(Tail(c)) => Hello(c) /\ ~Cluster(Head(c))
  <2> SUFFICES ASSUME NEW i \in DOMAIN Tail(c), Cluster(Tail(c)[i])
               PROVE  Hello(c) /\ ~Cluster(Head(c))
    BY DEF Hello
  <2>1. i + 1 \in DOMAIN c /\ Cluster(c[i + 1]) /\ i + 1 # 1
    BY <1>1
  <2> QED
    BY <1>1, <2>1 DEF Hello, OneHello
<1>4. ASSUME NEW linked \in BOOLEAN, NEW broken \in BOOLEAN, Opening(c, linked, broken)
      PROVE  /\ Opening(Tail(c), TRUE, broken)
             /\ ~Edge(Head(c)) => linked
  <2>1. ASSUME NEW i \in DOMAIN Tail(c) PROVE ~Edge(Tail(c)[i])
    <3>1. i + 1 \in DOMAIN c /\ i + 1 # 1
      BY <1>1
    <3> QED
      BY <1>1, <1>4, <3>1 DEF Opening
  <2> QED
    BY <1>1, <1>4, <2>1 DEF Opening
<1> QED
  BY <1>1, <1>2, <1>3, <1>4 DEF Hello

LEMMA ConcatChannel ==
    ASSUME NEW c \in Seq(Message), NEW msgs \in Seq(Message)
    PROVE  /\ c \o msgs \in Seq(Message)
           /\ \A i \in DOMAIN (c \o msgs) :
                 \/ i \in DOMAIN c /\ (c \o msgs)[i] = c[i]
                 \/ i - Len(c) \in DOMAIN msgs /\ (c \o msgs)[i] = msgs[i - Len(c)]
           /\ \A i \in DOMAIN c : i \in DOMAIN (c \o msgs)
           /\ c # <<>> => c \o msgs # <<>> /\ (c \o msgs)[1] = c[1]
<1>1. /\ c \o msgs \in Seq(Message) /\ DOMAIN (c \o msgs) = 1 .. Len(c) + Len(msgs)
      /\ DOMAIN c = 1 .. Len(c) /\ DOMAIN msgs = 1 .. Len(msgs)
      /\ Len(c) \in Nat /\ Len(msgs) \in Nat
      /\ \A i \in 1 .. Len(c) + Len(msgs) :
            (c \o msgs)[i] = IF i <= Len(c) THEN c[i] ELSE msgs[i - Len(c)]
  OBVIOUS
<1>2. c # <<>> => Len(c) > 0
  OBVIOUS
<1>3. ASSUME NEW i \in DOMAIN (c \o msgs)
      PROVE  \/ i \in DOMAIN c /\ (c \o msgs)[i] = c[i]
             \/ i - Len(c) \in DOMAIN msgs /\ (c \o msgs)[i] = msgs[i - Len(c)]
  BY <1>1
<1>4. c # <<>> => c \o msgs # <<>> /\ (c \o msgs)[1] = c[1]
  BY <1>1, <1>2
<1> QED
  BY <1>1, <1>3, <1>4

\* Sending anything but an EdgeHandshake.
LEMMA ConcatOpening ==
    ASSUME NEW c \in Seq(Message), NEW msgs \in Seq(Message),
           \A j \in DOMAIN msgs : ~Edge(msgs[j]),
           NEW linked \in BOOLEAN, Opening(c, linked, FALSE)
    PROVE  Opening(c \o msgs, linked, FALSE)
<1>1. ASSUME NEW i \in DOMAIN (c \o msgs), Edge((c \o msgs)[i]) PROVE i = 1 /\ ~linked
  BY <1>1, ConcatChannel DEF Opening
<1>2. ~linked => c # <<>> /\ Edge(c[1])
  BY DEF Opening
<1> QED
  BY <1>1, <1>2, ConcatChannel DEF Opening

-----------------------------------------------------------------------------
(* The whole network.                                                       *)

\* The channels of v fit the links, and no ClusterHandshake appeared in them.
Calm(v) ==
    /\ v \in Channels /\ Met(v)
    /\ \A a, b \in Node : Hello(v[a][b]) => Hello(net[a][b])

LEMMA CalmReceived ==
    ASSUME net \in Channels, Met(net), NEW n \in Node, NEW p \in Node,
           net[p][n] # <<>>, ~Edge(Head(net[p][n]))
    PROVE  Calm(Received(n, p)) /\ (p # n => p \in links[n])
<1> DEFINE v == Received(n, p)
<1>1. v \in Channels
  BY ReceivedType
<1>2. /\ v[p][n] = Tail(net[p][n]) /\ net[p][n] \in Seq(Message)
      /\ \A a, b \in Node : ~(a = p /\ b = n) => v[a][b] = net[a][b]
  BY DEF Received, Channels
<1>3. /\ OneHello(net[p][n])
      /\ Hello(net[p][n]) => p \in started /\ p # n
      /\ p # n => Opening(net[p][n], p \in links[n], {n, p} \in cut)
      /\ p = n => \A i \in DOMAIN net[p][n] : ~Edge(net[p][n][i])
  BY DEF Met
<1>4. OneHello(v[p][n]) /\ (Hello(v[p][n]) => Hello(net[p][n]))
  BY <1>2, <1>3, TailChannel
<1>5. p # n => p \in links[n] /\ Opening(v[p][n], p \in links[n], {n, p} \in cut)
  <2>1. (p \in links[n]) \in BOOLEAN /\ ({n, p} \in cut) \in BOOLEAN
    OBVIOUS
  <2>2. SUFFICES ASSUME p # n
                 PROVE  p \in links[n] /\ Opening(v[p][n], p \in links[n], {n, p} \in cut)
    OBVIOUS
  <2>3. /\ Opening(Tail(net[p][n]), TRUE, {n, p} \in cut)
        /\ p \in links[n]
    BY <1>2, <1>3, <2>1, <2>2, TailChannel
  <2> QED
    BY <1>2, <2>3 DEF Opening
<1>6. p = n => \A i \in DOMAIN v[p][n] : ~Edge(v[p][n][i])
  <2> SUFFICES ASSUME p = n, NEW i \in DOMAIN v[p][n] PROVE ~Edge(v[p][n][i])
    OBVIOUS
  <2>1. i + 1 \in DOMAIN net[p][n] /\ v[p][n][i] = net[p][n][i + 1]
    BY <1>2
  <2> QED
    BY <1>3, <2>1
<1> HIDE DEF v
<1>7. Met(v)
  <2> SUFFICES ASSUME NEW a \in Node, NEW b \in Node
               PROVE  /\ OneHello(v[a][b])
                      /\ Hello(v[a][b]) => a \in started /\ a # b
                      /\ a # b => Opening(v[a][b], a \in links[b], {b, a} \in cut)
                      /\ a = b => \A i \in DOMAIN v[a][b] : ~Edge(v[a][b][i])
    BY DEF Met
  <2>1. CASE a = p /\ b = n
    BY <1>3, <1>4, <1>5, <1>6, <2>1
  <2>2. CASE ~(a = p /\ b = n)
    BY <1>2, <2>2 DEF Met
  <2> QED
    BY <2>1, <2>2
<1>8. \A a, b \in Node : Hello(v[a][b]) => Hello(net[a][b])
  BY <1>2, <1>4
<1> QED
  BY <1>1, <1>5, <1>7, <1>8 DEF Calm, v

\* Requests and tokens are sent.
LEMMA CalmPost ==
    ASSUME NEW v, Calm(v), NEW n \in Node, NEW peers, NEW msgs \in Seq(Message),
           \A j \in DOMAIN msgs : Plain(msgs[j])
    PROVE  Calm(Post(v, n, peers, msgs))
<1> DEFINE w == Post(v, n, peers, msgs)
<1>1. w \in Channels /\ v \in Channels /\ Met(v)
  BY PostType DEF Calm
<1>2. \A m : Plain(m) => ~Edge(m) /\ ~Cluster(m)
  BY DEF Plain, Edge, Cluster
<1>3. ASSUME NEW a \in Node, NEW b \in Node
      PROVE  \/ w[a][b] = v[a][b]
             \/ {b, a} \notin cut /\ w[a][b] = v[a][b] \o msgs
  <2>1. {b, a} = {a, b}
    OBVIOUS
  <2> QED
    BY <1>1, <2>1 DEF Post, Channels
<1> HIDE DEF w
<1>4. ASSUME NEW a \in Node, NEW b \in Node
      PROVE  /\ OneHello(w[a][b])
             /\ Hello(w[a][b]) => Hello(v[a][b])
             /\ a # b => Opening(w[a][b], a \in links[b], {b, a} \in cut)
             /\ a = b => \A i \in DOMAIN w[a][b] : ~Edge(w[a][b][i])
  <2> DEFINE c == v[a][b]
             linked == a \in links[b]
  <2>1. /\ c \in Seq(Message) /\ OneHello(c)
        /\ a # b => Opening(c, linked, {b, a} \in cut)
        /\ a = b => \A i \in DOMAIN c : ~Edge(c[i])
    BY <1>1 DEF Met, Channels
  <2>2. CASE w[a][b] = c
    BY <2>1, <2>2
  <2>3. CASE {b, a} \notin cut /\ w[a][b] = c \o msgs
    <3>1. \A i \in DOMAIN (c \o msgs) :
             \/ i \in DOMAIN c /\ (c \o msgs)[i] = c[i]
             \/ ~Edge((c \o msgs)[i]) /\ ~Cluster((c \o msgs)[i])
      <4> HIDE DEF c
      <4> QED
        BY <1>2, <2>1, ConcatChannel
    <3>2. OneHello(c \o msgs) /\ (Hello(c \o msgs) => Hello(c))
      BY <2>1, <3>1 DEF OneHello, Hello
    <3>3. a # b => Opening(c \o msgs, linked, FALSE)
      <4>1. \A j \in DOMAIN msgs : ~Edge(msgs[j])
        BY <1>2
      <4>2. linked \in BOOLEAN /\ (a # b => Opening(c, linked, FALSE))
        BY <2>1, <2>3 DEF Opening
      <4> HIDE DEF c, linked
      <4> QED
        BY <2>1, <4>1, <4>2, ConcatOpening
    <3>4. a # b => Opening(c \o msgs, linked, {b, a} \in cut)
      BY <2>3, <3>3 DEF Opening
    <3>5. a = b => \A i \in DOMAIN (c \o msgs) : ~Edge((c \o msgs)[i])
      BY <2>1, <3>1
    <3> QED
      BY <2>3, <3>2, <3>4, <3>5
  <2> QED
    BY <1>3, <2>2, <2>3
<1>5. Met(w)
  <2> SUFFICES ASSUME NEW a \in Node, NEW b \in Node
               PROVE  /\ OneHello(w[a][b])
                      /\ Hello(w[a][b]) => a \in started /\ a # b
                      /\ a # b => Opening(w[a][b], a \in links[b], {b, a} \in cut)
                      /\ a = b => \A i \in DOMAIN w[a][b] : ~Edge(w[a][b][i])
    BY DEF Met
  <2>1. Hello(v[a][b]) => a \in started /\ a # b
    BY <1>1 DEF Met
  <2> QED
    BY <1>4, <2>1
<1>6. \A a, b \in Node : Hello(w[a][b]) => Hello(net[a][b])
  BY <1>4 DEF Calm
<1> QED
  BY <1>1, <1>5, <1>6 DEF Calm, w

LEMMA RequestsPlain ==
    ASSUME NEW a, NEW n, NEW order
    PROVE  \A j \in DOMAIN RequestMsgs(a, n, order) : Plain(RequestMsgs(a, n, order)[j])
  BY DEF RequestMsgs, RequestTokenMsg, Plain

LEMMA CalmRequests ==
    ASSUME NEW v, Calm(v), NEW n \in Node, NEW peers,
           NEW a \in [Token -> Alg], NEW T \in SUBSET Token, NEW order \in Orderings(T)
    PROVE  Calm(Post(v, n, peers, RequestMsgs(a, n, order)))
  BY RequestMsgsType, RequestsPlain, CalmPost

LEMMA CalmRequestTokens ==
    ASSUME TypeOK, Met(net), NEW n \in Node, NEW T \in SUBSET Token, RequestTokens(n, T)
    PROVE  Calm(net')
<1>1. Calm(net)
  BY DEF Calm, TypeOK, Channels
<1> DEFINE new == T \ pendingRequests[n]
           numbered == Numbered(alg[n], n, new)
<1>2. CASE n \in startedCluster
  <2>1. PICK order \in Orderings(new) :
           net' = Post(net, n, links[n], RequestMsgs(numbered, n, order))
    BY <1>2 DEF RequestTokens
  <2>2. numbered \in [Token -> Alg] /\ new \in SUBSET Token
    BY NumberedType DEF TypeOK
  <2> HIDE DEF numbered, new
  <2> QED
    BY <1>1, <2>1, <2>2, CalmRequests
<1>3. CASE n \notin startedCluster
  BY <1>1, <1>3 DEF RequestTokens
<1> QED
  BY <1>2, <1>3

\* A token is sent.
LEMMA CalmGive ==
    ASSUME NEW v, Calm(v), NEW n \in Node, NEW peers, NEW msg \in Message, Plain(msg)
    PROVE  Calm(Post(v, n, peers, <<msg>>))
<1> DEFINE msgs == <<msg>>
<1>1. msgs \in Seq(Message) /\ \A j \in DOMAIN msgs : Plain(msgs[j])
  OBVIOUS
<1> HIDE DEF msgs
<1>2. Calm(Post(v, n, peers, msgs))
  BY <1>1, CalmPost
<1> QED
  BY <1>2 DEF msgs

-----------------------------------------------------------------------------
(* Every action keeps the invariant.                                        *)

\* A step that leaves the links alone and sends requests and tokens only.
LEMMA CalmStep ==
    ASSUME Meeting, Calm(net'), UNCHANGED <<nodeVars, cut>>
    PROVE  Meeting'
<1>1. Met(net)'
  BY DEF Calm, Met, nodeVars
<1>2. ASSUME NEW n \in Node, NEW H \in SUBSET Node, Heard(n, H) PROVE Heard(n, H)'
  BY <1>2 DEF Heard, Calm, nodeVars
<1> QED
  BY <1>1, <1>2 DEF Meeting, nodeVars

LEMMA OthersCount ==
    ASSUME NEW n \in Node
    PROVE  /\ Cardinality(Node \ {n}) = N - 1
           /\ \A H \in SUBSET (Node \ {n}) : Cardinality(H) >= N - 1 => H = Node \ {n}
<1>1. 0 \in Int /\ N - 1 \in Int /\ N \in Nat /\ 0 <= N - 1
  BY NAssumption
<1>2. IsFiniteSet(Node) /\ Cardinality(Node) = N
  BY <1>1, FS_Interval DEF Node
<1>3. IsFiniteSet(Node \ {n}) /\ Cardinality(Node \ {n}) = N - 1
  BY <1>2, FS_RemoveElement
<1>4. ASSUME NEW H \in SUBSET (Node \ {n}), Cardinality(H) >= N - 1, H # Node \ {n}
      PROVE  FALSE
  <2>1. IsFiniteSet(H) /\ Cardinality(H) < Cardinality(Node \ {n}) /\ Cardinality(H) \in Nat
    BY <1>3, <1>4, FS_Subset, FS_CardinalityType
  <2> QED
    BY <1>1, <1>3, <1>4, <2>1
<1> QED
  BY <1>3, <1>4

LEMMA HandleConnectMeeting ==
    ASSUME TypeOK, Meeting, NEW n \in Node, NEW p \in Node, HandleConnect(n, p)
    PROVE  Meeting'
<1> DEFINE peers == links[n] \cup {p}
           starts == Cardinality(peers) >= N - 1 /\ n \notin started
           first == Received(n, p)
           hello == <<ClusterHandshakeMsg>>
           posted(d) == starts /\ d \in peers /\ {n, d} \notin cut
<1>1. /\ net \in Channels /\ net' \in Channels /\ first \in Channels
      /\ links \in [Node -> SUBSET Node] /\ started \in SUBSET Node
      /\ net[p][n] # <<>> /\ Head(net[p][n]).type = "EdgeHandshake"
      /\ net[p][n] \in Seq(Message)
  <2>1. TypeOK'
    BY HandleConnectType
  <2>2. net[p][n] # <<>> /\ Head(net[p][n]).type = "EdgeHandshake"
    BY DEF HandleConnect, Arrives
  <2> QED
    BY SMTT(30), <2>1, <2>2, ReceivedType DEF TypeOK, Channels
<1>2. /\ links' = [links EXCEPT ![n] = peers]
      /\ started' = IF starts THEN started \cup {n} ELSE started
      /\ startedCluster' = startedCluster /\ handshakes' = handshakes /\ cut' = cut
      /\ net' = IF starts THEN Post(first, n, peers, hello) ELSE first
  BY DEF HandleConnect, faultVars
<1>3. /\ p # n /\ p \notin links[n] /\ Edge(Head(net[p][n]))
      /\ first[p][n] = Tail(net[p][n])
      /\ \A a, b \in Node : ~(a = p /\ b = n) => first[a][b] = net[a][b]
  <2>1. Edge(net[p][n][1]) /\ 1 \in DOMAIN net[p][n] /\ Head(net[p][n]) = net[p][n][1]
    BY <1>1 DEF Edge
  <2>2. p # n
    BY <2>1 DEF Meeting, Met
  <2>3. p \notin links[n]
    BY <2>1, <2>2 DEF Meeting, Met, Opening
  <2> QED
    BY <1>1, <2>1, <2>2, <2>3 DEF Received, Channels
<1>4. /\ peers \subseteq Node \ {n}
      /\ starts => \A d \in Node : ~Hello(net[n][d])
  BY <1>3 DEF Meeting, Met
<1>5. peers = Node \ {n} => n \in started'
  <2>1. N - 1 >= N - 1
    BY NAssumption
  <2> QED
    BY <1>2, <2>1, OthersCount
<1>6. ASSUME NEW a \in Node, NEW b \in Node
      PROVE  net'[a][b] = IF a = n /\ posted(b) THEN net[n][b] \o hello ELSE first[a][b]
  <2>1. CASE starts
    <3>1. net'[a][b] = IF a = n /\ b \in peers /\ {n, b} \notin cut
                       THEN first[a][b] \o hello ELSE first[a][b]
      BY <1>1, <1>2, <2>1 DEF Post, Channels
    <3> QED
      BY <1>3, <2>1, <3>1
  <2>2. CASE ~starts
    BY <1>2, <2>2
  <2> QED
    BY <2>1, <2>2
<1>7. /\ hello \in Seq(Message) /\ DOMAIN hello = {1}
      /\ Cluster(hello[1]) /\ ~Edge(hello[1])
  BY MessageTypes DEF ClusterHandshakeMsg, Cluster, Edge
<1> HIDE DEF hello, first, posted, peers
<1>8. ASSUME NEW d \in Node, posted(d)
      PROVE  /\ OneHello(net[n][d] \o hello)
             /\ n # d /\ n \in started' /\ {d, n} \notin cut
             /\ Opening(net[n][d] \o hello, n \in links[d], {d, n} \in cut)
  <2>1. starts /\ d \in peers /\ {n, d} = {d, n} /\ {d, n} \notin cut /\ n # d
    BY <1>4, <1>8 DEF posted
  <2> DEFINE c == net[n][d]
             linked == n \in links[d]
  <2>2. c \in Seq(Message) /\ ~Hello(c) /\ Opening(c, linked, FALSE) /\ linked \in BOOLEAN
    <3>1. Opening(c, linked, {d, n} \in cut)
      BY <2>1 DEF Meeting, Met
    <3>2. {d, n} \notin cut
      BY <2>1
    <3>3. Opening(c, linked, FALSE)
      <4> HIDE DEF c, linked
      <4> QED
        BY <3>1, <3>2 DEF Opening
    <3>4. c \in Seq(Message) /\ ~Hello(c)
      BY <1>1, <1>4, <2>1 DEF Channels
    <3>5. linked \in BOOLEAN
      OBVIOUS
    <3> HIDE DEF c, linked
    <3> QED
      BY <3>3, <3>4, <3>5
  <2> HIDE DEF c, linked
  <2>3. Opening(c \o hello, linked, FALSE)
    BY <1>7, <2>2, ConcatOpening
  <2>4. OneHello(c \o hello)
    <3>1. \A i \in DOMAIN (c \o hello) :
             Cluster((c \o hello)[i]) => i - Len(c) = 1
      BY <1>7, <2>2, ConcatChannel DEF Hello
    <3>2. Len(c) \in Nat /\ DOMAIN (c \o hello) = 1 .. Len(c) + Len(hello) /\ Len(hello) \in Nat
      BY <1>7, <2>2
    <3> QED
      BY <3>1, <3>2 DEF OneHello
  <2>5. n \in started'
    BY <1>2, <2>1
  <2> QED
    BY <2>1, <2>3, <2>4, <2>5 DEF c, linked, Opening
<1>9. ASSUME NEW a \in Node, NEW b \in Node
      PROVE  /\ OneHello(first[a][b])
             /\ Hello(first[a][b]) => Hello(net[a][b])
             /\ a # b => Opening(first[a][b], a \in links'[b], {b, a} \in cut)
             /\ a = b => \A i \in DOMAIN first[a][b] : ~Edge(first[a][b][i])
  <2>1. /\ OneHello(net[a][b])
        /\ a # b => Opening(net[a][b], a \in links[b], {b, a} \in cut)
        /\ a = b => \A i \in DOMAIN net[a][b] : ~Edge(net[a][b][i])
    BY DEF Meeting, Met
  <2>2. CASE a = p /\ b = n
    <3>1. a \in links'[b]
      BY <1>1, <1>2, <2>2 DEF peers
    <3>2. (p \in links[n]) \in BOOLEAN /\ ({n, p} \in cut) \in BOOLEAN
      OBVIOUS
    <3>3. Opening(Tail(net[p][n]), TRUE, {n, p} \in cut)
      BY <1>1, <1>3, <2>1, <2>2, <3>2, TailChannel
    <3> QED
      BY <1>1, <1>3, <2>1, <2>2, <3>1, <3>3, TailChannel
  <2>3. CASE ~(a = p /\ b = n)
    <3>1. a \in links'[b] <=> a \in links[b]
      BY <1>1, <1>2, <2>3 DEF peers
    <3> QED
      BY <1>3, <2>1, <2>3, <3>1
  <2> QED
    BY <2>2, <2>3
<1>10. Met(net)'
  <2> SUFFICES ASSUME NEW a \in Node, NEW b \in Node
               PROVE  /\ OneHello(net'[a][b])
                      /\ Hello(net'[a][b]) => a \in started' /\ a # b
                      /\ a # b => Opening(net'[a][b], a \in links'[b], {b, a} \in cut')
                      /\ a = b => \A i \in DOMAIN net'[a][b] : ~Edge(net'[a][b][i])
    BY DEF Met
  <2>1. CASE a = n /\ posted(b)
    <3>1. n \in links'[b] <=> n \in links[b]
      BY <1>1, <1>2, <1>8, <2>1
    <3> QED
      BY <1>2, <1>6, <1>8, <2>1, <3>1
  <2>2. CASE ~(a = n /\ posted(b))
    <3>1. Hello(net[a][b]) => a \in started' /\ a # b
      BY <1>2 DEF Meeting, Met
    <3> QED
      BY <1>2, <1>6, <1>9, <2>2, <3>1
  <2> QED
    BY <2>1, <2>2
<1>11. ASSUME NEW k \in Node, NEW H \in SUBSET Node, Heard(k, H) PROVE Heard(k, H)'
  <2>1. H \subseteq links'[k] \cap started'
    BY <1>1, <1>2, <1>11 DEF Heard, peers
  <2>2. ASSUME NEW q \in H PROVE ~Hello(net'[q][k])
    <3>1. ~(q = n /\ posted(k))
      BY <1>11 DEF Heard, posted
    <3> QED
      BY <1>6, <1>9, <1>11, <3>1 DEF Heard
  <2> QED
    BY <1>2, <1>11, <2>1, <2>2 DEF Heard
<1>12. ASSUME NEW k \in Node
       PROVE  links'[k] \subseteq Node \ {k} /\ (links'[k] = Node \ {k} => k \in started')
  <2>1. CASE k = n
    BY <1>1, <1>2, <1>4, <1>5, <2>1
  <2>2. CASE k # n
    BY <1>1, <1>2, <2>2 DEF Meeting
  <2> QED
    BY <2>1, <2>2
<1>13. startedCluster' # {} => started' = Node
  BY <1>1, <1>2 DEF Meeting
<1> QED
  BY <1>10, <1>11, <1>12, <1>13 DEF Meeting

\* Whoever counted N - 1 ClusterHandshakes heard of every other node.
LEMMA PacketClusterHandshakeMeeting ==
    ASSUME TypeOK, Meeting, NEW n \in Node, NEW p \in Node, PacketClusterHandshake(n, p)
    PROVE  Meeting'
<1> DEFINE completes == AllIntroduced(handshakes[n] + 1) /\ n \notin startedCluster
           numbered == Numbered(alg[n], n, pendingRequests[n])
           first == Received(n, p)
<1>1. /\ net \in Channels /\ handshakes \in [Node -> Nat]
      /\ net[p][n] # <<>> /\ Head(net[p][n]).type = "ClusterHandshake"
      /\ net[p][n] \in Seq(Message) /\ links \in [Node -> SUBSET Node]
  BY DEF PacketClusterHandshake, Arrives, TypeOK, Channels
<1>2. /\ links' = links /\ started' = started /\ cut' = cut
      /\ handshakes' = [handshakes EXCEPT ![n] = @ + 1]
      /\ startedCluster' = IF completes THEN startedCluster \cup {n} ELSE startedCluster
  BY DEF PacketClusterHandshake, faultVars
<1>3. Met(net) /\ Cluster(Head(net[p][n])) /\ ~Edge(Head(net[p][n]))
  BY <1>1 DEF Meeting, Cluster, Edge
<1>4. Hello(net[p][n]) /\ p \in started /\ p # n /\ p \in links[n]
  <2>1. Hello(net[p][n])
    BY <1>1, <1>3 DEF Hello
  <2>2. p \in started /\ p # n
    BY <1>3, <2>1 DEF Met
  <2> QED
    BY <1>1, <1>3, <2>1, <2>2, CalmReceived
<1>5. Calm(first)
  BY <1>1, <1>3, CalmReceived
<1>6. Calm(net')
  <2>1. CASE completes
    <3>1. PICK order \in Orderings(pendingRequests[n]) :
             net' = Post(first, n, links[n], RequestMsgs(numbered, n, order))
      BY <2>1 DEF PacketClusterHandshake
    <3>2. numbered \in [Token -> Alg] /\ pendingRequests[n] \in SUBSET Token
      BY NumberedType DEF TypeOK
    <3> HIDE DEF numbered, first
    <3> QED
      BY <1>5, <3>1, <3>2, CalmRequests
  <2>2. CASE ~completes
    BY <1>5, <2>2 DEF PacketClusterHandshake
  <2> QED
    BY <2>1, <2>2
<1>7. ~Hello(net'[p][n])
  <2>1. first[p][n] = Tail(net[p][n])
    BY <1>1 DEF Received, Channels
  <2>2. OneHello(net[p][n])
    BY <1>3 DEF Met
  <2>3. ~Hello(first[p][n])
    BY <1>1, <1>3, <2>1, <2>2, TailChannel
  <2>4. CASE completes
    <3>1. PICK order \in Orderings(pendingRequests[n]) :
             net' = Post(first, n, links[n], RequestMsgs(numbered, n, order))
      BY <2>4 DEF PacketClusterHandshake
    <3>2. first \in Channels
      BY <1>5 DEF Calm
    <3>3. net'[p][n] = first[p][n]
      BY <1>4, <3>1, <3>2 DEF Post, Channels
    <3> QED
      BY <2>3, <3>3
  <2>5. CASE ~completes
    BY <2>3, <2>5 DEF PacketClusterHandshake
  <2> QED
    BY <2>4, <2>5
<1>8. Met(net)'
  BY <1>2, <1>6 DEF Calm, Met
<1>9. PICK H \in SUBSET Node : Heard(n, H)
  BY DEF Meeting
<1> DEFINE G == H \cup {p}
<1>10. /\ p \notin H /\ G \subseteq links[n] \cap started
       /\ Cardinality(G) = handshakes[n] + 1
  <2>1. p \notin H /\ G \subseteq links[n] \cap started
    BY <1>4, <1>9 DEF Heard
  <2>2. IsFiniteSet(H)
    BY NodeFinite
  <2> QED
    BY <1>9, <2>1, <2>2, FS_AddElement DEF Heard
<1>11. ASSUME NEW k \in Node PROVE \E S \in SUBSET Node : Heard(k, S)'
  <2>1. CASE k = n
    <3>1. Heard(k, G)'
      BY <1>1, <1>2, <1>6, <1>7, <1>9, <1>10, <2>1 DEF Heard, Calm
    <3> QED
      BY <3>1
  <2>2. CASE k # n
    <3>1. PICK S \in SUBSET Node : Heard(k, S)
      BY DEF Meeting
    <3>2. Heard(k, S)'
      BY <1>1, <1>2, <1>6, <2>2, <3>1 DEF Heard, Calm
    <3> QED
      BY <3>2
  <2> QED
    BY <2>1, <2>2
<1>12. startedCluster' # {} => started' = Node
  <2>1. CASE completes
    <3>1. G \subseteq Node \ {n} /\ Cardinality(G) >= N - 1
      <4>1. links[n] \subseteq Node \ {n}
        BY DEF Meeting
      <4>2. handshakes[n] + 1 >= N - 1
        BY <2>1 DEF AllIntroduced
      <4> HIDE DEF G
      <4> QED
        BY <1>10, <4>1, <4>2
    <3>2. G = Node \ {n}
      <4>1. G \in SUBSET (Node \ {n}) => (Cardinality(G) >= N - 1 => G = Node \ {n})
        BY OthersCount
      <4> HIDE DEF G
      <4> QED
        BY <3>1, <4>1
    <3>3. links[n] = Node \ {n} /\ Node \ {n} \subseteq started
      <4>1. links[n] \subseteq Node \ {n}
        BY DEF Meeting
      <4> HIDE DEF G
      <4> QED
        BY <1>10, <3>2, <4>1
    <3>4. n \in started /\ started \subseteq Node
      BY <3>3 DEF Meeting, TypeOK
    <3> QED
      BY <1>2, <3>3, <3>4
  <2>2. CASE ~completes
    BY <1>2, <2>2 DEF Meeting
  <2> QED
    BY <2>1, <2>2
<1> QED
  BY <1>2, <1>8, <1>11, <1>12 DEF Meeting

\* A broken connection keeps the first packets.
LEMMA DisconnectMeeting ==
    ASSUME TypeOK, Meeting, NEW n \in Node, NEW p \in Node, Disconnect(n, p)
    PROVE  Meeting'
<1>1. /\ cut' = cut \cup {{n, p}}
      /\ links' = links /\ started' = started
      /\ startedCluster' = startedCluster /\ handshakes' = handshakes
      /\ net \in Channels
  BY DEF Disconnect, nodeVars, TypeOK, Channels
<1>2. ASSUME NEW a \in Node, NEW b \in Node
      PROVE  \/ net'[a][b] = net[a][b]
             \/ {b, a} \in cut' /\ KeepsFront(a, b)
  BY <1>1, DisconnectFront
<1>3. ASSUME NEW a \in Node, NEW b \in Node
      PROVE  /\ OneHello(net'[a][b])
             /\ Hello(net'[a][b]) => Hello(net[a][b])
             /\ a # b => Opening(net'[a][b], a \in links[b], {b, a} \in cut')
             /\ a = b => \A i \in DOMAIN net'[a][b] : ~Edge(net'[a][b][i])
  <2>1. /\ OneHello(net[a][b])
        /\ a # b => Opening(net[a][b], a \in links[b], {b, a} \in cut)
        /\ a = b => \A i \in DOMAIN net[a][b] : ~Edge(net[a][b][i])
    BY DEF Meeting, Met
  <2>2. CASE net'[a][b] = net[a][b]
    <3>1. {b, a} \in cut => {b, a} \in cut'
      BY <1>1
    <3> QED
      BY <2>1, <2>2, <3>1 DEF Opening
  <2>3. CASE {b, a} \in cut' /\ KeepsFront(a, b)
    <3>1. OneHello(net'[a][b]) /\ (Hello(net'[a][b]) => Hello(net[a][b]))
      BY <2>1, <2>3 DEF OneHello, Hello, KeepsFront
    <3>2. a # b => Opening(net'[a][b], a \in links[b], {b, a} \in cut')
      BY <2>1, <2>3 DEF Opening, KeepsFront
    <3> QED
      BY <2>1, <2>3, <3>1, <3>2 DEF KeepsFront
  <2> QED
    BY <1>2, <2>2, <2>3
<1>4. Met(net)'
  BY <1>1, <1>3 DEF Meeting, Met
<1>5. ASSUME NEW k \in Node, NEW H \in SUBSET Node, Heard(k, H) PROVE Heard(k, H)'
  BY <1>1, <1>3, <1>5 DEF Heard
<1> QED
  BY <1>1, <1>4, <1>5 DEF Meeting

\* packetGiveToken sends requests and the system token.
LEMMA PacketGiveTokenCalm ==
    ASSUME TypeOK, SysEntryCreated, Meeting, NEW n \in Node, NEW p \in Node,
           PacketGiveToken(n, p)
    PROVE  Calm(net')
<1> DEFINE msg == Head(net[p][n])
           fresh == private[n] \ created[n]
           found == fresh \cap msg.monitors
           adopted == fresh \ msg.monitors
           new == (found \cap pendingGrants[n]) \ pendingRequests[n]
           registered == msg.monitors \cup adopted
           loaded == [alg[n] EXCEPT ![SysToken] = LoadProperties(@, msg.ln, msg.queue)]
           numbered == IF n \in startedCluster THEN Numbered(loaded, n, new) ELSE loaded
           asks == IF n \in startedCluster THEN new ELSE {}
           first == Received(n, p)
<1>1. /\ net \in Channels /\ Met(net) /\ net[p][n] # <<>> /\ msg.type = "GiveToken"
      /\ msg \in Message
  BY ReceivedType DEF PacketGiveToken, Arrives, Meeting, TypeOK, Channels
<1>2. Calm(first)
  BY <1>1, CalmReceived DEF Edge
<1>3. CASE msg.token = SysToken /\ TakeSystemToken(n, p, msg)
  <2>1. /\ msg.ln \in [Node -> RequestNumber] /\ msg.queue \in Seq(Node)
        /\ msg.monitors \in SUBSET Monitor /\ SysToken \in Token
    BY <1>1, MessageFields DEF Token
  <2>2. asks \in SUBSET Token /\ new \in SUBSET Token /\ adopted \in SUBSET Monitor
    <3>1. private[n] \ {SysToken} \in SUBSET Monitor
      BY DEF TypeOK, Token
    <3>2. SysToken \notin fresh
      BY DEF SysEntryCreated
    <3> QED
      BY <3>1, <3>2 DEF TypeOK
  <2>3. numbered \in [Token -> Alg]
    <3>1. alg[n] \in [Token -> Alg] /\ alg[n][SysToken] \in Alg
      BY <2>1 DEF TypeOK
    <3>2. loaded \in [Token -> Alg]
      BY <2>1, <3>1, LoadType
    <3> HIDE DEF loaded
    <3> QED
      BY <3>2, NumberedType
  <2>4. PICK after \in Released(numbered[SysToken], n), order \in Orderings(asks) :
           LET asked == Post(first, n, links[n], RequestMsgs(numbered, n, order))
           IN  IF after.queue = <<>>
               THEN net' = asked
               ELSE net' = Post(asked, n, {Head(after.queue)},
                                <<GiveTokenMsg(SysToken, Popped(after), registered, 0)>>)
    BY ZenonT(60), <1>3 DEF TakeSystemToken
  <2> DEFINE asked == Post(first, n, links[n], RequestMsgs(numbered, n, order))
             give == GiveTokenMsg(SysToken, Popped(after), registered, 0)
  <2>5. Calm(asked)
    <3> HIDE DEF numbered, asks, first
    <3> QED
      BY <1>2, <2>2, <2>3, <2>4, CalmRequests
  <2>6. CASE after.queue = <<>>
    BY <2>4, <2>5, <2>6
  <2>7. CASE after.queue # <<>>
    <3>1. after \in Alg
      <4>1. numbered[SysToken] \in Alg
        BY <2>1, <2>3
      <4> HIDE DEF numbered
      <4> QED
        BY <2>4, <4>1, ReleasedType
    <3>2. Popped(after) \in Alg
      BY <2>7, <3>1, PoppedType
    <3>3. registered \in SUBSET Monitor
      BY <2>1, <2>2
    <3>4. give \in Message /\ Plain(give)
      <4> HIDE DEF registered
      <4> QED
        BY <2>1, <3>2, <3>3, MessageTypes DEF GiveTokenMsg, Plain
    <3>5. net' = Post(asked, n, {Head(after.queue)}, <<give>>)
      BY <2>4, <2>7
    <3> HIDE DEF asked, give
    <3> QED
      BY <2>5, <3>4, <3>5, CalmGive
  <2> QED
    BY <2>6, <2>7
<1>4. CASE Unexpected(n, msg.token) \/ msg.token # SysToken
  <2>1. net' = first
    BY <1>4 DEF PacketGiveToken, TakeMonitorToken
  <2> QED
    BY <1>2, <2>1
<1> QED
  BY <1>3, <1>4 DEF PacketGiveToken

LEMMA PacketRequestTokenCalm ==
    ASSUME TypeOK, Meeting, NEW n \in Node, NEW p \in Node, PacketRequestToken(n, p)
    PROVE  Calm(net')
<1> DEFINE msg == Head(net[p][n])
           t == msg.token
           updated == UpdateRequestNumber(alg[n][t], p, msg.number)
           give == TokenMsg(n, t, updated)
<1>1. /\ net \in Channels /\ Met(net) /\ net[p][n] # <<>> /\ msg.type = "RequestToken"
      /\ msg \in Message
  BY ReceivedType DEF PacketRequestToken, Arrives, Meeting, TypeOK, Channels
<1>2. Calm(Received(n, p))
  BY <1>1, CalmReceived DEF Edge
<1>3. net' = Received(n, p) \/ net' = Post(Received(n, p), n, {p}, <<give>>)
  BY DEF PacketRequestToken
<1>4. give \in Message /\ Plain(give)
  <2>1. t \in Token /\ msg.number \in RequestNumber
    BY <1>1, MessageFields
  <2>2. updated \in Alg
    BY <2>1, UpdateType DEF TypeOK
  <2>3. known[n] \in SUBSET Monitor /\ (t # SysToken => data[n][t] \in Nat)
    BY <2>1 DEF TypeOK, Token
  <2>4. give \in Message
    <3> HIDE DEF updated, t
    <3> QED
      BY <2>1, <2>2, <2>3, TokenMsgType
  <2>5. Plain(give)
    BY DEF TokenMsg, GiveTokenMsg, Plain
  <2> QED
    BY <2>4, <2>5
<1> HIDE DEF give
<1> QED
  BY <1>2, <1>3, <1>4, CalmGive

LEMMA RequestUnlockCalm ==
    ASSUME TypeOK, Meeting, NEW n \in Node, NEW m \in Monitor, RequestUnlock(n, m)
    PROVE  Calm(net')
<1>1. Calm(net)
  BY DEF Calm, Meeting, TypeOK, Channels
<1>2. CASE UNCHANGED net
  BY <1>1, <1>2
<1>3. CASE \E after \in Released(alg[n][m], n) :
              /\ after.queue # <<>>
              /\ net' = Post(net, n, {Head(after.queue)}, <<TokenMsg(n, m, Popped(after))>>)
  <2>1. PICK after \in Released(alg[n][m], n) :
           /\ after.queue # <<>>
           /\ net' = Post(net, n, {Head(after.queue)}, <<TokenMsg(n, m, Popped(after))>>)
    BY <1>3
  <2> DEFINE give == TokenMsg(n, m, Popped(after))
  <2>2. m \in Token /\ alg[n][m] \in Alg /\ known[n] \in SUBSET Monitor /\ data[n][m] \in Nat
    BY DEF TypeOK, Token
  <2>3. Popped(after) \in Alg
    BY <2>1, <2>2, ReleasedType, PoppedType
  <2>4. give \in Message
    BY <2>2, <2>3, TokenMsgType
  <2>5. Plain(give)
    BY DEF TokenMsg, GiveTokenMsg, Plain
  <2> HIDE DEF give
  <2> QED
    BY <1>1, <2>1, <2>4, <2>5, CalmGive DEF give
<1> QED
  BY <1>2, <1>3 DEF RequestUnlock

LEMMA InitMeeting == Init => Meeting
<1> SUFFICES ASSUME Init PROVE Meeting
  OBVIOUS
<1>1. \A p, n \in Node : net[p][n] = IF p = n THEN <<>> ELSE <<EdgeHandshakeMsg>>
  BY DEF Init
<1>2. Edge(EdgeHandshakeMsg) /\ ~Cluster(EdgeHandshakeMsg)
  BY DEF Edge, Cluster, EdgeHandshakeMsg
<1>3. Met(net)
  <2> SUFFICES ASSUME NEW p \in Node, NEW n \in Node
               PROVE  /\ OneHello(net[p][n]) /\ ~Hello(net[p][n])
                      /\ p # n => Opening(net[p][n], p \in links[n], {n, p} \in cut)
                      /\ p = n => \A i \in DOMAIN net[p][n] : ~Edge(net[p][n][i])
    BY DEF Met
  <2>1. CASE p = n
    BY <1>1, <2>1 DEF OneHello, Hello
  <2>2. CASE p # n
    <3> DEFINE c == <<EdgeHandshakeMsg>>
    <3>1. c = net[p][n] /\ DOMAIN c = {1} /\ c[1] = EdgeHandshakeMsg /\ c # <<>>
      BY <1>1, <2>2
    <3>2. OneHello(c) /\ ~Hello(c)
      BY <1>2, <3>1 DEF OneHello, Hello
    <3>3. Opening(c, p \in links[n], {n, p} \in cut)
      <4>1. p \notin links[n]
        BY DEF Init
      <4> HIDE DEF c
      <4> QED
        BY <1>2, <3>1, <4>1 DEF Opening
    <3> HIDE DEF c
    <3> QED
      BY <2>2, <3>1, <3>2, <3>3
  <2> QED
    BY <2>1, <2>2
<1>4. ASSUME NEW n \in Node
      PROVE  /\ links[n] \subseteq Node \ {n}
             /\ links[n] = Node \ {n} => n \in started
             /\ \E H \in SUBSET Node : Heard(n, H)
  <2>1. links[n] = {} /\ handshakes[n] = 0
    BY DEF Init
  <2>2. Node = {n} => n \in started
    <3>1. Node = {n} => N = 1
      <4>1. N \in Nat \ {0} /\ N \in Int /\ 0 \in Int
        BY NAssumption
      <4>2. N # 1 => 0 \in Node /\ 1 \in Node
        BY <4>1 DEF Node
      <4> QED
        BY <4>2
    <3> QED
      BY <3>1 DEF Init
  <2>3. Heard(n, {})
    BY <2>1, FS_EmptySet DEF Heard
  <2> QED
    BY <2>1, <2>2, <2>3
<1>5. startedCluster # {} => started = Node
  BY DEF Init
<1> QED
  BY <1>3, <1>4, <1>5 DEF Meeting

LEMMA NextMeeting ==
    ASSUME TypeOK, SysEntryCreated, Meeting, [Next]_vars
    PROVE  Meeting'
<1>1. Calm(net)
  BY DEF Calm, Meeting, TypeOK, Channels
<1>2. CASE UNCHANGED vars
  <2>1. Calm(net')
    BY <1>1, <1>2 DEF vars
  <2> QED
    BY <1>2, <2>1, CalmStep DEF vars, faultVars
<1>3. ASSUME NEW n \in Node, NEW p \in Node, PacketGiveToken(n, p) PROVE Meeting'
  <2>1. UNCHANGED <<nodeVars, cut>>
    BY <1>3 DEF PacketGiveToken, TakeSystemToken, TakeMonitorToken, nodeVars, faultVars
  <2> QED
    BY <1>3, <2>1, PacketGiveTokenCalm, CalmStep
<1>4. ASSUME NEW n \in Node, NEW p \in Node, PacketRequestToken(n, p) PROVE Meeting'
  BY <1>4, PacketRequestTokenCalm, CalmStep DEF PacketRequestToken, faultVars
<1>5. ASSUME NEW n \in Node, NEW p \in Node, CrashInHandshake(n, p) PROVE Meeting'
  <2>1. Calm(net')
    BY <1>1, <1>5 DEF CrashInHandshake
  <2> QED
    BY <1>5, <2>1, CalmStep DEF CrashInHandshake
<1>6. ASSUME NEW n \in Node, NEW m \in Monitor, HandleNew(n, m) PROVE Meeting'
  <2>1. net' = net \/ RequestTokens(n, {SysToken})
    BY <1>6 DEF HandleNew
  <2>2. Met(net) /\ {SysToken} \in SUBSET Token
    BY DEF Meeting, Token
  <2>3. Calm(net')
    BY <1>1, <2>1, <2>2, CalmRequestTokens
  <2> QED
    BY <1>6, <2>3, CalmStep DEF HandleNew, faultVars
<1>7. ASSUME NEW n \in Node, NEW m \in Monitor, RequestLock(n, m) PROVE Meeting'
  <2>1. net' = net \/ RequestTokens(n, {m})
    BY <1>7 DEF RequestLock
  <2>2. Met(net) /\ {m} \in SUBSET Token
    BY DEF Meeting, Token
  <2>3. Calm(net')
    BY <1>1, <2>1, <2>2, CalmRequestTokens
  <2> QED
    BY <1>7, <2>3, CalmStep DEF RequestLock, faultVars
<1>8. ASSUME NEW n \in Node, NEW m \in Monitor, TakeGrant(n, m) PROVE Meeting'
  <2>1. Calm(net')
    BY <1>1, <1>8 DEF TakeGrant
  <2> QED
    BY <1>8, <2>1, CalmStep DEF TakeGrant, faultVars
<1>9. ASSUME NEW n \in Node, NEW m \in Monitor, RequestUnlock(n, m) PROVE Meeting'
  BY <1>9, RequestUnlockCalm, CalmStep DEF RequestUnlock, faultVars
<1> QED
  BY <1>2, <1>3, <1>4, <1>5, <1>6, <1>7, <1>8, <1>9, HandleConnectMeeting,
     PacketClusterHandshakeMeeting, DisconnectMeeting DEF Next, Handle

LEMMA MeetingInvariant == Spec => []Meeting
<1>1. Init => IInv /\ Meeting
  BY InitIInv, InitMeeting
<1>2. IInv /\ Meeting /\ [Next]_vars => (IInv /\ Meeting)'
  BY NextIInv, NextMeeting DEF IInv
<1> QED
  BY <1>1, <1>2, PTL DEF Spec

\* A node that got its N - 1 ClusterHandshakes (m_startedCluster) knows that every
\* node has started: whoever it sends a request to handles it.
THEOREM EveryoneStarted == Spec => [](startedCluster # {} => started = Node)
<1>1. Meeting => (startedCluster # {} => started = Node)
  BY DEF Meeting
<1> QED
  BY <1>1, MeetingInvariant, PTL

-----------------------------------------------------------------------------
(* Who asks: a token is sent to nobody who did not ask for it, and nobody   *)
(* asks before it has created the monitor and met everybody.                *)

\* k may ask for t.
May(k, t) == k \in startedCluster /\ (t = SysToken \/ t \in public[k])

\* k has asked for t and was not answered.
Needs(k, t) == k \in startedCluster /\ t \in pendingRequests[k]

\* LN and the queue of a token that k did not ask for.
Blank(ln, queue, k) == ln[k] = 0 /\ k \notin QueueRange(queue)

\* What a node keeps for such a token.
Fresh(a, k) == a.rn[k] = 0 /\ Blank(a.ln, a.queue, k)

Asks(msg, t) == msg.type = "RequestToken" /\ msg.token = t

\* The packet from a to b is no request of k for t, and does not bring t to k.
Harmless(msg, a, b, k, t) ==
    /\ Gives(msg, t) => b # k /\ Blank(msg.ln, msg.queue, k)
    /\ a = k => ~Asks(msg, t)

Silent(w, k, t) ==
    \A a, b \in Node : \A i \in DOMAIN w[a][b] : Harmless(w[a][b][i], a, b, k, t)

Unasked(k, t) == (\A j \in Node : Fresh(alg[j][t], k)) /\ Silent(net, k, t)

\* What a node waits for is a monitor it created, or the system token.
Wants ==
    \A n \in Node :
        /\ pendingGrants[n] \subseteq public[n]
        /\ pendingRequests[n] \subseteq public[n] \cup {SysToken}
        /\ public[n] \subseteq private[n]
        /\ n \in started => SysToken \in private[n]

Asking == Wants /\ \A k \in Node, t \in Token : May(k, t) \/ Unasked(k, t)

-----------------------------------------------------------------------------
(* The bookkeeping does not invent a request.                               *)

LEMMA FreshIncrement ==
    ASSUME NEW a \in Alg, NEW k \in Node, NEW n \in Node, Fresh(a, k), n # k
    PROVE  Fresh(IncrementRequestNumber(a, n), k)
  BY DEF Alg, Fresh, Blank, IncrementRequestNumber

LEMMA FreshUpdate ==
    ASSUME NEW a \in Alg, NEW k \in Node, NEW n \in Node, NEW request, Fresh(a, k), n # k
    PROVE  Fresh(UpdateRequestNumber(a, n, request), k)
  BY DEF Alg, Fresh, Blank, UpdateRequestNumber

LEMMA FreshLoad ==
    ASSUME NEW a \in Alg, NEW k \in Node, NEW ln, NEW queue, Fresh(a, k), Blank(ln, queue, k)
    PROVE  Fresh(LoadProperties(a, ln, queue), k)
  BY DEF Alg, Fresh, Blank, LoadProperties

LEMMA FreshNumbered ==
    ASSUME NEW a \in [Token -> Alg], NEW n \in Node, NEW T, NEW k \in Node, NEW t \in Token,
           Fresh(a[t], k), n = k => t \notin T
    PROVE  Fresh(Numbered(a, n, T)[t], k)
<1>1. Numbered(a, n, T)[t] = IF t \in T THEN IncrementRequestNumber(a[t], n) ELSE a[t]
  BY DEF Numbered
<1> QED
  BY <1>1, FreshIncrement

\* release appends nobody whose number is 0, so it is not to k that the token goes.
LEMMA FreshReleased ==
    ASSUME NEW a \in Alg, NEW k \in Node, NEW n \in Node, Fresh(a, k),
           NEW after \in Released(a, n)
    PROVE  /\ Fresh(after, k) /\ after \in Alg
           /\ after.queue # <<>> =>
                 Head(after.queue) # k /\ Head(after.queue) \in Node /\ Fresh(Popped(after), k)
                 /\ Popped(after) \in Alg
<1> DEFINE served == [a EXCEPT !.ln[n] = a.rn[n]]
<1>1. /\ served \in Alg /\ served.rn = a.rn /\ served.queue = a.queue
      /\ served.ln[k] = 0
  BY DEF Alg, Fresh, Blank
<1>2. PICK late \in Ascending(Latecomers(served)) :
         after = [served EXCEPT !.queue = @ \o late]
  BY DEF Released
<1> HIDE DEF served
<1>3. k \notin Latecomers(served)
  <2>1. 0 + 1 # U32
    BY U32Assumption
  <2> QED
    BY <1>1, <2>1 DEF Latecomers, Outstanding, Inc32, Fresh
<1>4. late \in Seq(Node) /\ \A i \in DOMAIN late : late[i] # k
  <2>1. Latecomers(served) \in SUBSET Node
    BY DEF Latecomers
  <2>2. late \in Seq(Latecomers(served))
    BY <1>2, <2>1, NodeFinite, OrderingType DEF Ascending
  <2> QED
    BY <1>3, <2>1, <2>2
<1>5. /\ after \in Alg /\ after.rn = a.rn /\ after.ln[k] = 0
      /\ after.queue = a.queue \o late /\ a.queue \in Seq(Node)
  <2>1. a.queue \o late \in Seq(Node) /\ a.queue \in Seq(Node)
    BY <1>4 DEF Alg
  <2> QED
    BY <1>1, <1>2, <2>1 DEF Alg
<1>6. ASSUME NEW i \in DOMAIN after.queue PROVE after.queue[i] # k
  <2>1. \A j \in DOMAIN a.queue : a.queue[j] # k
    BY DEF Fresh, Blank, QueueRange
  <2> DEFINE q == a.queue
  <2>2. q \in Seq(Node) /\ i \in 1 .. Len(q) + Len(late) /\ Len(q) \in Nat /\ Len(late) \in Nat
    BY <1>4, <1>5
  <2>3. (q \o late)[i] = IF i <= Len(q) THEN q[i] ELSE late[i - Len(q)]
    <3> HIDE DEF q
    <3> QED
      BY <1>4, <2>2
  <2>4. DOMAIN q = 1 .. Len(q) /\ DOMAIN late = 1 .. Len(late)
    BY <1>4, <2>2
  <2>5. i \in DOMAIN q \/ i - Len(q) \in DOMAIN late
    BY <2>2, <2>4
  <2> QED
    BY <1>4, <1>5, <2>1, <2>2, <2>3, <2>4
<1>7. Fresh(after, k)
  BY <1>5, <1>6 DEF Fresh, Blank, QueueRange
<1>8. ASSUME after.queue # <<>>
      PROVE  /\ Head(after.queue) # k /\ Head(after.queue) \in Node
             /\ Fresh(Popped(after), k) /\ Popped(after) \in Alg
  <2> DEFINE q == after.queue
  <2>1. q \in Seq(Node) /\ q # <<>> /\ \A i \in DOMAIN q : q[i] # k
    BY <1>5, <1>6, <1>8 DEF Alg
  <2>2. Popped(after) \in Alg /\ Head(q) \in Node
    BY <1>5, <1>8, PoppedType
  <2>3. /\ Head(q) # k
        /\ \A i \in DOMAIN Tail(q) : Tail(q)[i] # k
    <3> HIDE DEF q
    <3>1. Head(q) = q[1] /\ 1 \in DOMAIN q
      BY <2>1
    <3>2. \A i \in DOMAIN Tail(q) : i + 1 \in DOMAIN q /\ Tail(q)[i] = q[i + 1]
      BY <2>1
    <3> QED
      BY <2>1, <3>1, <3>2
  <2>4. Popped(after).queue = Tail(q) /\ Popped(after).rn = after.rn /\ Popped(after).ln = after.ln
    BY <1>5 DEF Popped, Alg
  <2>5. Fresh(Popped(after), k)
    BY <1>7, <2>3, <2>4 DEF Fresh, Blank, QueueRange
  <2> QED
    BY <2>2, <2>3, <2>5
<1> QED
  BY <1>5, <1>7, <1>8

-----------------------------------------------------------------------------
(* The network does not invent a request.                                   *)

LEMMA SilentReceived ==
    ASSUME net \in Channels, NEW n \in Node, NEW p \in Node, net[p][n] # <<>>,
           NEW k, NEW t, Silent(net, k, t)
    PROVE  Silent(Received(n, p), k, t)
<1> DEFINE v == Received(n, p)
<1>1. /\ v[p][n] = Tail(net[p][n]) /\ net[p][n] \in Seq(Message)
      /\ \A a, b \in Node : ~(a = p /\ b = n) => v[a][b] = net[a][b]
  BY DEF Received, Channels
<1>2. \A i \in DOMAIN v[p][n] : i + 1 \in DOMAIN net[p][n] /\ v[p][n][i] = net[p][n][i + 1]
  BY <1>1
<1> HIDE DEF v
<1> SUFFICES ASSUME NEW a \in Node, NEW b \in Node, NEW i \in DOMAIN v[a][b]
             PROVE  Harmless(v[a][b][i], a, b, k, t)
  BY DEF Silent, v
<1>3. CASE a = p /\ b = n
  BY <1>2, <1>3 DEF Silent
<1>4. CASE ~(a = p /\ b = n)
  BY <1>1, <1>4 DEF Silent
<1> QED
  BY <1>3, <1>4

LEMMA SilentPost ==
    ASSUME NEW v \in Channels, NEW n \in Node, NEW peers, NEW msgs \in Seq(Message),
           NEW k, NEW t, Silent(v, k, t),
           \A j \in DOMAIN msgs : \A d \in peers : Harmless(msgs[j], n, d, k, t)
    PROVE  Silent(Post(v, n, peers, msgs), k, t)
  BY PostIndex DEF Silent

LEMMA SilentGive ==
    ASSUME NEW v \in Channels, NEW n \in Node, NEW d \in Node, NEW msg \in Message,
           NEW k, NEW t, Silent(v, k, t), Harmless(msg, n, d, k, t)
    PROVE  Silent(Post(v, n, {d}, <<msg>>), k, t)
<1> DEFINE msgs == <<msg>>
<1>1. msgs \in Seq(Message) /\ DOMAIN msgs = {1} /\ msgs[1] = msg
  OBVIOUS
<1> HIDE DEF msgs
<1>2. Silent(Post(v, n, {d}, msgs), k, t)
  BY <1>1, SilentPost
<1> QED
  BY <1>2 DEF msgs

\* The requests of a node that does not ask for t, or that is not k.
LEMMA SilentRequests ==
    ASSUME NEW v \in Channels, NEW n \in Node, NEW peers,
           NEW a \in [Token -> Alg], NEW T \in SUBSET Token, NEW order \in Orderings(T),
           NEW k, NEW t, Silent(v, k, t), n = k => t \notin T
    PROVE  Silent(Post(v, n, peers, RequestMsgs(a, n, order)), k, t)
<1> DEFINE msgs == RequestMsgs(a, n, order)
<1>1. msgs \in Seq(Message)
  BY RequestMsgsType
<1>2. ASSUME NEW j \in DOMAIN msgs, NEW d PROVE Harmless(msgs[j], n, d, k, t)
  <2>1. j \in DOMAIN order /\ msgs[j] = RequestTokenMsg(order[j], a[order[j]].rn[n])
    BY DEF RequestMsgs
  <2>2. order[j] \in T
    BY <2>1 DEF Orderings
  <2> QED
    BY <2>1, <2>2 DEF Harmless, Gives, Asks, RequestTokenMsg
<1> HIDE DEF msgs
<1> QED
  BY <1>1, <1>2, SilentPost DEF msgs

\* A step of requestToken.
LEMMA UnaskedRequestTokens ==
    ASSUME TypeOK, NEW n \in Node, NEW T \in SUBSET Token, RequestTokens(n, T),
           NEW k \in Node, NEW t \in Token, Unasked(k, t),
           n = k /\ n \in startedCluster => t \notin T
    PROVE  Unasked(k, t)'
<1> DEFINE new == T \ pendingRequests[n]
           numbered == Numbered(alg[n], n, new)
<1>1. CASE n \in startedCluster
  <2>1. PICK order \in Orderings(new) :
           /\ alg' = [alg EXCEPT ![n] = numbered]
           /\ net' = Post(net, n, links[n], RequestMsgs(numbered, n, order))
    BY <1>1 DEF RequestTokens
  <2>2. /\ numbered \in [Token -> Alg] /\ new \in SUBSET Token /\ (n = k => t \notin new)
        /\ net \in Channels /\ alg \in [Node -> [Token -> Alg]]
    BY <1>1, NumberedType DEF TypeOK, Channels
  <2>3. Fresh(numbered[t], k)
    <3> HIDE DEF new
    <3> QED
      BY <2>2, FreshNumbered DEF Unasked
  <2> HIDE DEF numbered, new
  <2>4. Silent(net', k, t)
    BY <2>1, <2>2, SilentRequests DEF Unasked
  <2>5. \A j \in Node : Fresh(alg'[j][t], k)
    BY <2>1, <2>2, <2>3 DEF Unasked
  <2> QED
    BY <2>4, <2>5 DEF Unasked, Silent
<1>2. CASE n \notin startedCluster
  BY <1>2 DEF RequestTokens, Unasked, Silent
<1> QED
  BY <1>1, <1>2

-----------------------------------------------------------------------------
(* Every action keeps the invariant.                                        *)

LEMMA UnaskedStep ==
    ASSUME NEW k \in Node, NEW t \in Token,
           \A j \in Node : Fresh(alg'[j][t], k), Silent(net', k, t)
    PROVE  Unasked(k, t)'
  BY DEF Unasked, Silent

LEMMA UnaskedSame ==
    ASSUME NEW k \in Node, NEW t \in Token, Unasked(k, t), UNCHANGED <<alg, net>>
    PROVE  Unasked(k, t)'
  BY DEF Unasked, Silent

LEMMA HandleConnectUnasked ==
    ASSUME TypeOK, NEW n \in Node, NEW p \in Node, HandleConnect(n, p),
           NEW k \in Node, NEW t \in Token, Unasked(k, t)
    PROVE  Unasked(k, t)'
<1> DEFINE msgs == <<ClusterHandshakeMsg>>
<1>1. /\ Received(n, p) \in Channels /\ Silent(Received(n, p), k, t)
      /\ alg' = alg
  BY ReceivedType, SilentReceived DEF HandleConnect, Arrives, TypeOK, Channels, Unasked
<1>2. /\ msgs \in Seq(Message)
      /\ \A j \in DOMAIN msgs : \A d : Harmless(msgs[j], n, d, k, t)
  BY MessageTypes DEF ClusterHandshakeMsg, Harmless, Gives, Asks
<1>3. \/ net' = Received(n, p)
      \/ net' = Post(Received(n, p), n, links[n] \cup {p}, msgs)
  BY DEF HandleConnect
<1> HIDE DEF msgs
<1>4. Silent(net', k, t)
  BY <1>1, <1>2, <1>3, SilentPost
<1> QED
  BY <1>1, <1>4, UnaskedStep DEF Unasked

LEMMA PacketClusterHandshakeUnasked ==
    ASSUME TypeOK, NEW n \in Node, NEW p \in Node, PacketClusterHandshake(n, p),
           NEW k \in Node, NEW t \in Token, Unasked(k, t), ~Needs(k, t)'
    PROVE  Unasked(k, t)'
<1> DEFINE completes == AllIntroduced(handshakes[n] + 1) /\ n \notin startedCluster
           numbered == Numbered(alg[n], n, pendingRequests[n])
           first == Received(n, p)
<1>1. first \in Channels /\ Silent(first, k, t) /\ alg \in [Node -> [Token -> Alg]]
  BY ReceivedType, SilentReceived
  DEF PacketClusterHandshake, Arrives, TypeOK, Channels, Unasked
<1>2. CASE completes
  <2>1. PICK order \in Orderings(pendingRequests[n]) :
           /\ alg' = [alg EXCEPT ![n] = numbered]
           /\ net' = Post(first, n, links[n], RequestMsgs(numbered, n, order))
    BY <1>2 DEF PacketClusterHandshake
  <2>2. n = k => t \notin pendingRequests[n]
    <3>1. n \in startedCluster' /\ pendingRequests' = pendingRequests
      BY <1>2 DEF PacketClusterHandshake
    <3> QED
      BY <3>1 DEF Needs
  <2>3. /\ numbered \in [Token -> Alg] /\ pendingRequests[n] \in SUBSET Token
        /\ Fresh(numbered[t], k)
    BY <2>2, NumberedType, FreshNumbered DEF TypeOK, Unasked
  <2> HIDE DEF numbered, first
  <2>4. Silent(net', k, t)
    BY <1>1, <2>1, <2>2, <2>3, SilentRequests
  <2>5. \A j \in Node : Fresh(alg'[j][t], k)
    BY <1>1, <2>1, <2>3 DEF Unasked
  <2> QED
    BY <2>4, <2>5, UnaskedStep
<1>3. CASE ~completes
  <2>1. net' = first /\ alg' = alg
    BY <1>3 DEF PacketClusterHandshake
  <2> QED
    BY <1>1, <2>1, UnaskedStep DEF Unasked
<1> QED
  BY <1>2, <1>3

\* A token arrives at a node that asked for it, with the LN and the queue it had.
LEMMA PacketGiveTokenUnasked ==
    ASSUME TypeOK, SysEntryCreated, NEW n \in Node, NEW p \in Node, PacketGiveToken(n, p),
           NEW k \in Node, NEW t \in Token, Unasked(k, t), ~Needs(k, t)'
    PROVE  Unasked(k, t)'
<1> DEFINE msg == Head(net[p][n])
           fresh == private[n] \ created[n]
           found == fresh \cap msg.monitors
           adopted == fresh \ msg.monitors
           new == (found \cap pendingGrants[n]) \ pendingRequests[n]
           registered == msg.monitors \cup adopted
           loaded == [alg[n] EXCEPT ![SysToken] = LoadProperties(@, msg.ln, msg.queue)]
           numbered == IF n \in startedCluster THEN Numbered(loaded, n, new) ELSE loaded
           asks == IF n \in startedCluster THEN new ELSE {}
           first == Received(n, p)
<1>1. /\ net \in Channels /\ net[p][n] # <<>> /\ msg.type = "GiveToken"
      /\ msg \in Message /\ first \in Channels /\ Silent(first, k, t)
      /\ alg \in [Node -> [Token -> Alg]]
  BY ReceivedType, SilentReceived DEF PacketGiveToken, Arrives, TypeOK, Channels, Unasked
<1>2. /\ msg.ln \in [Node -> RequestNumber] /\ msg.queue \in Seq(Node)
      /\ msg.monitors \in SUBSET Monitor /\ msg.token \in Token /\ SysToken \in Token
  BY <1>1, MessageFields DEF Token
<1>3. msg.token = t => Blank(msg.ln, msg.queue, k)
  <2>1. 1 \in DOMAIN net[p][n] /\ msg = net[p][n][1]
    BY <1>1 DEF Channels
  <2> QED
    BY <1>1, <2>1 DEF Unasked, Silent, Harmless, Gives
<1>4. CASE msg.token = SysToken /\ TakeSystemToken(n, p, msg)
  <2>1. asks \in SUBSET Token /\ new \in SUBSET Monitor /\ adopted \in SUBSET Monitor
    <3>1. private[n] \ {SysToken} \in SUBSET Monitor
      BY DEF TypeOK, Token
    <3>2. SysToken \notin fresh
      BY DEF SysEntryCreated
    <3> QED
      BY <1>2, <3>1, <3>2 DEF TypeOK, Token
  <2>2. n = k => t \notin asks
    <3>1. startedCluster' = startedCluster /\ new \subseteq pendingRequests'[n]
      BY <1>4 DEF TakeSystemToken, nodeVars, TypeOK
    <3>2. asks \subseteq new /\ (asks # {} => n \in startedCluster)
      OBVIOUS
    <3> QED
      BY <3>1, <3>2 DEF Needs
  <2>3. loaded \in [Token -> Alg] /\ Fresh(loaded[t], k)
    <3>1. alg[n] \in [Token -> Alg] /\ alg[n][SysToken] \in Alg /\ Fresh(alg[n][t], k)
      BY <1>1, <1>2 DEF Unasked
    <3>2. LoadProperties(alg[n][SysToken], msg.ln, msg.queue) \in Alg
      BY <1>2, <3>1, LoadType
    <3>3. CASE t = SysToken
      <4>1. Fresh(LoadProperties(alg[n][SysToken], msg.ln, msg.queue), k)
        BY <1>3, <1>4, <3>1, <3>3, FreshLoad
      <4> QED
        BY <3>1, <3>2, <3>3, <4>1
    <3>4. CASE t # SysToken
      BY <3>1, <3>2, <3>4
    <3> QED
      BY <3>3, <3>4
  <2>4. numbered \in [Token -> Alg] /\ Fresh(numbered[t], k)
    <3> HIDE DEF loaded
    <3>1. CASE n \in startedCluster
      <4>1. n = k => t \notin new
        BY <2>2, <3>1
      <4>2. Numbered(loaded, n, new) \in [Token -> Alg] /\ Fresh(Numbered(loaded, n, new)[t], k)
        <5> HIDE DEF new
        <5> QED
          BY <2>3, <4>1, NumberedType, FreshNumbered
      <4> QED
        BY <3>1, <4>2
    <3>2. CASE n \notin startedCluster
      BY <2>3, <3>2
    <3> QED
      BY <3>1, <3>2
  <2>5. PICK after \in Released(numbered[SysToken], n), order \in Orderings(asks) :
           LET asked == Post(first, n, links[n], RequestMsgs(numbered, n, order))
           IN  IF after.queue = <<>>
               THEN /\ alg' = [alg EXCEPT ![n] = [numbered EXCEPT ![SysToken] = after]]
                    /\ net' = asked
               ELSE /\ alg' = [alg EXCEPT ![n] = [numbered EXCEPT ![SysToken] = Popped(after)]]
                    /\ net' = Post(asked, n, {Head(after.queue)},
                                   <<GiveTokenMsg(SysToken, Popped(after), registered, 0)>>)
    BY ZenonT(60), <1>4 DEF TakeSystemToken
  <2> DEFINE asked == Post(first, n, links[n], RequestMsgs(numbered, n, order))
             give == GiveTokenMsg(SysToken, Popped(after), registered, 0)
  <2>6. asked \in Channels /\ Silent(asked, k, t)
    <3>1. RequestMsgs(numbered, n, order) \in Seq(Message)
      <4> HIDE DEF numbered, asks
      <4> QED
        BY <2>1, <2>4, <2>5, RequestMsgsType
    <3> HIDE DEF numbered, asks, first
    <3> QED
      BY <1>1, <2>1, <2>2, <2>4, <2>5, <3>1, PostType, SilentRequests
  <2>7. /\ numbered[SysToken] \in Alg /\ after \in Alg
        /\ t = SysToken => Fresh(after, k)
        /\ after.queue # <<>> =>
              /\ Head(after.queue) \in Node /\ Popped(after) \in Alg
              /\ t = SysToken => Head(after.queue) # k /\ Fresh(Popped(after), k)
    <3>1. numbered[SysToken] \in Alg
      BY <1>2, <2>4
    <3> HIDE DEF numbered
    <3>2. after \in Alg
      BY <2>5, <3>1, ReleasedType
    <3> QED
      BY <2>4, <2>5, <3>1, <3>2, FreshReleased, PoppedType
  <2>8. CASE after.queue = <<>>
    <3>1. /\ alg' = [alg EXCEPT ![n] = [numbered EXCEPT ![SysToken] = after]]
          /\ net' = asked
      BY <2>5, <2>8
    <3> HIDE DEF numbered, asked
    <3>2. \A j \in Node : Fresh(alg'[j][t], k)
      BY <1>1, <2>4, <2>7, <3>1 DEF Unasked
    <3> QED
      BY <2>6, <3>1, <3>2, UnaskedStep
  <2>9. CASE after.queue # <<>>
    <3>1. /\ alg' = [alg EXCEPT ![n] = [numbered EXCEPT ![SysToken] = Popped(after)]]
          /\ net' = Post(asked, n, {Head(after.queue)}, <<give>>)
      BY <2>5, <2>9
    <3>2. registered \in SUBSET Monitor
      BY <1>2, <2>1
    <3>3. give \in Message /\ Harmless(give, n, Head(after.queue), k, t)
      <4>1. give \in Message
        <5> HIDE DEF registered
        <5> QED
          BY <1>2, <2>7, <2>9, <3>2, MessageTypes
      <4>2. /\ give.type = "GiveToken" /\ give.token = SysToken
            /\ give.ln = Popped(after).ln /\ give.queue = Popped(after).queue
        BY DEF GiveTokenMsg
      <4> HIDE DEF give
      <4> QED
        BY <2>7, <2>9, <4>1, <4>2 DEF Harmless, Gives, Asks, Fresh
    <3> HIDE DEF numbered, asked, give
    <3>4. Silent(net', k, t)
      BY <2>6, <2>7, <2>9, <3>1, <3>3, SilentGive
    <3>5. \A j \in Node : Fresh(alg'[j][t], k)
      BY <1>1, <2>4, <2>7, <2>9, <3>1 DEF Unasked
    <3> QED
      BY <3>4, <3>5, UnaskedStep
  <2> QED
    BY <2>8, <2>9
<1>5. CASE TakeMonitorToken(n, p, msg)
  <2> DEFINE loads == LoadProperties(alg[n][msg.token], msg.ln, msg.queue)
  <2>1. /\ net' = first
        /\ alg' = [alg EXCEPT ![n][msg.token] = loads]
    BY <1>5 DEF TakeMonitorToken
  <2>2. \A j \in Node : Fresh(alg[j][t], k)
    BY DEF Unasked
  <2>3. msg.token = t => Fresh(loads, k)
    <3>1. alg[n][t] \in Alg /\ Fresh(alg[n][t], k)
      BY <1>1, <2>2
    <3> QED
      BY <1>3, <3>1, FreshLoad
  <2> HIDE DEF loads
  <2>4. \A j \in Node : Fresh(alg'[j][t], k)
    BY <1>1, <1>2, <2>1, <2>2, <2>3
  <2> QED
    BY <1>1, <2>1, <2>4, UnaskedStep
<1>6. CASE Unexpected(n, msg.token)
  <2>1. net' = first /\ alg' = alg
    BY <1>6 DEF PacketGiveToken, tokenVars
  <2> QED
    BY <1>1, <2>1, UnaskedStep DEF Unasked
<1> QED
  BY <1>4, <1>5, <1>6 DEF PacketGiveToken

\* The token is sent to the node that asked.
LEMMA PacketRequestTokenUnasked ==
    ASSUME TypeOK, NEW n \in Node, NEW p \in Node, PacketRequestToken(n, p),
           NEW k \in Node, NEW t \in Token, Unasked(k, t)
    PROVE  Unasked(k, t)'
<1> DEFINE msg == Head(net[p][n])
           u == msg.token
           updated == UpdateRequestNumber(alg[n][u], p, msg.number)
           give == TokenMsg(n, u, updated)
           first == Received(n, p)
<1>1. /\ net \in Channels /\ net[p][n] # <<>> /\ msg.type = "RequestToken"
      /\ msg \in Message /\ first \in Channels /\ Silent(first, k, t)
      /\ alg \in [Node -> [Token -> Alg]]
  BY ReceivedType, SilentReceived DEF PacketRequestToken, Arrives, TypeOK, Channels, Unasked
<1>2. u \in Token /\ msg.number \in RequestNumber
  BY <1>1, MessageFields
<1>3. u = t => p # k
  <2>1. 1 \in DOMAIN net[p][n] /\ msg = net[p][n][1]
    BY SMTT(30), <1>1 DEF Channels
  <2> QED
    BY <1>1, <2>1 DEF Unasked, Silent, Harmless, Asks
<1>4. /\ net' = first \/ net' = Post(first, n, {p}, <<give>>)
      /\ alg' = alg \/ alg' = [alg EXCEPT ![n][u] = updated]
  BY DEF PacketRequestToken
<1>5. /\ updated \in Alg
      /\ u = t => Fresh(updated, k)
  <2>1. alg[n][u] \in Alg /\ (u = t => Fresh(alg[n][u], k))
    BY <1>1, <1>2 DEF Unasked
  <2> QED
    BY <1>2, <1>3, <2>1, UpdateType, FreshUpdate
<1>6. give \in Message /\ Harmless(give, n, p, k, t)
  <2>1. known[n] \in SUBSET Monitor /\ (u # SysToken => data[n][u] \in Nat)
    BY SMTT(30), <1>2 DEF TypeOK, Token
  <2>2. give \in Message
    <3> HIDE DEF updated, u
    <3> QED
      BY <1>2, <1>5, <2>1, TokenMsgType
  <2>3. /\ give.type = "GiveToken" /\ give.token = u
        /\ give.ln = updated.ln /\ give.queue = updated.queue
    BY DEF TokenMsg, GiveTokenMsg
  <2> HIDE DEF give, updated
  <2> QED
    BY <1>3, <1>5, <2>2, <2>3 DEF Harmless, Gives, Asks, Fresh
<1> HIDE DEF give, updated, first, u
<1>7. Silent(net', k, t)
  BY <1>1, <1>4, <1>6, SilentGive
<1>8. \A j \in Node : Fresh(alg'[j][t], k)
  BY <1>1, <1>2, <1>4, <1>5 DEF Unasked
<1> QED
  BY <1>7, <1>8, UnaskedStep

\* release sends the token to the first of the queue.
LEMMA RequestUnlockUnasked ==
    ASSUME TypeOK, NEW n \in Node, NEW m \in Monitor, RequestUnlock(n, m),
           NEW k \in Node, NEW t \in Token, Unasked(k, t)
    PROVE  Unasked(k, t)'
<1>1. CASE UNCHANGED <<alg, net>>
  BY <1>1, UnaskedSame
<1>2. CASE \E after \in Released(alg[n][m], n) :
              IF after.queue = <<>>
              THEN alg' = [alg EXCEPT ![n][m] = after] /\ net' = net
              ELSE /\ alg' = [alg EXCEPT ![n][m] = Popped(after)]
                   /\ net' = Post(net, n, {Head(after.queue)},
                                  <<TokenMsg(n, m, Popped(after))>>)
  <2>1. PICK after \in Released(alg[n][m], n) :
           IF after.queue = <<>>
           THEN alg' = [alg EXCEPT ![n][m] = after] /\ net' = net
           ELSE /\ alg' = [alg EXCEPT ![n][m] = Popped(after)]
                /\ net' = Post(net, n, {Head(after.queue)},
                               <<TokenMsg(n, m, Popped(after))>>)
    BY <1>2
  <2>2. /\ m \in Token /\ alg[n][m] \in Alg /\ known[n] \in SUBSET Monitor
        /\ data[n][m] \in Nat
        /\ net \in Channels /\ alg \in [Node -> [Token -> Alg]]
    <3>1. m \in Token /\ net \in Channels /\ alg \in [Node -> [Token -> Alg]]
      BY DEF TypeOK, Token, Channels
    <3>2. alg[n][m] \in Alg
      BY <3>1
    <3>3. known[n] \in SUBSET Monitor /\ data[n][m] \in Nat
      BY DEF TypeOK
    <3> QED
      BY <3>1, <3>2, <3>3
  <2>3. \A j \in Node : Fresh(alg[j][t], k)
    BY DEF Unasked
  <2>4. /\ after \in Alg
        /\ m = t => Fresh(after, k)
        /\ after.queue # <<>> =>
              /\ Head(after.queue) \in Node /\ Popped(after) \in Alg
              /\ m = t => Head(after.queue) # k /\ Fresh(Popped(after), k)
    <3>1. after \in Alg
      BY <2>1, <2>2, ReleasedType
    <3> QED
      BY <2>1, <2>2, <2>3, <3>1, FreshReleased, PoppedType
  <2>5. CASE after.queue = <<>>
    <3>1. \A j \in Node : Fresh(alg'[j][t], k)
      BY <2>1, <2>2, <2>3, <2>4, <2>5
    <3>2. Silent(net', k, t)
      BY <2>1, <2>5 DEF Unasked
    <3> QED
      BY <3>1, <3>2, UnaskedStep
  <2>6. CASE after.queue # <<>>
    <3> DEFINE give == TokenMsg(n, m, Popped(after))
    <3>1. give \in Message /\ Harmless(give, n, Head(after.queue), k, t)
      <4>1. give \in Message
        BY <2>2, <2>4, <2>6, TokenMsgType
      <4>2. /\ give.type = "GiveToken" /\ give.token = m
            /\ give.ln = Popped(after).ln /\ give.queue = Popped(after).queue
        BY DEF TokenMsg, GiveTokenMsg
      <4> HIDE DEF give
      <4> QED
        BY <2>4, <2>6, <4>1, <4>2 DEF Harmless, Gives, Asks, Fresh
    <3>2. /\ alg' = [alg EXCEPT ![n][m] = Popped(after)]
          /\ net' = Post(net, n, {Head(after.queue)}, <<give>>)
      BY <2>1, <2>6
    <3> HIDE DEF give
    <3>3. Silent(net', k, t)
      BY <2>2, <2>4, <2>6, <3>1, <3>2, SilentGive DEF Unasked
    <3>4. \A j \in Node : Fresh(alg'[j][t], k)
      BY <2>2, <2>3, <2>4, <2>6, <3>2
    <3> QED
      BY <3>3, <3>4, UnaskedStep
  <2> QED
    BY <2>5, <2>6
<1> QED
  BY <1>1, <1>2 DEF RequestUnlock

LEMMA DisconnectUnasked ==
    ASSUME TypeOK, NEW n \in Node, NEW p \in Node, Disconnect(n, p),
           NEW k \in Node, NEW t \in Token, Unasked(k, t)
    PROVE  Unasked(k, t)'
<1>1. net \in Channels /\ alg' = alg
  BY DEF TypeOK, Channels, Disconnect, tokenVars
<1>2. ASSUME NEW a \in Node, NEW b \in Node, NEW h \in DOMAIN net'[a][b]
      PROVE  h \in DOMAIN net[a][b] /\ net'[a][b][h] = net[a][b][h]
  BY <1>1, DisconnectFront DEF KeepsFront
<1>3. Silent(net', k, t)
  BY <1>2 DEF Unasked, Silent
<1> QED
  BY <1>1, <1>3, UnaskedStep DEF Unasked

LEMMA NextUnasked ==
    ASSUME TypeOK, SysEntryCreated, [Next]_vars,
           NEW k \in Node, NEW t \in Token, Unasked(k, t), ~Needs(k, t)'
    PROVE  Unasked(k, t)'
<1>1. ASSUME NEW n \in Node, NEW m \in Monitor, HandleNew(n, m) PROVE Unasked(k, t)'
  <2>1. \/ UNCHANGED <<alg, net>>
        \/ RequestTokens(n, {SysToken})
    BY <1>1 DEF HandleNew
  <2>2. RequestTokens(n, {SysToken}) => (n = k /\ n \in startedCluster => t \notin {SysToken})
    <3>1. RequestTokens(n, {SysToken}) => SysToken \in pendingRequests'[n]
      BY DEF RequestTokens, TypeOK
    <3> QED
      BY <1>1, <2>1, <3>1 DEF HandleNew, nodeVars, Needs
  <2>3. {SysToken} \in SUBSET Token
    BY DEF Token
  <2> QED
    BY <2>1, <2>2, <2>3, UnaskedSame, UnaskedRequestTokens
<1>2. ASSUME NEW n \in Node, NEW m \in Monitor, RequestLock(n, m) PROVE Unasked(k, t)'
  <2>1. \/ UNCHANGED <<alg, net>>
        \/ RequestTokens(n, {m})
    BY <1>2 DEF RequestLock
  <2>2. RequestTokens(n, {m}) => (n = k /\ n \in startedCluster => t \notin {m})
    <3>1. RequestTokens(n, {m}) => m \in pendingRequests'[n]
      BY DEF RequestTokens, TypeOK
    <3> QED
      BY <1>2, <2>1, <3>1 DEF RequestLock, nodeVars, Needs
  <2>3. {m} \in SUBSET Token
    BY DEF Token
  <2> QED
    BY <2>1, <2>2, <2>3, UnaskedSame, UnaskedRequestTokens
<1>3. ASSUME NEW n \in Node, NEW p \in Node, CrashInHandshake(n, p) PROVE Unasked(k, t)'
  BY <1>3, UnaskedSame DEF CrashInHandshake, tokenVars
<1>4. ASSUME NEW n \in Node, NEW m \in Monitor, TakeGrant(n, m) PROVE Unasked(k, t)'
  BY <1>4, UnaskedSame DEF TakeGrant, tokenVars
<1>5. CASE UNCHANGED vars
  BY <1>5, UnaskedSame DEF vars, tokenVars
<1> QED
  BY <1>1, <1>2, <1>3, <1>4, <1>5, HandleConnectUnasked, PacketClusterHandshakeUnasked,
     PacketGiveTokenUnasked, PacketRequestTokenUnasked, RequestUnlockUnasked,
     DisconnectUnasked DEF Next, Handle

\* Nobody waits for what it did not create.
LEMMA NextWants ==
    ASSUME TypeOK, Wants, [Next]_vars
    PROVE  Wants'
<1>1. /\ public \in [Node -> SUBSET Monitor] /\ private \in [Node -> SUBSET Token]
      /\ pendingGrants \in [Node -> SUBSET Monitor]
      /\ pendingRequests \in [Node -> SUBSET Token]
      /\ started \in SUBSET Node
  BY DEF TypeOK
<1>2. ASSUME UNCHANGED <<started, public, private, pendingGrants, pendingRequests>>
      PROVE  Wants'
  BY <1>2 DEF Wants
<1>3. ASSUME NEW n \in Node, NEW p \in Node, HandleConnect(n, p) PROVE Wants'
  <2>1. /\ public' = public /\ pendingGrants' = pendingGrants
        /\ pendingRequests' = pendingRequests
        /\ \/ started' = started /\ private' = private
           \/ /\ started' = started \cup {n}
              /\ private' = [private EXCEPT ![n] = @ \cup {SysToken}]
    BY <1>3 DEF HandleConnect, pendingVars
  <2> QED
    BY <1>1, <2>1 DEF Wants
<1>4. ASSUME NEW n \in Node, NEW p \in Node, PacketClusterHandshake(n, p) PROVE Wants'
  <2>1. /\ UNCHANGED <<started, public, private, pendingRequests>>
        /\ \/ pendingGrants' = pendingGrants
           \/ \E G : pendingGrants' = [pendingGrants EXCEPT ![n] = @ \ G]
    BY <1>4 DEF PacketClusterHandshake, Grant
  <2> QED
    BY <1>1, <2>1 DEF Wants
<1>5. ASSUME NEW n \in Node, NEW p \in Node, PacketGiveToken(n, p) PROVE Wants'
  <2> DEFINE msg == Head(net[p][n])
             new == ((private[n] \ created[n]) \cap msg.monitors \cap pendingGrants[n])
                       \ pendingRequests[n]
  <2>1. UNCHANGED <<started, public, private>>
    BY <1>5 DEF PacketGiveToken, TakeSystemToken, TakeMonitorToken, nodeVars, tokenVars
  <2>2. \/ pendingGrants' = pendingGrants
        \/ \E G : pendingGrants' = [pendingGrants EXCEPT ![n] = @ \ G]
    BY <1>5 DEF PacketGiveToken, TakeSystemToken, TakeMonitorToken, Grant, pendingVars
  <2>3. \/ pendingRequests' = pendingRequests
        \/ \E G : pendingRequests' = [pendingRequests EXCEPT ![n] = (@ \ G) \cup new]
        \/ \E G : pendingRequests' = [pendingRequests EXCEPT ![n] = @ \ G]
    BY <1>5 DEF PacketGiveToken, TakeSystemToken, TakeMonitorToken, pendingVars
  <2>4. new \subseteq pendingGrants[n]
    OBVIOUS
  <2> HIDE DEF new
  <2>5. \A k \in Node : pendingGrants'[k] \subseteq pendingGrants[k]
    BY <1>1, <2>2
  <2>6. \A k \in Node : pendingRequests'[k] \subseteq pendingRequests[k] \cup pendingGrants[k]
    BY <1>1, <2>3, <2>4
  <2> QED
    BY <2>1, <2>5, <2>6 DEF Wants
<1>6. ASSUME NEW n \in Node, NEW p \in Node, PacketRequestToken(n, p) PROVE Wants'
  <2>1. /\ UNCHANGED <<started, public, pendingGrants, pendingRequests>>
        /\ \/ private' = private
           \/ private' = [private EXCEPT ![n] = @ \cup {Head(net[p][n]).token}]
    BY <1>6 DEF PacketRequestToken, nodeVars, pendingVars
  <2> QED
    BY <1>1, <2>1 DEF Wants
<1>7. ASSUME NEW n \in Node, NEW m \in Monitor, HandleNew(n, m) PROVE Wants'
  <2>1. /\ UNCHANGED <<started, pendingGrants>>
        /\ public' = [public EXCEPT ![n] = @ \cup {m}]
        /\ \/ m \in private[n] /\ private' = private
           \/ private' = [private EXCEPT ![n] = @ \cup {m}]
        /\ \/ pendingRequests' = pendingRequests
           \/ \E T : pendingRequests' = [pendingRequests EXCEPT ![n] = @ \cup ({SysToken} \ T)]
    BY <1>7 DEF HandleNew, RequestTokens, nodeVars
  <2> QED
    BY <1>1, <2>1 DEF Wants
<1>8. ASSUME NEW n \in Node, NEW m \in Monitor, RequestLock(n, m) PROVE Wants'
  <2>1. /\ UNCHANGED <<started, public, private>> /\ m \in public[n]
        /\ \/ pendingGrants' = pendingGrants
           \/ pendingGrants' = [pendingGrants EXCEPT ![n] = @ \ {m}]
           \/ pendingGrants' = [pendingGrants EXCEPT ![n] = @ \cup {m}]
        /\ \/ pendingRequests' = pendingRequests
           \/ \E T : pendingRequests' = [pendingRequests EXCEPT ![n] = @ \cup ({m} \ T)]
    BY <1>8 DEF RequestLock, RequestTokens, nodeVars, pendingVars
  <2> QED
    BY <1>1, <2>1 DEF Wants
<1>9. ASSUME NEW n \in Node, NEW p \in Node, CrashInHandshake(n, p) \/ Disconnect(n, p)
      PROVE  Wants'
  BY <1>2, <1>9 DEF CrashInHandshake, Disconnect, nodeVars, tokenVars, pendingVars
<1>10. ASSUME NEW n \in Node, NEW m \in Monitor, TakeGrant(n, m) \/ RequestUnlock(n, m)
       PROVE  Wants'
  BY <1>2, <1>10 DEF TakeGrant, RequestUnlock, nodeVars, tokenVars, pendingVars
<1>11. CASE UNCHANGED vars
  BY <1>2, <1>11 DEF vars, nodeVars, tokenVars, pendingVars
<1> QED
  BY <1>3, <1>4, <1>5, <1>6, <1>7, <1>8, <1>9, <1>10, <1>11 DEF Next, Handle

\* Who may ask once may ask for ever.
LEMMA NextMay ==
    ASSUME TypeOK, [Next]_vars, NEW k \in Node, NEW t, May(k, t)
    PROVE  May(k, t)'
<1>1. /\ \/ startedCluster' = startedCluster
         \/ \E n \in Node : startedCluster' = startedCluster \cup {n}
      /\ \/ public' = public
         \/ \E n \in Node, m \in Monitor : public' = [public EXCEPT ![n] = @ \cup {m}]
  <2>1. ASSUME NEW n \in Node, NEW p \in Node, Handle(n, p)
        PROVE  /\ public' = public
               /\ \/ startedCluster' = startedCluster
                  \/ startedCluster' = startedCluster \cup {n}
    BY <2>1 DEF Handle, HandleConnect, PacketClusterHandshake, PacketGiveToken,
                TakeSystemToken, TakeMonitorToken, PacketRequestToken, nodeVars, tokenVars
  <2>2. ASSUME NEW n \in Node, NEW p \in Node, CrashInHandshake(n, p) \/ Disconnect(n, p)
        PROVE  UNCHANGED <<public, startedCluster>>
    BY <2>2 DEF CrashInHandshake, Disconnect, nodeVars, tokenVars
  <2>3. ASSUME NEW n \in Node, NEW m \in Monitor, HandleNew(n, m)
        PROVE  /\ public' = [public EXCEPT ![n] = @ \cup {m}]
               /\ startedCluster' = startedCluster
    BY <2>3 DEF HandleNew, nodeVars
  <2>4. ASSUME NEW n \in Node, NEW m \in Monitor,
               RequestLock(n, m) \/ TakeGrant(n, m) \/ RequestUnlock(n, m)
        PROVE  UNCHANGED <<public, startedCluster>>
    BY <2>4 DEF RequestLock, TakeGrant, RequestUnlock, nodeVars, tokenVars
  <2>5. CASE UNCHANGED vars
    BY <2>5 DEF vars, nodeVars, tokenVars
  <2> QED
    BY <2>1, <2>2, <2>3, <2>4, <2>5 DEF Next
<1>2. public \in [Node -> SUBSET Monitor]
  BY DEF TypeOK
<1> QED
  BY <1>1, <1>2 DEF May

LEMMA NextAsking ==
    ASSUME TypeOK, SysEntryCreated, Asking, [Next]_vars
    PROVE  Asking'
<1>1. Wants'
  BY NextWants DEF Asking
<1>2. ASSUME NEW k \in Node, NEW t \in Token PROVE May(k, t)' \/ Unasked(k, t)'
  <2>1. Needs(k, t)' => May(k, t)'
    BY <1>1 DEF Wants, Needs, May
  <2> QED
    BY <2>1, NextMay, NextUnasked DEF Asking
<1> QED
  BY <1>1, <1>2 DEF Asking

LEMMA InitUnasked ==
    ASSUME Init, NEW k \in Node, NEW t \in Token
    PROVE  Unasked(k, t)
<1>1. \A j \in Node : Fresh(alg[j][t], k)
  BY DEF Init, NewAlg, Fresh, Blank, QueueRange
<1>2. Silent(net, k, t)
  BY DEF Init, Silent, Harmless, Gives, Asks, EdgeHandshakeMsg
<1> QED
  BY <1>1, <1>2 DEF Unasked

LEMMA InitAsking == Init => Asking
<1>1. Init => Wants
  BY DEF Init, Wants
<1> QED
  BY <1>1, InitUnasked DEF Asking

LEMMA AskingInvariant == Spec => []Asking
<1>1. Init => IInv /\ Asking
  BY InitIInv, InitAsking
<1>2. IInv /\ Asking /\ [Next]_vars => (IInv /\ Asking)'
  BY NextIInv, NextAsking DEF IInv
<1> QED
  BY <1>1, <1>2, PTL DEF Spec

-----------------------------------------------------------------------------
(* What it is for.                                                          *)

LEMMA NothingDiscarded ==
    ASSUME IInv, Meeting, Asking
    PROVE  NoPacketDiscarded
<1> SUFFICES ASSUME NEW p \in Node, NEW n \in Node, NEW i \in DOMAIN net[p][n]
             PROVE  /\ net[p][n][i].type \in {"RequestToken", "GiveToken"} => n \in started
                    /\ net[p][n][i].type = "GiveToken" =>
                          /\ net[p][n][i].token \in private[n]
                          /\ net[p][n][i].token \notin owned[n]
  BY DEF NoPacketDiscarded
<1> DEFINE msg == net[p][n][i]
<1>1. msg \in Message /\ i \in Nat
  BY DEF IInv, TypeOK
<1> HIDE DEF msg
<1>2. CASE msg.type = "RequestToken"
  <2>1. msg.token \in Token
    BY <1>1, <1>2, MessageFields
  <2>2. ~Unasked(p, msg.token)
    BY <1>2 DEF Unasked, Silent, Harmless, Asks, msg
  <2>3. p \in startedCluster
    BY <2>1, <2>2 DEF Asking, May
  <2> QED
    BY <1>2, <2>3 DEF Meeting, msg
<1>3. CASE msg.type = "GiveToken"
  <2>1. msg.token \in Token
    BY <1>1, <1>3, MessageFields
  <2>2. ~Unasked(n, msg.token)
    BY <1>3 DEF Unasked, Silent, Harmless, Gives, msg
  <2>3. May(n, msg.token)
    BY <2>1, <2>2 DEF Asking
  <2>4. n \in started
    BY <2>3 DEF May, Meeting
  <2>5. msg.token \in private[n]
    BY <2>3, <2>4 DEF May, Asking, Wants
  <2>6. Carries(net, p, n, i, msg.token) /\ OneCarrierOf(msg.token)
    BY <1>1, <1>3, <2>1 DEF Carries, Gives, IInv, OneCarrier, msg
  <2>7. msg.token \notin owned[n]
    BY <1>1, <2>6 DEF OneCarrierOf, Held
  <2> QED
    BY <1>3, <2>4, <2>5, <2>7 DEF msg
<1> QED
  BY <1>2, <1>3 DEF msg

\* No handler throws a request or a token away: a token is never lost to the early
\* returns of packetGiveToken, whatever the order in which nodes connect, start,
\* create monitors and ask.
THEOREM NoPacketDiscardedHolds == Spec => []NoPacketDiscarded
  BY NothingDiscarded, IInvInvariant, MeetingInvariant, AskingInvariant, PTL

-----------------------------------------------------------------------------
(* The invariant.                                                           *)

\* No copy of the properties of m is newer than v.
Latest(m, v) == \A k \in Node : data[k][m] <= v

\* Somebody was inside m.
Used(m) == \E k \in Node : data[k][m] > 0

\* A monitor that was used will not be taken for a new one.
Accounted(m) == IF 0 \in started THEN KnownEverywhere(m) ELSE m \in private[0]

HolderIsNewest(m) ==
    \A n \in Node : m \in Held(n) =>
        /\ Latest(m, data[n][m])
        /\ app[n][m] = "inside" => \A k \in Node \ {n} : data[k][m] < data[n][m]

\* A packet brings the newest copy, which somebody still has.
PacketIsNewest(m) ==
    \A a, b \in Node : \A i \in Nat : Carries(net, a, b, i, m) =>
        /\ Latest(m, net[a][b][i].value)
        /\ \E k \in Node : data[k][m] = net[a][b][i].value

Newer ==
    \A m \in Monitor :
        /\ HolderIsNewest(m)
        /\ PacketIsNewest(m)
        /\ Used(m) => Accounted(m)
        /\ \E n \in Node : Latest(m, data[n][m])

-----------------------------------------------------------------------------
(* Where the tokens in the network come from.                               *)

Earlier(a, b, u, x) == \E j \in Nat : Carries(net, a, b, j, u) /\ net[a][b][j] = x

\* The step sends no token.
NoneSent == \E s \in Offset : Follows(net', net, s)

\* n sends the token in msg.
Sends(n, msg) ==
    \E d \in Node, s \in Offset, v \in Channels :
        Follows(v, net, s) /\ net' = Post(v, n, {d}, <<msg>>)

LEMMA NoneSentOrigin ==
    ASSUME net' \in Channels, NoneSent,
           NEW a \in Node, NEW b \in Node, NEW i \in Nat, NEW u, Carries(net', a, b, i, u)
    PROVE  Earlier(a, b, u, net'[a][b][i])
  BY CarriedBefore DEF NoneSent, Earlier

LEMMA SendsOrigin ==
    ASSUME NEW n \in Node, NEW msg \in Message, Sends(n, msg),
           NEW a \in Node, NEW b \in Node, NEW i \in Nat, NEW u, Carries(net', a, b, i, u)
    PROVE  \/ Earlier(a, b, u, net'[a][b][i])
           \/ a = n /\ Gives(msg, u) /\ net'[a][b][i] = msg
<1>1. PICK d \in Node, s \in Offset, v \in Channels :
         Follows(v, net, s) /\ net' = Post(v, n, {d}, <<msg>>)
  BY DEF Sends
<1> DEFINE msgs == <<msg>>
<1>2. msgs \in Seq(Message) /\ DOMAIN msgs = {1} /\ msgs[1] = msg
  OBVIOUS
<1>3. net' = Post(v, n, {d}, msgs)
  BY <1>1
<1> HIDE DEF msgs
<1>4. \/ Carries(v, a, b, i, u) /\ net'[a][b][i] = v[a][b][i]
      \/ a = n /\ Gives(msg, u) /\ net'[a][b][i] = msg
  BY <1>2, <1>3, CarriesPost
<1>5. Carries(v, a, b, i, u) => Earlier(a, b, u, v[a][b][i])
  BY <1>1, CarriedBefore DEF Earlier
<1> QED
  BY <1>4, <1>5

\* What the actions send.
LEMMA QuietActions ==
    ASSUME TypeOK, NEW n \in Node, NEW p \in Node,
           HandleConnect(n, p) \/ PacketClusterHandshake(n, p)
           \/ CrashInHandshake(n, p) \/ Disconnect(n, p)
    PROVE  NoneSent
<1>1. net \in Channels
  BY DEF TypeOK, Channels
<1>2. CASE HandleConnect(n, p)
  <2> DEFINE msgs == <<ClusterHandshakeMsg>>
  <2>1. msgs \in Seq(Message) /\ \A j \in DOMAIN msgs : msgs[j].type # "GiveToken"
    BY MessageTypes DEF ClusterHandshakeMsg
  <2>2. /\ Follows(Received(n, p), net, Took(p, n)) /\ Took(p, n) \in Offset
        /\ Received(n, p) \in Channels
    BY <1>1, <1>2, FollowsReceived, ReceivedType DEF HandleConnect, Arrives
  <2>3. net' = Received(n, p) \/ net' = Post(Received(n, p), n, links[n] \cup {p}, msgs)
    BY <1>2 DEF HandleConnect
  <2> HIDE DEF msgs
  <2> QED
    BY <2>1, <2>2, <2>3, FollowsPost DEF NoneSent
<1>3. CASE PacketClusterHandshake(n, p)
  <2> DEFINE numbered == Numbered(alg[n], n, pendingRequests[n])
  <2>1. /\ Follows(Received(n, p), net, Took(p, n)) /\ Took(p, n) \in Offset
        /\ Received(n, p) \in Channels
    BY <1>1, <1>3, FollowsReceived, ReceivedType DEF PacketClusterHandshake, Arrives
  <2>2. \/ net' = Received(n, p)
        \/ \E order \in Orderings(pendingRequests[n]) :
              net' = Post(Received(n, p), n, links[n], RequestMsgs(numbered, n, order))
    BY <1>3 DEF PacketClusterHandshake
  <2>3. numbered \in [Token -> Alg] /\ pendingRequests[n] \in SUBSET Token
    BY NumberedType DEF TypeOK
  <2> HIDE DEF numbered
  <2> QED
    BY <2>1, <2>2, <2>3, FollowsRequests DEF NoneSent
<1>4. CASE CrashInHandshake(n, p)
  BY <1>1, <1>4, FollowsSelf DEF CrashInHandshake, NoneSent
<1>5. CASE Disconnect(n, p)
  <2>1. Follows(net', net, Nothing) /\ Nothing \in Offset
    BY <1>1, <1>5, FollowsDisconnect
  <2> QED
    BY <2>1 DEF NoneSent
<1> QED
  BY <1>2, <1>3, <1>4, <1>5

LEMMA QuietCalls ==
    ASSUME TypeOK, NEW n \in Node, NEW m \in Monitor,
           HandleNew(n, m) \/ RequestLock(n, m) \/ TakeGrant(n, m)
    PROVE  NoneSent
<1>1. \/ net' = net
      \/ RequestTokens(n, {m})
      \/ RequestTokens(n, {SysToken})
  BY DEF HandleNew, RequestLock, TakeGrant
<1>2. {m} \in SUBSET Token /\ {SysToken} \in SUBSET Token
  BY DEF Token
<1>3. net \in Channels
  BY DEF TypeOK, Channels
<1> QED
  BY <1>1, <1>2, <1>3, FollowsSelf, FollowsRequestTokens DEF NoneSent

LEMMA RequestUnlockSends ==
    ASSUME TypeOK, NEW n \in Node, NEW m \in Monitor, RequestUnlock(n, m)
    PROVE  \/ NoneSent
           \/ \E msg \in Message :
                 /\ Sends(n, msg)
                 /\ msg.token = m /\ m \in Held(n) /\ msg.value = data[n][m]
<1>1. net \in Channels
  BY DEF TypeOK, Channels
<1>2. CASE net' = net
  BY <1>1, <1>2, FollowsSelf DEF NoneSent
<1>3. CASE net' # net
  <2>1. PICK after \in Released(alg[n][m], n) :
           /\ after.queue # <<>>
           /\ net' = Post(net, n, {Head(after.queue)}, <<TokenMsg(n, m, Popped(after))>>)
    BY <1>3 DEF RequestUnlock
  <2> DEFINE give == TokenMsg(n, m, Popped(after))
  <2>2. m \in Token /\ alg[n][m] \in Alg /\ known[n] \in SUBSET Monitor /\ data[n][m] \in Nat
    BY DEF TypeOK, Token
  <2>3. Popped(after) \in Alg /\ Head(after.queue) \in Node
    BY <2>1, <2>2, ReleasedType, PoppedType
  <2>4. give \in Message
    BY <2>2, <2>3, TokenMsgType
  <2>5. give.token = m /\ give.value = data[n][m]
    <3>1. m # SysToken
      BY MonitorAssumption
    <3> QED
      BY <3>1 DEF TokenMsg, GiveTokenMsg
  <2>6. m \in Held(n)
    BY <1>3 DEF RequestUnlock, Held
  <2>7. Sends(n, give)
    BY <1>1, <2>1, <2>3, FollowsSelf DEF Sends
  <2> HIDE DEF give
  <2> QED
    BY <2>4, <2>5, <2>6, <2>7
<1> QED
  BY <1>2, <1>3

LEMMA PacketRequestTokenSends ==
    ASSUME TypeOK, NEW n \in Node, NEW p \in Node, PacketRequestToken(n, p)
    PROVE  \/ NoneSent
           \/ \E msg \in Message :
                 /\ Sends(n, msg)
                 /\ msg.token \in owned[n]
                 /\ IF msg.token = SysToken THEN msg.monitors = known[n]
                                            ELSE msg.value = data[n][msg.token]
<1> DEFINE head == Head(net[p][n])
           t == head.token
           updated == UpdateRequestNumber(alg[n][t], p, head.number)
           give == TokenMsg(n, t, updated)
<1>1. /\ net \in Channels /\ head.type = "RequestToken" /\ head \in Message
      /\ Follows(Received(n, p), net, Took(p, n)) /\ Took(p, n) \in Offset
      /\ Received(n, p) \in Channels
  BY ReceivedType, FollowsReceived DEF PacketRequestToken, Arrives, TypeOK, Channels
<1>2. CASE net' = Received(n, p)
  BY <1>1, <1>2 DEF NoneSent
<1>3. CASE net' # Received(n, p)
  <2>1. net' = Post(Received(n, p), n, {p}, <<give>>) /\ t \in owned[n]
    BY <1>3 DEF PacketRequestToken, Serves
  <2>2. t \in Token /\ head.number \in RequestNumber
    BY <1>1, MessageFields
  <2>3. updated \in Alg
    BY <2>2, UpdateType DEF TypeOK
  <2>4. known[n] \in SUBSET Monitor /\ (t # SysToken => data[n][t] \in Nat)
    BY <2>2 DEF TypeOK, Token
  <2>5. give \in Message
    <3> HIDE DEF updated, t
    <3> QED
      BY <2>2, <2>3, <2>4, TokenMsgType
  <2>6. /\ give.token = t
        /\ IF t = SysToken THEN give.monitors = known[n] ELSE give.value = data[n][t]
    BY DEF TokenMsg, GiveTokenMsg
  <2> HIDE DEF give
  <2>7. Sends(n, give)
    BY <1>1, <2>1 DEF Sends
  <2> QED
    BY <2>1, <2>5, <2>6, <2>7
<1> QED
  BY <1>2, <1>3

\* The system token that moves on knows what the node registered in it.
LEMMA TakeSystemTokenSends ==
    ASSUME TypeOK, SysEntryCreated, NEW n \in Node, NEW p \in Node,
           Arrives(n, p, "GiveToken"), NEW msg, msg = Head(net[p][n]),
           msg.token = SysToken, TakeSystemToken(n, p, msg)
    PROVE  \/ NoneSent
           \/ \E give \in Message :
                 Sends(n, give) /\ give.token = SysToken /\ give.monitors = known'[n]
<1> DEFINE fresh == private[n] \ created[n]
           found == fresh \cap msg.monitors
           adopted == fresh \ msg.monitors
           new == (found \cap pendingGrants[n]) \ pendingRequests[n]
           holds == (owned[n] \ found) \cup adopted \cup {SysToken}
           registered == msg.monitors \cup adopted
           loaded == [alg[n] EXCEPT ![SysToken] = LoadProperties(@, msg.ln, msg.queue)]
           numbered == IF n \in startedCluster THEN Numbered(loaded, n, new) ELSE loaded
           asks == IF n \in startedCluster THEN new ELSE {}
           first == Received(n, p)
<1>1. /\ net \in Channels /\ msg.type = "GiveToken" /\ msg \in Message
      /\ Follows(first, net, Took(p, n)) /\ Took(p, n) \in Offset /\ first \in Channels
  BY ReceivedType, FollowsReceived DEF Arrives, TypeOK, Channels
<1>2. /\ msg.ln \in [Node -> RequestNumber] /\ msg.queue \in Seq(Node)
      /\ msg.monitors \in SUBSET Monitor /\ SysToken \in Token
  BY <1>1, MessageFields DEF Token
<1>3. asks \in SUBSET Token /\ adopted \in SUBSET Monitor
  <2>1. private[n] \ {SysToken} \in SUBSET Monitor
    BY DEF TypeOK, Token
  <2>2. SysToken \notin fresh
    BY DEF SysEntryCreated
  <2> QED
    BY <2>1, <2>2 DEF TypeOK
<1>4. numbered \in [Token -> Alg]
  <2>1. alg[n] \in [Token -> Alg] /\ alg[n][SysToken] \in Alg
    BY <1>2 DEF TypeOK
  <2>2. loaded \in [Token -> Alg]
    BY <1>2, <2>1, LoadType
  <2> HIDE DEF loaded
  <2> QED
    BY <2>2, NumberedType
<1>5. PICK after \in Released(numbered[SysToken], n), order \in Orderings(asks) :
         LET asked == Post(first, n, links[n], RequestMsgs(numbered, n, order))
         IN  IF after.queue = <<>>
             THEN /\ owned' = [owned EXCEPT ![n] = holds]
                  /\ alg' = [alg EXCEPT ![n] = [numbered EXCEPT ![SysToken] = after]]
                  /\ net' = asked
             ELSE /\ owned' = [owned EXCEPT ![n] = holds \ {SysToken}]
                  /\ alg' = [alg EXCEPT ![n] = [numbered EXCEPT ![SysToken] = Popped(after)]]
                  /\ net' = Post(asked, n, {Head(after.queue)},
                                 <<GiveTokenMsg(SysToken, Popped(after), registered, 0)>>)
  BY DEF TakeSystemToken
<1> DEFINE asked == Post(first, n, links[n], RequestMsgs(numbered, n, order))
           give == GiveTokenMsg(SysToken, Popped(after), registered, 0)
<1>6. asked \in Channels /\ Follows(asked, net, Took(p, n))
  <2> HIDE DEF numbered, asks
  <2> QED
    BY <1>1, <1>3, <1>4, <1>5, FollowsRequests
<1>7. CASE after.queue = <<>>
  BY <1>1, <1>5, <1>6, <1>7 DEF NoneSent
<1>8. CASE after.queue # <<>>
  <2>1. after \in Alg
    <3>1. numbered[SysToken] \in Alg
      BY <1>2, <1>4
    <3> HIDE DEF numbered
    <3> QED
      BY <1>5, <3>1, ReleasedType
  <2>2. Popped(after) \in Alg /\ Head(after.queue) \in Node
    BY <1>8, <2>1, PoppedType
  <2>3. registered \in SUBSET Monitor
    BY <1>2, <1>3
  <2>4. give \in Message
    <3> HIDE DEF registered
    <3> QED
      BY <1>2, <2>2, <2>3, MessageTypes
  <2>5. give.token = SysToken /\ give.monitors = known'[n]
    <3>1. give.token = SysToken /\ give.monitors = registered
      BY DEF GiveTokenMsg
    <3>2. known' = [known EXCEPT ![n] = registered] /\ known \in [Node -> SUBSET Monitor]
      BY DEF TakeSystemToken, TypeOK
    <3> HIDE DEF give, registered
    <3> QED
      BY <3>1, <3>2
  <2>6. net' = Post(asked, n, {Head(after.queue)}, <<give>>)
    BY <1>5, <1>8
  <2> HIDE DEF asked, give
  <2>7. Sends(n, give)
    BY <1>1, <1>6, <2>2, <2>6 DEF Sends
  <2> QED
    BY <2>4, <2>5, <2>7
<1> QED
  BY <1>7, <1>8

LEMMA TakeMonitorTokenSends ==
    ASSUME TypeOK, NEW n \in Node, NEW p \in Node,
           Arrives(n, p, "GiveToken"), net' = Received(n, p)
    PROVE  NoneSent
  BY FollowsReceived DEF Arrives, TypeOK, Channels, NoneSent

-----------------------------------------------------------------------------
(* A monitor that was used stays registered.                                *)

\* The step takes no knowledge from the system token.
KnowledgeKept(m) ==
    /\ 0 \in started' <=> 0 \in started
    /\ private[0] \subseteq private'[0]
    /\ \A k \in Node : SysToken \in owned'[k] =>
          SysToken \in owned[k] /\ known[k] \subseteq known'[k]
    /\ \A a, b \in Node : \A i \in Nat : Carries(net', a, b, i, SysToken) =>
          \/ Earlier(a, b, SysToken, net'[a][b][i])
          \/ SysToken \in owned[a] /\ known[a] \subseteq net'[a][b][i].monitors

LEMMA KnowledgeStep ==
    ASSUME NEW m \in Monitor, Accounted(m), KnowledgeKept(m)
    PROVE  Accounted(m)'
<1>1. CASE 0 \in started
  <2>1. KnownEverywhere(m)
    BY <1>1 DEF Accounted
  <2>2. ASSUME NEW k \in Node, SysToken \in owned'[k] PROVE m \in known'[k]
    BY <2>1, <2>2 DEF KnownEverywhere, KnowledgeKept
  <2>3. ASSUME NEW a \in Node, NEW b \in Node, NEW i \in Nat, Carries(net', a, b, i, SysToken)
        PROVE  m \in net'[a][b][i].monitors
    <3>1. CASE Earlier(a, b, SysToken, net'[a][b][i])
      BY <2>1, <3>1 DEF KnownEverywhere, Earlier
    <3>2. CASE SysToken \in owned[a] /\ known[a] \subseteq net'[a][b][i].monitors
      BY <2>1, <3>2 DEF KnownEverywhere
    <3> QED
      BY <2>3, <3>1, <3>2 DEF KnowledgeKept
  <2>4. KnownEverywhere(m)'
    BY <2>2, <2>3 DEF KnownEverywhere
  <2> QED
    BY <1>1, <2>4 DEF Accounted, KnowledgeKept
<1>2. CASE 0 \notin started
  BY <1>2 DEF Accounted, KnowledgeKept
<1> QED
  BY <1>1, <1>2

\* A step that sends no token.
LEMMA KnowledgeQuiet ==
    ASSUME net' \in Channels, NoneSent, NEW m \in Monitor, Accounted(m),
           0 \in started' <=> 0 \in started, private[0] \subseteq private'[0],
           \A k \in Node : SysToken \in owned'[k] =>
              SysToken \in owned[k] /\ known[k] \subseteq known'[k]
    PROVE  Accounted(m)'
  BY NoneSentOrigin, KnowledgeStep DEF KnowledgeKept

LEMMA HandleConnectAccounted ==
    ASSUME IInv, net' \in Channels, NEW n \in Node, NEW p \in Node, HandleConnect(n, p),
           NEW m \in Monitor, Accounted(m)
    PROVE  Accounted(m)'
<1> DEFINE starts == Cardinality(links[n] \cup {p}) >= N - 1 /\ n \notin started
<1>1. /\ owned \in [Node -> SUBSET Token] /\ known \in [Node -> SUBSET Monitor]
      /\ private \in [Node -> SUBSET Token] /\ TypeOK /\ OneCarrier
  BY DEF IInv, TypeOK
<1>2. NoneSent
  BY <1>1, QuietActions
<1>3. 0 \in Node
  BY NAssumption DEF Node
<1>4. CASE starts /\ n = 0
  <2>1. /\ started' = started \cup {0} /\ 0 \notin started
        /\ owned' = [owned EXCEPT ![0] = @ \cup {SysToken}]
        /\ known' = [known EXCEPT ![0] = private[0] \ {SysToken}]
    BY <1>4 DEF HandleConnect
  <2>2. ~Carried(SysToken)
    BY <1>1, <2>1 DEF OneCarrier, BeforeStart
  <2>3. m \in private[0] /\ m # SysToken
    BY <2>1, MonitorAssumption DEF Accounted
  <2>4. \A k \in Node : SysToken \in owned'[k] => m \in known'[k]
    BY <1>1, <1>3, <2>1, <2>2, <2>3 DEF Carried, Held
  <2>5. \A a, b \in Node : \A i \in Nat : ~Carries(net', a, b, i, SysToken)
    BY <1>2, <2>2, NoneSentOrigin DEF Carried, Earlier
  <2>6. KnownEverywhere(m)'
    BY <2>4, <2>5 DEF KnownEverywhere
  <2>7. 0 \in started'
    BY <2>1
  <2> QED
    BY <2>6, <2>7 DEF Accounted
<1>5. CASE ~(starts /\ n = 0)
  <2>1. /\ 0 \in started' <=> 0 \in started
        /\ owned' = owned /\ known' = known
        /\ \/ private' = private
           \/ private' = [private EXCEPT ![n] = @ \cup {SysToken}]
    <3>1. CASE starts
      <4>1. /\ started' = started \cup {n} /\ n # 0
            /\ owned' = [owned EXCEPT ![n] = @] /\ known' = [known EXCEPT ![n] = @]
            /\ private' = [private EXCEPT ![n] = @ \cup {SysToken}]
        BY <1>5, <3>1 DEF HandleConnect
      <4> QED
        BY <1>1, <4>1
    <3>2. CASE ~starts
      BY <3>2 DEF HandleConnect
    <3> QED
      BY <3>1, <3>2
  <2>2. private[0] \subseteq private'[0]
    BY <1>1, <1>3, <2>1
  <2> QED
    BY <1>2, <2>1, <2>2, KnowledgeQuiet
<1> QED
  BY <1>4, <1>5

LEMMA HandleNewAccounted ==
    ASSUME IInv, net' \in Channels, NEW n \in Node, NEW o \in Monitor, HandleNew(n, o),
           NEW m \in Monitor, Accounted(m)
    PROVE  Accounted(m)'
<1>1. /\ owned \in [Node -> SUBSET Token] /\ known \in [Node -> SUBSET Monitor]
      /\ private \in [Node -> SUBSET Token] /\ TypeOK
  BY DEF IInv, TypeOK
<1>2. NoneSent
  BY <1>1, QuietCalls
<1>3. /\ started' = started
      /\ \/ private' = private
         \/ private' = [private EXCEPT ![n] = @ \cup {o}]
      /\ \/ owned' = owned
         \/ owned' = [owned EXCEPT ![n] = @ \cup {o}]
         \/ owned' = [owned EXCEPT ![n] = @]
      /\ \/ known' = known
         \/ known' = [known EXCEPT ![n] = @ \cup {o}]
         \/ known' = [known EXCEPT ![n] = @]
  BY DEF HandleNew, nodeVars
<1>4. o # SysToken /\ 0 \in Node
  <2>1. o # SysToken
    BY MonitorAssumption
  <2>2. 0 \in Node
    BY NAssumption DEF Node
  <2> QED
    BY <2>1, <2>2
<1>5. private[0] \subseteq private'[0]
  BY <1>1, <1>3, <1>4
<1>6. ASSUME NEW k \in Node, SysToken \in owned'[k]
      PROVE  SysToken \in owned[k] /\ known[k] \subseteq known'[k]
  BY <1>1, <1>3, <1>4, <1>6
<1> QED
  BY <1>2, <1>3, <1>5, <1>6, KnowledgeQuiet

\* The node that takes the system token, or passes it on, knows what it knew.
LEMMA TakeSystemTokenAccounted ==
    ASSUME IInv, net' \in Channels, NEW n \in Node, NEW p \in Node,
           Arrives(n, p, "GiveToken"), NEW msg, msg = Head(net[p][n]),
           msg.token = SysToken, TakeSystemToken(n, p, msg),
           NEW m \in Monitor, Accounted(m)
    PROVE  Accounted(m)'
<1> DEFINE adopted == (private[n] \ created[n]) \ msg.monitors
<1>1. /\ TypeOK /\ SysEntryCreated /\ OneCarrier /\ known \in [Node -> SUBSET Monitor]
      /\ SysToken \in Token /\ msg.type = "GiveToken" /\ 1 \in DOMAIN net[p][n]
      /\ net[p][n][1] = msg
  <2>1. net[p][n] \in Seq(Message) /\ net[p][n] # <<>> /\ msg.type = "GiveToken"
    BY DEF IInv, TypeOK, Arrives
  <2>2. 1 \in DOMAIN net[p][n] /\ net[p][n][1] = msg
    BY <2>1
  <2> QED
    BY <2>1, <2>2 DEF IInv, TypeOK, Token
<1>2. /\ known' = [known EXCEPT ![n] = msg.monitors \cup adopted]
      /\ started' = started /\ private' = private
  BY DEF TakeSystemToken, nodeVars
<1>3. Carries(net, p, n, 1, SysToken) /\ OneCarrierOf(SysToken)
  BY <1>1 DEF Carries, Gives, OneCarrier
<1>4. 0 \in started
  BY <1>1, <1>3 DEF OneCarrier, BeforeStart, Carried
<1>5. KnownEverywhere(m)
  BY <1>4 DEF Accounted
<1>6. m \in known'[n]
  BY <1>1, <1>2, <1>3, <1>5 DEF KnownEverywhere
<1>7. ASSUME NEW k \in Node, SysToken \in owned'[k] PROVE m \in known'[k]
  <2>1. SysToken \notin owned[k]
    BY <1>3 DEF OneCarrierOf, Held
  <2>2. \E S : owned' = [owned EXCEPT ![n] = S]
    BY DEF TakeSystemToken
  <2>3. k = n
    BY <1>1, <1>7, <2>1, <2>2 DEF TypeOK
  <2> QED
    BY <1>6, <2>3
<1>8. ASSUME NEW a \in Node, NEW b \in Node, NEW i \in Nat, Carries(net', a, b, i, SysToken)
      PROVE  m \in net'[a][b][i].monitors
  <2>1. CASE Earlier(a, b, SysToken, net'[a][b][i])
    BY <1>5, <2>1 DEF KnownEverywhere, Earlier
  <2>2. CASE ~Earlier(a, b, SysToken, net'[a][b][i])
    <3>1. ~NoneSent
      BY <1>8, <2>2, NoneSentOrigin
    <3>2. PICK give \in Message :
             Sends(n, give) /\ give.token = SysToken /\ give.monitors = known'[n]
      BY <1>1, <3>1, TakeSystemTokenSends
    <3>3. net'[a][b][i] = give
      BY <1>8, <2>2, <3>2, SendsOrigin
    <3> QED
      BY <1>6, <3>2, <3>3
  <2> QED
    BY <2>1, <2>2
<1>9. KnownEverywhere(m)'
  BY <1>7, <1>8 DEF KnownEverywhere
<1> QED
  BY <1>2, <1>4, <1>9 DEF Accounted

LEMMA PacketRequestTokenAccounted ==
    ASSUME IInv, net' \in Channels, NEW n \in Node, NEW p \in Node, PacketRequestToken(n, p),
           NEW m \in Monitor, Accounted(m)
    PROVE  Accounted(m)'
<1>1. /\ owned \in [Node -> SUBSET Token] /\ private \in [Node -> SUBSET Token] /\ TypeOK
  BY DEF IInv, TypeOK
<1>2. /\ started' = started /\ known' = known
      /\ \/ private' = private
         \/ \E t : private' = [private EXCEPT ![n] = @ \cup {t}]
      /\ \/ owned' = owned
         \/ \E t : owned' = [owned EXCEPT ![n] = @ \ {t}]
  BY DEF PacketRequestToken, nodeVars
<1>3. 0 \in Node
  BY NAssumption DEF Node
<1>4. /\ private[0] \subseteq private'[0]
      /\ \A k \in Node : SysToken \in owned'[k] => SysToken \in owned[k]
  BY <1>1, <1>2, <1>3
<1>5. CASE NoneSent
  BY <1>2, <1>4, <1>5, KnowledgeQuiet
<1>6. ASSUME NEW msg \in Message, Sends(n, msg), msg.token \in owned[n],
             msg.token = SysToken => msg.monitors = known[n]
      PROVE  Accounted(m)'
  <2>1. ASSUME NEW a \in Node, NEW b \in Node, NEW i \in Nat, Carries(net', a, b, i, SysToken)
        PROVE  \/ Earlier(a, b, SysToken, net'[a][b][i])
               \/ SysToken \in owned[a] /\ known[a] \subseteq net'[a][b][i].monitors
    BY <1>6, <2>1, SendsOrigin DEF Gives
  <2>2. KnowledgeKept(m)
    BY <1>2, <1>4, <2>1 DEF KnowledgeKept
  <2> QED
    BY <2>2, KnowledgeStep
<1> QED
  BY <1>1, <1>5, <1>6, PacketRequestTokenSends

LEMMA RequestUnlockAccounted ==
    ASSUME IInv, net' \in Channels, NEW n \in Node, NEW o \in Monitor, RequestUnlock(n, o),
           NEW m \in Monitor, Accounted(m)
    PROVE  Accounted(m)'
<1>1. owned \in [Node -> SUBSET Token] /\ TypeOK
  BY DEF IInv, TypeOK
<1>2. /\ started' = started /\ known' = known /\ private' = private
      /\ owned' = owned \/ owned' = [owned EXCEPT ![n] = @ \ {o}]
  BY DEF RequestUnlock, nodeVars
<1>3. \A k \in Node : SysToken \in owned'[k] => SysToken \in owned[k]
  BY <1>1, <1>2
<1>4. CASE NoneSent
  BY <1>2, <1>3, <1>4, KnowledgeQuiet
<1>5. ASSUME NEW msg \in Message, Sends(n, msg), msg.token = o PROVE Accounted(m)'
  <2>1. o # SysToken
    BY MonitorAssumption
  <2>2. ASSUME NEW a \in Node, NEW b \in Node, NEW i \in Nat, Carries(net', a, b, i, SysToken)
        PROVE  Earlier(a, b, SysToken, net'[a][b][i])
    BY <1>5, <2>1, <2>2, SendsOrigin DEF Gives
  <2>3. KnowledgeKept(m)
    BY <1>2, <1>3, <2>2 DEF KnowledgeKept
  <2> QED
    BY <2>3, KnowledgeStep
<1> QED
  BY <1>1, <1>4, <1>5, RequestUnlockSends

LEMMA NextAccounted ==
    ASSUME IInv, net' \in Channels, [Next]_vars, NEW m \in Monitor, Accounted(m)
    PROVE  Accounted(m)'
<1>1. TypeOK /\ SysEntryCreated
  BY DEF IInv
<1>2. ASSUME NoneSent, UNCHANGED <<started, private, owned, known>> PROVE Accounted(m)'
  BY <1>2, KnowledgeQuiet
<1>3. ASSUME NEW n \in Node, NEW p \in Node,
             PacketClusterHandshake(n, p) \/ CrashInHandshake(n, p) \/ Disconnect(n, p)
      PROVE  Accounted(m)'
  <2>1. NoneSent
    BY <1>1, <1>3, QuietActions
  <2>2. UNCHANGED <<started, private, owned, known>>
    BY <1>3 DEF PacketClusterHandshake, CrashInHandshake, Disconnect, nodeVars, tokenVars
  <2> QED
    BY <1>2, <2>1, <2>2
<1>4. ASSUME NEW n \in Node, NEW o \in Monitor, RequestLock(n, o) \/ TakeGrant(n, o)
      PROVE  Accounted(m)'
  <2>1. NoneSent
    BY <1>1, <1>4, QuietCalls
  <2>2. UNCHANGED <<started, private, owned, known>>
    BY <1>4 DEF RequestLock, TakeGrant, nodeVars, tokenVars
  <2> QED
    BY <1>2, <2>1, <2>2
<1>5. ASSUME NEW n \in Node, NEW p \in Node, PacketGiveToken(n, p) PROVE Accounted(m)'
  <2> DEFINE msg == Head(net[p][n])
  <2>1. Arrives(n, p, "GiveToken") /\ owned \in [Node -> SUBSET Token]
    BY <1>1, <1>5 DEF PacketGiveToken, TypeOK
  <2>2. CASE msg.token = SysToken /\ TakeSystemToken(n, p, msg)
    BY <2>1, <2>2, TakeSystemTokenAccounted
  <2>3. CASE Unexpected(n, msg.token)
    <3>1. net' = Received(n, p) /\ UNCHANGED <<started, private, owned, known>>
      BY <1>5, <2>3 DEF PacketGiveToken, nodeVars, tokenVars
    <3> QED
      BY <1>1, <1>2, <2>1, <3>1, TakeMonitorTokenSends
  <2>4. CASE msg.token # SysToken /\ TakeMonitorToken(n, p, msg)
    <3>1. /\ net' = Received(n, p) /\ UNCHANGED <<started, private, known>>
          /\ owned' = [owned EXCEPT ![n] = @ \cup {msg.token}]
      BY <2>4 DEF TakeMonitorToken, nodeVars
    <3>2. NoneSent
      BY <1>1, <2>1, <3>1, TakeMonitorTokenSends
    <3>3. \A k \in Node : SysToken \in owned'[k] => SysToken \in owned[k]
      BY <2>1, <2>4, <3>1
    <3> QED
      BY <3>1, <3>2, <3>3, KnowledgeQuiet
  <2> QED
    BY <1>5, <2>2, <2>3, <2>4 DEF PacketGiveToken
<1>6. CASE UNCHANGED vars
  <2>1. net' = net /\ UNCHANGED <<started, private, owned, known>>
    BY <1>6 DEF vars, nodeVars, tokenVars
  <2>2. NoneSent
    BY <2>1, FollowsSelf DEF NoneSent
  <2> QED
    BY <1>2, <2>1, <2>2
<1> QED
  BY <1>3, <1>4, <1>5, <1>6, HandleConnectAccounted, HandleNewAccounted,
     PacketRequestTokenAccounted, RequestUnlockAccounted DEF Next, Handle

-----------------------------------------------------------------------------
(* Whoever has the token has the newest copy.                               *)

\* Copies stay, nobody enters, and the token's value is its sender's.
Still(m) ==
    /\ \A k \in Node : data'[k][m] = data[k][m]
    /\ \A k \in Node : app'[k][m] = "inside" => app[k][m] = "inside"
    /\ \A k \in Node : m \in Held(k)' => m \in Held(k) \/ ~Used(m)
    /\ \A a, b \in Node : \A i \in Nat : Carries(net', a, b, i, m) =>
          \/ Earlier(a, b, m, net'[a][b][i])
          \/ m \in Held(a) /\ net'[a][b][i].value = data[a][m]

Ranked(m) == HolderIsNewest(m) /\ PacketIsNewest(m) /\ \E n \in Node : Latest(m, data[n][m])

LEMMA StillStep ==
    ASSUME IInv, NEW m \in Monitor, Ranked(m), Still(m)
    PROVE  Ranked(m)' /\ (Used(m)' => Used(m))
<1>1. \A k \in Node : data[k][m] \in Nat
  BY DEF IInv, TypeOK
<1>2. ASSUME NEW k \in Node, m \in Held(k)'
      PROVE  /\ \A j \in Node : data'[j][m] <= data'[k][m]
             /\ app'[k][m] = "inside" => \A j \in Node \ {k} : data'[j][m] < data'[k][m]
  <2>1. CASE m \in Held(k)
    <3>1. /\ Latest(m, data[k][m])
          /\ app[k][m] = "inside" => \A j \in Node \ {k} : data[j][m] < data[k][m]
      BY <2>1 DEF Ranked, HolderIsNewest
    <3> QED
      BY <3>1 DEF Still, Latest
  <2>2. CASE m \notin Held(k)
    <3>1. ~Used(m)
      BY <1>2, <2>2 DEF Still
    <3>2. \A j \in Node : data'[j][m] <= data'[k][m]
      BY <1>1, <3>1 DEF Used, Still
    <3>3. app[k][m] # "inside"
      BY <2>2 DEF IInv, GrantHoldsLock, Held
    <3> QED
      BY <3>2, <3>3 DEF Still
  <2> QED
    BY <2>1, <2>2
<1>3. ASSUME NEW a \in Node, NEW b \in Node, NEW i \in Nat, Carries(net', a, b, i, m)
      PROVE  /\ \A j \in Node : data'[j][m] <= net'[a][b][i].value
             /\ \E k \in Node : data'[k][m] = net'[a][b][i].value
  <2>1. CASE Earlier(a, b, m, net'[a][b][i])
    <3>1. /\ Latest(m, net'[a][b][i].value)
          /\ \E k \in Node : data[k][m] = net'[a][b][i].value
      BY <2>1 DEF Earlier, Ranked, PacketIsNewest
    <3> QED
      BY <3>1 DEF Still, Latest
  <2>2. CASE m \in Held(a) /\ net'[a][b][i].value = data[a][m]
    <3>1. Latest(m, data[a][m])
      BY <2>2 DEF Ranked, HolderIsNewest
    <3> QED
      BY <2>2, <3>1 DEF Still, Latest
  <2> QED
    BY <1>3, <2>1, <2>2 DEF Still
<1>4. \E n \in Node : \A j \in Node : data'[j][m] <= data'[n][m]
  <2>1. PICK n \in Node : Latest(m, data[n][m])
    BY DEF Ranked
  <2> QED
    BY <2>1 DEF Still, Latest
<1>5. Used(m)' => Used(m)
  BY DEF Used, Still
<1>6. HolderIsNewest(m)'
  BY <1>2 DEF HolderIsNewest, Latest
<1>7. PacketIsNewest(m)'
  BY <1>3 DEF PacketIsNewest, Latest
<1> QED
  BY <1>4, <1>5, <1>6, <1>7 DEF Ranked, Latest

\* A step that sends no token and gives nobody one.
LEMMA StillQuiet ==
    ASSUME net' \in Channels, NoneSent, NEW m \in Monitor, UNCHANGED <<data, app>>,
           \A k \in Node : m \in Held(k)' => m \in Held(k) \/ ~Used(m)
    PROVE  Still(m)
  BY NoneSentOrigin DEF Still

LEMMA HandleConnectStill ==
    ASSUME IInv, net' \in Channels, NEW n \in Node, NEW p \in Node, HandleConnect(n, p),
           NEW m \in Monitor
    PROVE  Still(m)
<1>1. NoneSent /\ m # SysToken /\ owned \in [Node -> SUBSET Token]
  BY QuietActions, MonitorAssumption DEF IInv, TypeOK
<1>2. /\ UNCHANGED <<data, app, locked>>
      /\ \/ owned' = owned
         \/ owned' = [owned EXCEPT ![n] = @ \cup {SysToken}]
         \/ owned' = [owned EXCEPT ![n] = @]
  BY DEF HandleConnect, appVars
<1>3. \A k \in Node : m \in Held(k)' => m \in Held(k)
  BY <1>1, <1>2 DEF Held
<1> QED
  BY <1>1, <1>2, <1>3, StillQuiet

\* A monitor is new only if nobody used it.
LEMMA HandleNewStill ==
    ASSUME IInv, net' \in Channels, NEW n \in Node, NEW o \in Monitor, HandleNew(n, o),
           NEW m \in Monitor, Used(m) => Accounted(m)
    PROVE  Still(m)
<1>1. NoneSent /\ owned \in [Node -> SUBSET Token]
  BY QuietCalls DEF IInv, TypeOK
<1>2. /\ UNCHANGED <<data, app, locked>>
      /\ \/ owned' = owned
         \/ owned' = [owned EXCEPT ![n] = @]
         \/ Adopts(n, o) /\ o \notin private[n] /\ owned' = [owned EXCEPT ![n] = @ \cup {o}]
  BY DEF HandleNew, appVars
<1>3. Adopts(n, m) /\ m \notin private[n] => ~Used(m)
  <2> SUFFICES ASSUME Adopts(n, m), m \notin private[n], Accounted(m) PROVE FALSE
    OBVIOUS
  <2>1. CASE n \in started
    <3>1. SysToken \in owned[n] /\ m \notin known[n]
      BY <2>1 DEF Adopts, Exists
    <3>2. 0 \in started
      BY <3>1 DEF IInv, OneCarrier, BeforeStart, Carried, Held
    <3> QED
      BY <3>1, <3>2 DEF Accounted, KnownEverywhere
  <2>2. CASE n \notin started
    BY <2>2 DEF Adopts, Accounted
  <2> QED
    BY <2>1, <2>2
<1>4. ASSUME NEW k \in Node, m \in Held(k)', m \notin Held(k) PROVE ~Used(m)
  <2>1. m \in owned'[k] /\ m \notin owned[k]
    BY <1>2, <1>4 DEF Held
  <2>2. k = n /\ o = m /\ Adopts(n, o) /\ o \notin private[n]
    BY <1>1, <1>2, <2>1
  <2> QED
    BY <1>3, <2>2
<1> QED
  BY <1>1, <1>2, <1>4, StillQuiet

LEMMA TakeSystemTokenStill ==
    ASSUME IInv, net' \in Channels, NEW n \in Node, NEW p \in Node,
           Arrives(n, p, "GiveToken"), NEW msg, msg = Head(net[p][n]),
           msg.token = SysToken, TakeSystemToken(n, p, msg),
           NEW m \in Monitor, Used(m) => Accounted(m)
    PROVE  Still(m)
<1> DEFINE adopted == (private[n] \ created[n]) \ msg.monitors
<1>1. /\ TypeOK /\ SysEntryCreated /\ OneCarrier /\ m # SysToken
      /\ owned \in [Node -> SUBSET Token] /\ locked \in [Node -> SUBSET Token]
  BY MonitorAssumption DEF IInv, TypeOK
<1>2. Carries(net, p, n, 1, SysToken) /\ net[p][n][1] = msg
  <2>1. net[p][n] \in Seq(Message) /\ net[p][n] # <<>> /\ msg.type = "GiveToken"
    BY <1>1 DEF TypeOK, Arrives
  <2>2. 1 \in DOMAIN net[p][n] /\ net[p][n][1] = msg
    BY <2>1
  <2> QED
    BY <2>1, <2>2 DEF Carries, Gives
<1>3. m \in adopted => ~Used(m)
  <2>1. 0 \in started
    BY <1>1, <1>2 DEF OneCarrier, BeforeStart, Carried
  <2> QED
    BY <1>2, <2>1 DEF Accounted, KnownEverywhere
<1>4. /\ UNCHANGED <<data, app>>
      /\ \E G : locked' = [locked EXCEPT ![n] = @ \cup (adopted \cap G)]
      /\ \E F : \/ owned' = [owned EXCEPT ![n] = (@ \ F) \cup adopted \cup {SysToken}]
                \/ owned' = [owned EXCEPT ![n] = ((@ \ F) \cup adopted \cup {SysToken})
                                                    \ {SysToken}]
  <2>1. UNCHANGED <<data, app>> /\ Grant(n, Grantable(n, adopted))
    BY DEF TakeSystemToken
  <2>2. Grantable(n, adopted) = adopted \cap (pendingGrants[n] \cap public[n])
    BY DEF Grantable
  <2>3. \E G : locked' = [locked EXCEPT ![n] = @ \cup (adopted \cap G)]
    BY <2>1, <2>2 DEF Grant
  <2>4. LET H == (owned[n] \ ((private[n] \ created[n]) \cap msg.monitors))
                    \cup adopted \cup {SysToken}
        IN  owned' = [owned EXCEPT ![n] = H] \/ owned' = [owned EXCEPT ![n] = H \ {SysToken}]
    BY DEF TakeSystemToken
  <2> QED
    BY <2>1, <2>3, <2>4
<1>5. ASSUME NEW k \in Node, m \in Held(k)', m \notin Held(k) PROVE m \in adopted
  BY <1>1, <1>4, <1>5 DEF Held
<1>6. ASSUME NEW a \in Node, NEW b \in Node, NEW i \in Nat, Carries(net', a, b, i, m)
      PROVE  Earlier(a, b, m, net'[a][b][i])
  <2>1. CASE NoneSent
    BY <1>6, <2>1, NoneSentOrigin
  <2>2. ASSUME NEW give \in Message, Sends(n, give), give.token = SysToken
        PROVE  Earlier(a, b, m, net'[a][b][i])
    BY <1>1, <1>6, <2>2, SendsOrigin DEF Gives
  <2> QED
    BY <1>1, <2>1, <2>2, TakeSystemTokenSends
<1> QED
  BY <1>3, <1>4, <1>5, <1>6 DEF Still

LEMMA PacketRequestTokenStill ==
    ASSUME IInv, net' \in Channels, NEW n \in Node, NEW p \in Node, PacketRequestToken(n, p),
           NEW m \in Monitor
    PROVE  Still(m)
<1>1. TypeOK /\ m # SysToken /\ owned \in [Node -> SUBSET Token]
  BY MonitorAssumption DEF IInv, TypeOK
<1>2. /\ UNCHANGED <<data, app, locked>>
      /\ \/ owned' = owned
         \/ \E t : owned' = [owned EXCEPT ![n] = @ \ {t}]
  BY DEF PacketRequestToken, appVars
<1>3. \A k \in Node : m \in Held(k)' => m \in Held(k)
  BY <1>1, <1>2 DEF Held
<1>4. CASE NoneSent
  BY <1>2, <1>3, <1>4, StillQuiet
<1>5. ASSUME NEW msg \in Message, Sends(n, msg), msg.token \in owned[n],
             msg.token # SysToken => msg.value = data[n][msg.token]
      PROVE  Still(m)
  <2>1. ASSUME NEW a \in Node, NEW b \in Node, NEW i \in Nat, Carries(net', a, b, i, m)
        PROVE  \/ Earlier(a, b, m, net'[a][b][i])
               \/ m \in Held(a) /\ net'[a][b][i].value = data[a][m]
    BY <1>1, <1>5, <2>1, SendsOrigin DEF Gives, Held
  <2> QED
    BY <1>2, <1>3, <2>1 DEF Still
<1> QED
  BY <1>1, <1>4, <1>5, PacketRequestTokenSends

LEMMA RequestUnlockStill ==
    ASSUME IInv, net' \in Channels, NEW n \in Node, NEW o \in Monitor, RequestUnlock(n, o),
           NEW m \in Monitor
    PROVE  Still(m)
<1>1. /\ TypeOK /\ owned \in [Node -> SUBSET Token] /\ locked \in [Node -> SUBSET Token]
      /\ app \in [Node -> [Monitor -> AppState]]
  BY DEF IInv, TypeOK
<1>2. /\ data' = data /\ app' = [app EXCEPT ![n][o] = "outside"]
      /\ locked' = locked \/ locked' = [locked EXCEPT ![n] = @ \ {o}]
      /\ owned' = owned \/ owned' = [owned EXCEPT ![n] = @ \ {o}]
  BY DEF RequestUnlock
<1>3. /\ \A k \in Node : m \in Held(k)' => m \in Held(k)
      /\ \A k \in Node : app'[k][m] = "inside" => app[k][m] = "inside"
  BY <1>1, <1>2 DEF Held
<1>4. CASE NoneSent
  <2>1. \A a, b \in Node : \A i \in Nat :
           Carries(net', a, b, i, m) => Earlier(a, b, m, net'[a][b][i])
    BY <1>4, NoneSentOrigin
  <2> QED
    BY <1>2, <1>3, <2>1 DEF Still
<1>5. ASSUME NEW msg \in Message, Sends(n, msg), msg.token = o, o \in Held(n),
             msg.value = data[n][o]
      PROVE  Still(m)
  <2>1. ASSUME NEW a \in Node, NEW b \in Node, NEW i \in Nat, Carries(net', a, b, i, m)
        PROVE  \/ Earlier(a, b, m, net'[a][b][i])
               \/ m \in Held(a) /\ net'[a][b][i].value = data[a][m]
    BY <1>5, <2>1, SendsOrigin DEF Gives
  <2> QED
    BY <1>2, <1>3, <2>1 DEF Still
<1> QED
  BY <1>1, <1>4, <1>5, RequestUnlockSends

\* Loading the properties gives the node the newest copy.
LEMMA TakeMonitorTokenRanked ==
    ASSUME IInv, Asking, net' \in Channels, NEW n \in Node, NEW p \in Node,
           Arrives(n, p, "GiveToken"), NEW msg, msg = Head(net[p][n]),
           msg.token # SysToken, TakeMonitorToken(n, p, msg),
           NEW m \in Monitor, Ranked(m)
    PROVE  Ranked(m)' /\ (Used(m)' => Used(m))
<1> DEFINE o == msg.token
<1>1. /\ TypeOK /\ NoneSent /\ net[p][n] \in Seq(Message) /\ net[p][n] # <<>>
      /\ msg \in Message /\ msg.type = "GiveToken" /\ o \in Monitor
      /\ owned \in [Node -> SUBSET Token] /\ locked \in [Node -> SUBSET Token]
      /\ data \in [Node -> [Monitor -> Nat]]
  <2>1. TypeOK
    BY DEF IInv
  <2>2. NoneSent
    BY <2>1, TakeMonitorTokenSends DEF TakeMonitorToken
  <2>3. net[p][n] \in Seq(Message) /\ net[p][n] # <<>> /\ msg.type = "GiveToken"
    BY <2>1 DEF TypeOK, Arrives
  <2>4. msg \in Message
    BY <2>3
  <2>5. o \in Monitor
    BY <2>3, <2>4, MessageFields DEF Token
  <2> QED
    BY <2>1, <2>2, <2>3, <2>4, <2>5 DEF TypeOK
<1>2. Carries(net, p, n, 1, o) /\ net[p][n][1] = msg
  <2>1. 1 \in DOMAIN net[p][n] /\ net[p][n][1] = msg
    BY <1>1
  <2> QED
    BY <1>1, <2>1 DEF Carries, Gives
<1>3. o \in public[n]
  <2>1. ~Unasked(n, o)
    BY <1>2 DEF Carries, Unasked, Silent, Harmless
  <2>2. May(n, o)
    BY <1>1, <2>1 DEF Asking, Token
  <2> QED
    BY <2>2 DEF May
<1>4. /\ data' = [data EXCEPT ![n][o] = msg.value]
      /\ app' = app
      /\ owned' = [owned EXCEPT ![n] = @ \cup {o}]
      /\ \E G \in SUBSET {o} : locked' = [locked EXCEPT ![n] = @ \cup G]
  BY <1>3 DEF TakeMonitorToken, Grant, Grantable
<1>5. CASE m # o
  <2>1. \A k \in Node : data'[k][m] = data[k][m]
    BY <1>1, <1>4, <1>5
  <2>2. \A k \in Node : m \in Held(k)' => m \in Held(k)
    BY <1>1, <1>4, <1>5 DEF Held
  <2>3. Still(m)
    BY <1>1, <1>4, <2>1, <2>2, NoneSentOrigin DEF Still
  <2> QED
    BY <2>3, StillStep
<1>6. CASE m = o
  <2> DEFINE value == msg.value
  <2>1. (\A k \in Node : data[k][m] <= value) /\ \E k \in Node : data[k][m] = value
    <3>1. Carries(net, p, n, 1, m) /\ net[p][n][1] = msg
      BY <1>2, <1>6
    <3>2. /\ Latest(m, net[p][n][1].value)
          /\ \E k \in Node : data[k][m] = net[p][n][1].value
      BY <3>1 DEF Ranked, PacketIsNewest
    <3> QED
      BY <3>1, <3>2 DEF Latest
  <2>2. value \in Nat
    BY <1>1, MessageFields
  <2>3. \A k \in Node : m \notin Held(k)
    BY <1>2, <1>6 DEF IInv, OneCarrier, OneCarrierOf, Token
  <2>4. app[n][m] # "inside"
    BY <2>3 DEF IInv, GrantHoldsLock, Held
  <2> HIDE DEF value, o
  <2>5. /\ data'[n][m] = value
        /\ \A k \in Node : k # n => data'[k][m] = data[k][m]
    BY <1>1, <1>4, <1>6 DEF value
  <2>6. \A k \in Node : data'[k][m] <= value
    BY <2>1, <2>2, <2>5
  <2>7. \A k \in Node : m \in Held(k)' => k = n
    BY <1>1, <1>4, <1>6, <2>3 DEF Held
  <2>8. \A a, b \in Node : \A i \in Nat : ~Carries(net', a, b, i, m)
    <3> SUFFICES ASSUME NEW a \in Node, NEW b \in Node, NEW i \in Nat, Carries(net', a, b, i, m)
                 PROVE  FALSE
      OBVIOUS
    <3>1. /\ Follows(Received(n, p), net, Took(p, n)) /\ net' = Received(n, p)
          /\ OneCarrierOf(m) /\ Gives(Head(net[p][n]), m)
      BY <1>1, <1>6, FollowsReceived
      DEF TakeMonitorToken, TypeOK, Channels, IInv, OneCarrier, Token, Gives, o
    <3> QED
      BY <1>1, <3>1, TakenIsGone
  <2>9. HolderIsNewest(m)'
    BY <1>4, <2>4, <2>5, <2>6, <2>7 DEF HolderIsNewest, Latest
  <2>10. PacketIsNewest(m)'
    BY <2>8 DEF PacketIsNewest
  <2>11. (\E k \in Node : Latest(m, data[k][m]))'
    BY <2>5, <2>6 DEF Latest
  <2>12. Used(m)' => Used(m)
    BY <2>1, <2>5 DEF Used
  <2> QED
    BY <2>9, <2>10, <2>11, <2>12 DEF Ranked
<1> QED
  BY <1>5, <1>6

\* Whoever enters makes a newer copy than anybody has.
LEMMA TakeGrantRanked ==
    ASSUME IInv, net' \in Channels, NEW n \in Node, NEW o \in Monitor, TakeGrant(n, o),
           NEW m \in Monitor, Ranked(m)
    PROVE  /\ Ranked(m)'
           /\ Used(m)' => Used(m) \/ Accounted(m)
<1>1. /\ NoneSent /\ data \in [Node -> [Monitor -> Nat]]
      /\ app \in [Node -> [Monitor -> AppState]]
  BY QuietCalls DEF IInv, TypeOK
<1>2. /\ data' = [data EXCEPT ![n][o] = @ + 1]
      /\ app' = [app EXCEPT ![n][o] = "inside"]
      /\ UNCHANGED <<owned, locked, net>>
      /\ o \in granted[n]
  BY DEF TakeGrant, tokenVars
<1>3. \A k \in Node : Held(k)' = Held(k)
  BY <1>2 DEF Held
<1>4. CASE m # o
  <2>1. /\ \A k \in Node : data'[k][m] = data[k][m]
        /\ \A k \in Node : app'[k][m] = "inside" => app[k][m] = "inside"
    BY <1>1, <1>2, <1>4
  <2>2. Still(m)
    BY <1>1, <1>3, <2>1, NoneSentOrigin DEF Still
  <2> QED
    BY <2>2, StillStep
<1>5. CASE m = o
  <2>1. m \in Held(n) /\ OneCarrierOf(m)
    BY <1>2, <1>5 DEF IInv, GrantHoldsLock, Held, OneCarrier, Token
  <2>2. \A k \in Node : data[k][m] <= data[n][m]
    BY <2>1 DEF Ranked, HolderIsNewest, Latest
  <2>3. /\ data'[n][m] = data[n][m] + 1
        /\ \A k \in Node : k # n => data'[k][m] = data[k][m]
        /\ \A k \in Node : data[k][m] \in Nat
    BY <1>1, <1>2, <1>5
  <2>4. /\ \A k \in Node : data'[k][m] <= data'[n][m]
        /\ \A k \in Node \ {n} : data'[k][m] < data'[n][m]
    BY <2>2, <2>3
  <2>5. \A k \in Node : m \in Held(k)' => k = n
    BY <1>3, <2>1 DEF OneCarrierOf
  <2>6. \A a, b \in Node : \A i \in Nat : ~Carries(net', a, b, i, m)
    BY <1>2, <2>1 DEF OneCarrierOf
  <2>7. HolderIsNewest(m)'
    BY <2>4, <2>5 DEF HolderIsNewest, Latest
  <2>8. PacketIsNewest(m)'
    BY <2>6 DEF PacketIsNewest
  <2>9. (\E k \in Node : Latest(m, data[k][m]))'
    BY <2>4 DEF Latest
  <2>10. Accounted(m)
    BY <2>1 DEF Accounted, IInv, OneCarrier, Registry, BeforeStart, Carried
  <2> QED
    BY <2>7, <2>8, <2>9, <2>10 DEF Ranked
<1> QED
  BY <1>4, <1>5

LEMMA NextRanked ==
    ASSUME IInv, Asking, net' \in Channels, [Next]_vars,
           NEW m \in Monitor, Ranked(m), Used(m) => Accounted(m)
    PROVE  Ranked(m)' /\ (Used(m)' => Used(m) \/ Accounted(m))
<1>1. TypeOK /\ SysEntryCreated
  BY DEF IInv
<1>2. ASSUME NoneSent, UNCHANGED <<data, app, owned, locked>> PROVE Still(m)
  BY <1>2, StillQuiet DEF Held
<1>3. ASSUME NEW n \in Node, NEW p \in Node, CrashInHandshake(n, p) \/ Disconnect(n, p)
      PROVE  Still(m)
  <2>1. NoneSent
    BY <1>1, <1>3, QuietActions
  <2>2. UNCHANGED <<data, app, owned, locked>>
    BY <1>3 DEF CrashInHandshake, Disconnect, tokenVars, appVars
  <2> QED
    BY <1>2, <2>1, <2>2
<1>4. ASSUME NEW n \in Node, NEW p \in Node, PacketClusterHandshake(n, p) PROVE Still(m)
  <2>1. NoneSent /\ locked \in [Node -> SUBSET Token] /\ owned \in [Node -> SUBSET Token]
    BY <1>1, <1>4, QuietActions DEF TypeOK
  <2>2. /\ UNCHANGED <<data, app, owned>>
        /\ \/ locked' = locked
           \/ \E G \in SUBSET owned[n] : locked' = [locked EXCEPT ![n] = @ \cup G]
    <3>1. \A G \in GrantOutcomes(pendingGrants[n] \cap public[n] \cap owned[n]) :
             G \in SUBSET owned[n]
      BY DEF GrantOutcomes
    <3>2. UNCHANGED <<data, app, owned>>
      BY <1>4 DEF PacketClusterHandshake
    <3>3. \/ locked' = locked
          \/ \E G \in GrantOutcomes(pendingGrants[n] \cap public[n] \cap owned[n]) :
                locked' = [locked EXCEPT ![n] = @ \cup G]
      BY <1>4 DEF PacketClusterHandshake, Grant
    <3> QED
      BY <3>1, <3>2, <3>3
  <2>3. \A k \in Node : m \in Held(k)' => m \in Held(k)
    BY <2>1, <2>2 DEF Held
  <2> QED
    BY <2>1, <2>2, <2>3, StillQuiet
<1>5. ASSUME NEW n \in Node, NEW o \in Monitor, RequestLock(n, o) PROVE Still(m)
  <2>1. /\ NoneSent /\ locked \in [Node -> SUBSET Token] /\ owned \in [Node -> SUBSET Token]
        /\ app \in [Node -> [Monitor -> AppState]]
    BY <1>1, <1>5, QuietCalls DEF TypeOK
  <2>2. /\ UNCHANGED <<data, owned>> /\ app' = [app EXCEPT ![n][o] = "waiting"]
        /\ \/ locked' = locked
           \/ o \in owned[n] /\ locked' = [locked EXCEPT ![n] = @ \cup {o}]
    BY <1>5 DEF RequestLock
  <2>3. /\ \A k \in Node : m \in Held(k)' => m \in Held(k)
        /\ \A k \in Node : app'[k][m] = "inside" => app[k][m] = "inside"
    BY <2>1, <2>2 DEF Held
  <2> QED
    BY <2>1, <2>2, <2>3, NoneSentOrigin DEF Still
<1>6. ASSUME NEW n \in Node, NEW p \in Node, PacketGiveToken(n, p)
      PROVE  Ranked(m)' /\ (Used(m)' => Used(m) \/ Accounted(m))
  <2> DEFINE msg == Head(net[p][n])
  <2>1. Arrives(n, p, "GiveToken")
    BY <1>6 DEF PacketGiveToken
  <2>2. CASE msg.token = SysToken /\ TakeSystemToken(n, p, msg)
    BY <2>1, <2>2, TakeSystemTokenStill, StillStep
  <2>3. CASE msg.token # SysToken /\ TakeMonitorToken(n, p, msg)
    BY <2>1, <2>3, TakeMonitorTokenRanked
  <2>4. CASE Unexpected(n, msg.token)
    <3>1. net' = Received(n, p) /\ UNCHANGED <<data, app, owned, locked>>
      BY <1>6, <2>4 DEF PacketGiveToken, tokenVars, appVars
    <3>2. Still(m)
      BY <1>1, <1>2, <2>1, <3>1, TakeMonitorTokenSends
    <3> QED
      BY <3>2, StillStep
  <2> QED
    BY <1>6, <2>2, <2>3, <2>4 DEF PacketGiveToken
<1>7. CASE UNCHANGED vars
  <2>1. net' = net /\ UNCHANGED <<data, app, owned, locked>>
    BY <1>7 DEF vars, tokenVars, appVars
  <2>2. NoneSent
    BY <2>1, FollowsSelf DEF NoneSent
  <2>3. Still(m)
    BY <1>2, <2>1, <2>2
  <2> QED
    BY <2>3, StillStep
<1>8. ASSUME NEW n \in Node, NEW p \in Node, Handle(n, p)
      PROVE  Ranked(m)' /\ (Used(m)' => Used(m) \/ Accounted(m))
  BY <1>4, <1>6, <1>8, HandleConnectStill, PacketRequestTokenStill, StillStep DEF Handle
<1>9. ASSUME NEW n \in Node, NEW o \in Monitor,
             HandleNew(n, o) \/ RequestLock(n, o) \/ TakeGrant(n, o) \/ RequestUnlock(n, o)
      PROVE  Ranked(m)' /\ (Used(m)' => Used(m) \/ Accounted(m))
  BY <1>5, <1>9, HandleNewStill, TakeGrantRanked, RequestUnlockStill, StillStep
<1> QED
  BY <1>3, <1>7, <1>8, <1>9, StillStep DEF Next

LEMMA InitNewer == Init => Newer
<1> SUFFICES ASSUME Init, NEW m \in Monitor
             PROVE  Ranked(m) /\ (Used(m) => Accounted(m))
  BY DEF Newer, Ranked
<1>1. \A k \in Node : data[k][m] = 0
  BY DEF Init
<1>2. m # SysToken
  BY MonitorAssumption
<1>3. \A n \in Node : m \notin Held(n)
  BY <1>2 DEF Init, Held
<1>4. ASSUME NEW a \in Node, NEW b \in Node, NEW i \in Nat, Carries(net, a, b, i, m) PROVE FALSE
  <2>1. net[a][b] = <<>> \/ net[a][b] = <<EdgeHandshakeMsg>>
    BY DEF Init
  <2>2. i \in DOMAIN net[a][b] /\ net[a][b][i].type = "GiveToken"
    BY <1>4 DEF Carries, Gives
  <2>3. net[a][b][i] = EdgeHandshakeMsg
    BY <2>1, <2>2
  <2> QED
    BY <2>2, <2>3 DEF EdgeHandshakeMsg
<1>5. 0 \in Node
  BY NAssumption DEF Node
<1>6. Latest(m, data[0][m])
  BY <1>1, <1>5 DEF Latest
<1> QED
  BY <1>1, <1>3, <1>4, <1>5, <1>6 DEF Ranked, HolderIsNewest, PacketIsNewest, Used

LEMMA NextNewer ==
    ASSUME IInv, Asking, Newer, [Next]_vars
    PROVE  Newer'
<1>1. net' \in Channels
  BY NextType DEF IInv, TypeOK, Channels
<1>2. ASSUME NEW m \in Monitor
      PROVE  Ranked(m)' /\ (Used(m)' => Accounted(m)')
  <2>1. Ranked(m) /\ (Used(m) => Accounted(m))
    BY DEF Newer, Ranked
  <2>2. Ranked(m)' /\ (Used(m)' => Used(m) \/ Accounted(m))
    BY <1>1, <2>1, NextRanked
  <2>3. Accounted(m) => Accounted(m)'
    BY <1>1, NextAccounted
  <2> QED
    BY <2>1, <2>2, <2>3
<1> QED
  BY <1>2 DEF Newer, Ranked

LEMMA NewerInvariant == Spec => []Newer
<1>1. Init => IInv /\ Asking /\ Newer
  BY InitIInv, InitAsking, InitNewer
<1>2. IInv /\ Asking /\ Newer /\ [Next]_vars => (IInv /\ Asking /\ Newer)'
  BY NextIInv, NextAsking, NextNewer DEF IInv
<1> QED
  BY <1>1, <1>2, PTL DEF Spec

\* A thread that is inside a monitor has a newer copy of its properties than any
\* other node, for any number of nodes and whatever fails: the copy that travels
\* with the token is always the newest one, a monitor that was used is never taken
\* for a new one, and so no update is made to an old copy.
THEOREM FreshnessHolds == Spec => []Freshness
<1>1. IInv /\ Newer => Freshness
  <2> SUFFICES ASSUME IInv, Newer, NEW m \in Monitor, NEW n \in Node, NEW k \in Node,
                      app[n][m] = "inside", k # n
               PROVE  data[n][m] > data[k][m]
    BY DEF Freshness
  <2>1. m \in Held(n)
    BY DEF IInv, GrantHoldsLock, Held
  <2>2. data[k][m] < data[n][m]
    BY <2>1 DEF Newer, HolderIsNewest
  <2>3. data[k][m] \in Nat /\ data[n][m] \in Nat
    BY DEF IInv, TypeOK
  <2> QED
    BY <2>2, <2>3
<1> QED
  BY <1>1, IInvInvariant, NewerInvariant, PTL

-----------------------------------------------------------------------------
(* The cluster implements DistributedMonitor.                               *)

Copies == [Node -> [Monitor -> Nat]]

\* Newest, for the copies in d.
NewestOf(d, m) == CHOOSE v \in {d[n][m] : n \in Node} : \A n \in Node : d[n][m] <= v

LEMMA NewestIs ==
    ASSUME NEW d \in Copies, NEW m \in Monitor, NEW n \in Node,
           \A k \in Node : d[k][m] <= d[n][m]
    PROVE  NewestOf(d, m) = d[n][m]
<1> DEFINE S == {d[k][m] : k \in Node}
           v == NewestOf(d, m)
<1>1. d[n][m] \in S /\ S \in SUBSET Nat
  BY DEF Copies
<1>2. v \in S /\ \A k \in Node : d[k][m] <= v
  BY <1>1 DEF NewestOf
<1>3. v \in Nat /\ d[n][m] <= v
  BY <1>1, <1>2
<1>4. v <= d[n][m]
  BY <1>2
<1>5. d[n][m] \in Nat
  BY <1>1
<1>6. v = d[n][m]
  <2> HIDE DEF v
  <2> QED
    BY <1>3, <1>4, <1>5
<1> QED
  BY <1>6

LEMMA NewestSame ==
    ASSUME NEW d \in Copies, NEW e \in Copies, NEW m \in Monitor,
           \A k \in Node : d[k][m] = e[k][m]
    PROVE  NewestOf(d, m) = NewestOf(e, m)
<1>1. {d[k][m] : k \in Node} = {e[k][m] : k \in Node}
  OBVIOUS
<1>2. \A v : (\A k \in Node : d[k][m] <= v) <=> (\A k \in Node : e[k][m] <= v)
  OBVIOUS
<1> QED
  BY <1>1, <1>2 DEF NewestOf

\* The newest copies are what the promise calls the value.
Newests(d) == [m \in Monitor |-> NewestOf(d, m)]

LEMMA PromiseVars ==
    /\ [m \in Monitor |-> Newest(m)] = Newests(data)
    /\ [m \in Monitor |-> Newest(m)]' = Newests(data')
  BY DEF Newest, NewestOf, Newests

\* The steps of the promise, with its value spelt out.
LEMMA PromiseStep ==
    ASSUME \/ app' = app /\ Newests(data') = Newests(data)
           \/ \E n \in Node, m \in Monitor :
                 /\ app[n][m] = "outside"
                 /\ app' = [app EXCEPT ![n][m] = "waiting"]
                 /\ Newests(data') = Newests(data)
           \/ \E n \in Node, m \in Monitor :
                 /\ app[n][m] = "waiting"
                 /\ \A k \in Node : app[k][m] # "inside"
                 /\ app' = [app EXCEPT ![n][m] = "inside"]
                 /\ Newests(data') = [Newests(data) EXCEPT ![m] = @ + 1]
           \/ \E n \in Node, m \in Monitor :
                 /\ app[n][m] = "inside"
                 /\ app' = [app EXCEPT ![n][m] = "outside"]
                 /\ Newests(data') = Newests(data)
    PROVE  [Promise!Next]_(Promise!vars)
  BY PromiseVars DEF Promise!Next, Promise!vars, Promise!Ask, Promise!Enter, Promise!Leave

LEMMA InitPromise == Init => Promise!Init
<1> SUFFICES ASSUME Init PROVE Promise!Init
  OBVIOUS
<1>1. data \in Copies /\ 0 \in Node
  BY NAssumption DEF Init, Copies, Node
<1>2. ASSUME NEW m \in Monitor PROVE NewestOf(data, m) = 0
  <2>1. \A k \in Node : data[k][m] = 0
    BY DEF Init
  <2> QED
    BY <1>1, <2>1, NewestIs
<1>3. Newests(data) = [m \in Monitor |-> 0]
  BY <1>2 DEF Newests
<1>4. app = [n \in Node |-> [m \in Monitor |-> "outside"]]
  BY DEF Init
<1> QED
  BY <1>3, <1>4, PromiseVars DEF Promise!Init

\* The thread that was granted is the only one, and updates the newest copy.
LEMMA TakeGrantEnters ==
    ASSUME IInv, Newer, data' \in Copies, NEW n \in Node, NEW m \in Monitor, TakeGrant(n, m)
    PROVE  /\ \A k \in Node : app[k][m] # "inside"
           /\ Newests(data') = [Newests(data) EXCEPT ![m] = @ + 1]
<1>1. /\ app[n][m] = "waiting" /\ m \in granted[n]
      /\ data' = [data EXCEPT ![n][m] = @ + 1]
      /\ data \in Copies
  BY DEF TakeGrant, IInv, TypeOK, Copies
<1>2. m \in Held(n) /\ OneCarrierOf(m)
  BY <1>1 DEF IInv, GrantHoldsLock, Held, OneCarrier, Token
<1>3. ASSUME NEW k \in Node, app[k][m] = "inside" PROVE FALSE
  <2>1. m \in Held(k)
    BY <1>3 DEF IInv, GrantHoldsLock, Held
  <2>2. k = n
    BY <1>2, <2>1 DEF OneCarrierOf
  <2> QED
    BY <1>1, <1>3, <2>2
<1>4. \A k \in Node : data[k][m] <= data[n][m]
  BY <1>2 DEF Newer, HolderIsNewest, Latest
<1>5. NewestOf(data, m) = data[n][m]
  BY <1>1, <1>4, NewestIs
<1>6. /\ data'[n][m] = data[n][m] + 1
      /\ \A k \in Node : k # n => data'[k][m] = data[k][m]
      /\ \A k \in Node : data[k][m] \in Nat
      /\ \A o \in Monitor \ {m}, k \in Node : data'[k][o] = data[k][o]
  BY <1>1 DEF Copies
<1>7. \A k \in Node : data'[k][m] <= data'[n][m]
  BY <1>4, <1>6
<1>8. NewestOf(data', m) = data[n][m] + 1
  BY <1>6, <1>7, NewestIs
<1>9. ASSUME NEW o \in Monitor \ {m} PROVE NewestOf(data', o) = NewestOf(data, o)
  BY <1>1, <1>6, NewestSame
<1> QED
  BY <1>3, <1>5, <1>8, <1>9 DEF Newests

\* Loading what the token brings makes no copy newer than the newest.
LEMMA PacketGiveTokenKeeps ==
    ASSUME IInv, Newer, data' \in Copies, NEW n \in Node, NEW p \in Node, PacketGiveToken(n, p)
    PROVE  app' = app /\ Newests(data') = Newests(data)
<1> DEFINE msg == Head(net[p][n])
           o == msg.token
<1>1. CASE UNCHANGED <<app, data>>
  BY <1>1
<1>2. CASE ~UNCHANGED <<app, data>>
  <2>1. /\ app' = app /\ o \in public[n]
        /\ data' = [data EXCEPT ![n][o] = msg.value]
    BY <1>2 DEF PacketGiveToken, TakeSystemToken, TakeMonitorToken, appVars
  <2>2. /\ net[p][n] \in Seq(Message) /\ net[p][n] # <<>> /\ msg.type = "GiveToken"
        /\ data \in Copies /\ public[n] \in SUBSET Monitor
    BY DEF PacketGiveToken, Arrives, IInv, TypeOK, Copies
  <2>3. 1 \in DOMAIN net[p][n] /\ net[p][n][1] = msg
    BY <2>2
  <2>4. Carries(net, p, n, 1, o)
    BY <2>2, <2>3 DEF Carries, Gives
  <2>5. o \in Monitor
    BY <2>1, <2>2
  <2> DEFINE v == msg.value
  <2>6. (\A k \in Node : data[k][o] <= v) /\ \E k \in Node : data[k][o] = v
    BY <2>3, <2>4, <2>5 DEF Newer, PacketIsNewest, Latest
  <2> HIDE DEF v, o
  <2>7. NewestOf(data, o) = v
    BY <2>2, <2>5, <2>6, NewestIs
  <2>8. /\ data'[n][o] = v
        /\ \A k \in Node : k # n => data'[k][o] = data[k][o]
        /\ \A m \in Monitor \ {o}, k \in Node : data'[k][m] = data[k][m]
    BY <2>1, <2>2, <2>5 DEF v, Copies
  <2>9. \A k \in Node : data'[k][o] <= data'[n][o]
    <3>1. v \in Nat
      BY <2>2, <2>5, <2>6 DEF Copies
    <3> QED
      BY <2>6, <2>8, <3>1
  <2>10. NewestOf(data', o) = v
    BY <2>5, <2>8, <2>9, NewestIs
  <2>11. ASSUME NEW m \in Monitor \ {o} PROVE NewestOf(data', m) = NewestOf(data, m)
    BY <2>2, <2>8, NewestSame
  <2> QED
    BY <2>1, <2>7, <2>10, <2>11 DEF Newests
<1> QED
  BY <1>1, <1>2

LEMMA NextPromise ==
    ASSUME IInv, Newer, [Next]_vars
    PROVE  [Promise!Next]_(Promise!vars)
<1>1. data' \in Copies
  BY NextType DEF IInv, TypeOK, Copies
<1>2. CASE UNCHANGED <<app, data>>
  BY <1>2, PromiseStep
<1>3. ASSUME NEW n \in Node, NEW p \in Node, PacketGiveToken(n, p)
      PROVE  [Promise!Next]_(Promise!vars)
  BY <1>1, <1>3, PacketGiveTokenKeeps, PromiseStep
<1>4. ASSUME NEW n \in Node, NEW m \in Monitor, RequestLock(n, m)
      PROVE  [Promise!Next]_(Promise!vars)
  <2>1. /\ app[n][m] = "outside" /\ data' = data
        /\ app' = [app EXCEPT ![n][m] = "waiting"]
    BY <1>4 DEF RequestLock
  <2> QED
    BY <2>1, PromiseStep
<1>5. ASSUME NEW n \in Node, NEW m \in Monitor, TakeGrant(n, m)
      PROVE  [Promise!Next]_(Promise!vars)
  <2>1. app[n][m] = "waiting" /\ app' = [app EXCEPT ![n][m] = "inside"]
    BY <1>5 DEF TakeGrant
  <2>2. /\ \A k \in Node : app[k][m] # "inside"
        /\ Newests(data') = [Newests(data) EXCEPT ![m] = @ + 1]
    BY <1>1, <1>5, TakeGrantEnters
  <2> QED
    BY <2>1, <2>2, PromiseStep
<1>6. ASSUME NEW n \in Node, NEW m \in Monitor, RequestUnlock(n, m)
      PROVE  [Promise!Next]_(Promise!vars)
  <2>1. /\ app[n][m] = "inside" /\ data' = data
        /\ app' = [app EXCEPT ![n][m] = "outside"]
    BY <1>6 DEF RequestUnlock
  <2> QED
    BY <2>1, PromiseStep
<1>7. ASSUME NEW n \in Node, NEW p \in Node,
             \/ HandleConnect(n, p) \/ PacketClusterHandshake(n, p) \/ PacketRequestToken(n, p)
             \/ CrashInHandshake(n, p) \/ Disconnect(n, p)
      PROVE  UNCHANGED <<app, data>>
  BY <1>7 DEF HandleConnect, PacketClusterHandshake, PacketRequestToken, CrashInHandshake,
     Disconnect, appVars
<1>8. ASSUME NEW n \in Node, NEW m \in Monitor, HandleNew(n, m) PROVE UNCHANGED <<app, data>>
  BY <1>8 DEF HandleNew, appVars
<1>9. UNCHANGED vars => UNCHANGED <<app, data>>
  BY DEF vars, appVars
<1> QED
  BY <1>2, <1>3, <1>4, <1>5, <1>6, <1>7, <1>8, <1>9 DEF Next, Handle

\* What the cluster does is what DistributedMonitor promises: applications see one
\* monitor, its callers take turns, and everyone who enters finds the properties as
\* the one before left them.  Every step of every handler is a step of the promise
\* or leaves what it speaks of alone.
THEOREM Implements == Spec => ImplementsPromise
  BY InitPromise, NextPromise, IInvInvariant, NewerInvariant, PTL
  DEF Spec, ImplementsPromise, Promise!Spec

=============================================================================
