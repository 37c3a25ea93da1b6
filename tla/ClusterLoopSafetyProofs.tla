------------------------ MODULE ClusterLoopSafetyProofs ------------------------
(***************************************************************************)
(* Proofs about ClusterLoop for any number of nodes and monitors, any      *)
(* discipline of the applications, any outcome of the undefined loop and   *)
(* any number of broken connections: its types, and the safety that holds  *)
(* whatever fails and whenever applications ask for locks.  Grants are     *)
(* kept with the lock bit, a token is in one place, and so one thread at   *)
(* most is inside.                                                         *)
(***************************************************************************)
EXTENDS ClusterLoop, FiniteSetTheorems, SequenceTheorems, TLAPS

-----------------------------------------------------------------------------
(* What the operators of TokenPrivateData return.                           *)

\* A u32 plus one is a u32.
LEMMA Inc32Type == ASSUME NEW x \in RequestNumber PROVE Inc32(x) \in RequestNumber
  BY U32Assumption DEF RequestNumber, Inc32

\* A new entry is a well-formed record.
LEMMA NewAlgType == NewAlg \in Alg
<1>1. 0 \in RequestNumber
  BY U32Assumption DEF RequestNumber
<1>2. <<>> \in Seq(Node)
  OBVIOUS
<1> QED
  BY <1>1, <1>2 DEF NewAlg, Alg

\* incrementRequestNumber changes one entry of RN and nothing else.
LEMMA IncrementType ==
    ASSUME NEW a \in Alg, NEW node \in Node
    PROVE  /\ IncrementRequestNumber(a, node) \in Alg
           /\ IncrementRequestNumber(a, node).ln = a.ln
           /\ IncrementRequestNumber(a, node).queue = a.queue
<1>1. a.rn[node] \in RequestNumber
  BY DEF Alg
<1>2. Inc32(a.rn[node]) \in RequestNumber
  BY <1>1, Inc32Type
<1> QED
  BY <1>2 DEF Alg, IncrementRequestNumber

\* updateRequestNumber changes one entry of RN and nothing else.
LEMMA UpdateType ==
    ASSUME NEW a \in Alg, NEW node \in Node, NEW request \in RequestNumber
    PROVE  /\ UpdateRequestNumber(a, node, request) \in Alg
           /\ UpdateRequestNumber(a, node, request).ln = a.ln
           /\ UpdateRequestNumber(a, node, request).queue = a.queue
  BY DEF Alg, UpdateRequestNumber

\* loadProperties takes LN and the queue from the packet.
LEMMA LoadType ==
    ASSUME NEW a \in Alg, NEW ln \in [Node -> RequestNumber], NEW queue \in Seq(Node)
    PROVE  /\ LoadProperties(a, ln, queue) \in Alg
           /\ LoadProperties(a, ln, queue).ln = ln
           /\ LoadProperties(a, ln, queue).queue = queue
  BY DEF Alg, LoadProperties

\* A node set is finite, and so is every subset of it.
LEMMA NodeFinite == ASSUME NEW S \in SUBSET Node PROVE IsFiniteSet(S)
<1>1. N - 1 \in Int
  BY NAssumption
<1>2. IsFiniteSet(Node)
  BY <1>1, FS_Interval DEF Node
<1> QED
  BY <1>2, FS_Subset

\* An ordering of a finite set is a sequence over it.
LEMMA OrderingType ==
    ASSUME NEW S, IsFiniteSet(S), NEW s \in Orderings(S)
    PROVE  s \in Seq(S)
<1>1. Cardinality(S) \in Nat
  BY FS_CardinalityType
<1>2. s \in [1 .. Cardinality(S) -> S]
  BY DEF Orderings
<1> QED
  BY <1>1, <1>2

\* release leaves a well-formed record: the queue keeps what it had and is
\* extended by nodes.
LEMMA ReleasedType ==
    ASSUME NEW a \in Alg, NEW node \in Node, NEW after \in Released(a, node)
    PROVE  after \in Alg
<1> DEFINE served == [a EXCEPT !.ln[node] = a.rn[node]]
<1>1. served \in Alg
  BY DEF Alg
<1>2. PICK late \in Ascending(Latecomers(served)) :
         after = [served EXCEPT !.queue = @ \o late]
  BY DEF Released
<1>3. Latecomers(served) \in SUBSET Node
  BY DEF Latecomers
<1>4. late \in Seq(Latecomers(served))
  BY <1>2, <1>3, NodeFinite, OrderingType DEF Ascending
<1>5. late \in Seq(Node)
  BY <1>3, <1>4
<1>6. served.queue \o late \in Seq(Node)
  BY <1>1, <1>5, ConcatProperties DEF Alg
<1> QED
  BY <1>1, <1>2, <1>6 DEF Alg

\* Popping a non-empty queue yields a node and a well-formed record.
LEMMA PoppedType ==
    ASSUME NEW a \in Alg, a.queue # <<>>
    PROVE  Popped(a) \in Alg /\ Head(a.queue) \in Node
<1>1. a.queue \in Seq(Node)
  BY DEF Alg
<1>2. Tail(a.queue) \in Seq(Node) /\ Head(a.queue) \in Node
  BY <1>1, HeadTailProperties
<1> QED
  BY <1>2 DEF Popped, Alg

-----------------------------------------------------------------------------
(* The helpers of the handlers.                                             *)

Channels == [Node -> [Node -> Seq(Message)]]

\* Every set of tokens is finite.
LEMMA TokenFinite == ASSUME NEW S \in SUBSET Token PROVE IsFiniteSet(S)
<1>1. IsFiniteSet(Token)
  BY MonitorAssumption, FS_AddElement DEF Token
<1> QED
  BY <1>1, FS_Subset

\* The packets the loop sends are messages.
LEMMA MessageTypes ==
    /\ EdgeHandshakeMsg \in Message
    /\ ClusterHandshakeMsg \in Message
    /\ \A t \in Token, number \in RequestNumber : RequestTokenMsg(t, number) \in Message
    /\ \A t \in Token, a \in Alg, monitors \in SUBSET Monitor, value \in Nat :
          GiveTokenMsg(t, a, monitors, value) \in Message
  BY DEF Message, EdgeHandshakeMsg, ClusterHandshakeMsg, RequestTokenMsg, GiveTokenMsg, Alg

\* The fields of the packets that carry any.
LEMMA MessageFields ==
    ASSUME NEW msg \in Message
    PROVE  /\ msg.type = "RequestToken" => msg.token \in Token /\ msg.number \in RequestNumber
           /\ msg.type = "GiveToken" =>
                 /\ msg.token \in Token
                 /\ msg.ln \in [Node -> RequestNumber]
                 /\ msg.queue \in Seq(Node)
                 /\ msg.monitors \in SUBSET Monitor
                 /\ msg.value \in Nat
  BY DEF Message, EdgeHandshakeMsg, ClusterHandshakeMsg

\* Taking a packet leaves well-formed channels.
LEMMA ReceivedType ==
    ASSUME net \in Channels, NEW n \in Node, NEW p \in Node, net[p][n] # <<>>
    PROVE  /\ Received(n, p) \in Channels
           /\ Head(net[p][n]) \in Message
<1>1. net[p][n] \in Seq(Message)
  BY DEF Channels
<1>2. Head(net[p][n]) \in Message /\ Tail(net[p][n]) \in Seq(Message)
  BY <1>1, HeadTailProperties
<1> QED
  BY <1>2 DEF Received, Channels

\* Sending leaves well-formed channels.
LEMMA PostType ==
    ASSUME NEW w \in Channels, NEW n \in Node, NEW peers, NEW msgs \in Seq(Message)
    PROVE  Post(w, n, peers, msgs) \in Channels
<1>1. ASSUME NEW d \in Node PROVE w[n][d] \o msgs \in Seq(Message) /\ w[n][d] \in Seq(Message)
  BY ConcatProperties DEF Channels
<1> QED
  BY <1>1 DEF Post, Channels

\* Numbering requests leaves well-formed records.
LEMMA NumberedType ==
    ASSUME NEW a \in [Token -> Alg], NEW n \in Node, NEW T
    PROVE  Numbered(a, n, T) \in [Token -> Alg]
<1>1. ASSUME NEW t \in Token PROVE IncrementRequestNumber(a[t], n) \in Alg
  BY IncrementType
<1> QED
  BY <1>1 DEF Numbered

\* The requests for a set of tokens are a sequence of messages.
LEMMA RequestMsgsType ==
    ASSUME NEW a \in [Token -> Alg], NEW n \in Node, NEW T \in SUBSET Token,
           NEW order \in Orderings(T)
    PROVE  RequestMsgs(a, n, order) \in Seq(Message)
<1>1. order \in Seq(Token)
  <2>1. order \in Seq(T)
    BY TokenFinite, OrderingType
  <2> QED
    BY <2>1
<1>2. ASSUME NEW i \in 1 .. Len(order)
      PROVE  RequestTokenMsg(order[i], a[order[i]].rn[n]) \in Message
  <2>1. order[i] \in Token
    BY <1>1
  <2>2. a[order[i]].rn[n] \in RequestNumber
    BY <2>1 DEF Alg
  <2> QED
    BY <2>1, <2>2, MessageTypes
<1>3. DOMAIN order = 1 .. Len(order) /\ Len(order) \in Nat
  BY <1>1
<1> QED
  BY <1>2, <1>3 DEF RequestMsgs

\* The packet of sendToken is a message.
LEMMA TokenMsgType ==
    ASSUME NEW n \in Node, NEW t \in Token, NEW a \in Alg,
           known[n] \in SUBSET Monitor, t # SysToken => data[n][t] \in Nat
    PROVE  TokenMsg(n, t, a) \in Message
  BY MessageTypes DEF TokenMsg

-----------------------------------------------------------------------------
(* Type correctness.  It rests on the system token's entry being created    *)
(* from the beginning: packetGiveToken would otherwise register the system  *)
(* token in itself.                                                         *)

SysEntryCreated == \A n \in Node : SysToken \in private[n] => SysToken \in created[n]

\* The initial state is well typed.
LEMMA InitType == Init => TypeOK
<1> SUFFICES ASSUME Init PROVE TypeOK
  OBVIOUS
<1>1. net \in Channels
  <2>1. <<>> \in Seq(Message) /\ <<EdgeHandshakeMsg>> \in Seq(Message)
    BY MessageTypes
  <2> QED
    BY <2>1 DEF Init, Channels
<1>2. alg \in [Node -> [Token -> Alg]]
  BY NewAlgType DEF Init
<1>3. private \in [Node -> SUBSET Token] /\ created = private /\ owned = private
  BY DEF Init, Token
<1>4. started \in SUBSET Node /\ startedCluster \in SUBSET Node
  BY DEF Init
<1> QED
  BY <1>1, <1>2, <1>3, <1>4 DEF Init, TypeOK, Channels, AppState

\* requestToken leaves well-typed requests, records and channels.
LEMMA RequestTokensType ==
    ASSUME TypeOK, NEW n \in Node, NEW T \in SUBSET Token, RequestTokens(n, T)
    PROVE  /\ pendingRequests' \in [Node -> SUBSET Token]
           /\ alg' \in [Node -> [Token -> Alg]]
           /\ net' \in Channels
<1> DEFINE new == T \ pendingRequests[n]
           numbered == Numbered(alg[n], n, new)
<1>1. pendingRequests' \in [Node -> SUBSET Token]
  BY DEF RequestTokens, TypeOK
<1>2. numbered \in [Token -> Alg]
  BY NumberedType DEF TypeOK
<1>3. CASE n \in startedCluster
  <2>1. alg' \in [Node -> [Token -> Alg]]
    <3>1. alg' = [alg EXCEPT ![n] = numbered]
      BY <1>3 DEF RequestTokens
    <3>2. alg \in [Node -> [Token -> Alg]]
      BY DEF TypeOK
    <3> HIDE DEF numbered
    <3> QED
      BY <1>2, <3>1, <3>2
  <2>2. PICK order \in Orderings(new) :
           net' = Post(net, n, links[n], RequestMsgs(numbered, n, order))
    BY <1>3 DEF RequestTokens
  <2>3. RequestMsgs(numbered, n, order) \in Seq(Message)
    BY <1>2, RequestMsgsType
  <2>4. net' \in Channels
    BY <2>2, <2>3, PostType DEF TypeOK, Channels
  <2> QED
    BY <1>1, <2>1, <2>4
<1>4. CASE n \notin startedCluster
  BY <1>1, <1>4 DEF RequestTokens, TypeOK, Channels
<1> QED
  BY <1>3, <1>4

\* handleConnect preserves the types.
LEMMA HandleConnectType ==
    ASSUME TypeOK, NEW n \in Node, NEW p \in Node, HandleConnect(n, p)
    PROVE  TypeOK'
<1> DEFINE peers == links[n] \cup {p}
<1>1. Received(n, p) \in Channels
  BY ReceivedType DEF HandleConnect, Arrives, TypeOK, Channels
<1>2. <<ClusterHandshakeMsg>> \in Seq(Message)
  BY MessageTypes
<1>3. Post(Received(n, p), n, peers, <<ClusterHandshakeMsg>>) \in Channels
  BY <1>1, <1>2, PostType
<1>4. net' \in Channels
  BY <1>1, <1>3 DEF HandleConnect
<1>5. links' \in [Node -> SUBSET Node] /\ started' \in SUBSET Node
  BY DEF HandleConnect, TypeOK
<1>6. /\ private' \in [Node -> SUBSET Token]
      /\ created' \in [Node -> SUBSET Token]
      /\ owned' \in [Node -> SUBSET Token]
  <2>1. SysToken \in Token
    BY DEF Token
  <2>2. CASE UNCHANGED <<private, created, owned>>
    BY <2>2 DEF TypeOK
  <2>3. CASE /\ private' = [private EXCEPT ![n] = @ \cup {SysToken}]
             /\ created' = [created EXCEPT ![n] = @ \cup {SysToken}]
             /\ owned' = [owned EXCEPT ![n] = IF n = 0 THEN @ \cup {SysToken} ELSE @]
    BY <2>1, <2>3 DEF TypeOK
  <2> QED
    BY <2>2, <2>3 DEF HandleConnect
<1>7. known' \in [Node -> SUBSET Monitor]
  <2>1. private[n] \ {SysToken} \in SUBSET Monitor
    BY DEF TypeOK, Token
  <2> QED
    BY ZenonT(60), <2>1 DEF HandleConnect, TypeOK
<1> QED
  BY <1>4, <1>5, <1>6, <1>7
  DEF HandleConnect, TypeOK, Channels, pendingVars, appVars, faultVars

\* handleNew preserves the types.
LEMMA HandleNewType ==
    ASSUME TypeOK, NEW n \in Node, NEW m \in Monitor, HandleNew(n, m)
    PROVE  TypeOK'
<1>1. public' \in [Node -> SUBSET Monitor]
  BY DEF HandleNew, TypeOK
<1>2. /\ private' \in [Node -> SUBSET Token]
      /\ created' \in [Node -> SUBSET Token]
      /\ owned' \in [Node -> SUBSET Token]
      /\ known' \in [Node -> SUBSET Monitor]
  <2>1. CASE m \in private[n]
    BY <2>1 DEF HandleNew, TypeOK
  <2>2. CASE m \notin private[n]
    <3> DEFINE exists == Exists(n, m)
               adopts == Adopts(n, m)
    <3>1. /\ private' = [private EXCEPT ![n] = @ \cup {m}]
          /\ created' = [created EXCEPT ![n] = IF exists \/ adopts THEN @ \cup {m} ELSE @]
          /\ owned' = [owned EXCEPT ![n] = IF adopts THEN @ \cup {m} ELSE @]
          /\ known' = [known EXCEPT ![n] = IF adopts /\ n \in started THEN @ \cup {m} ELSE @]
      BY <2>2 DEF HandleNew
    <3> HIDE DEF exists, adopts
    <3>2. private' \in [Node -> SUBSET Token] /\ created' \in [Node -> SUBSET Token]
      BY <3>1 DEF TypeOK, Token
    <3>3. owned' \in [Node -> SUBSET Token] /\ known' \in [Node -> SUBSET Monitor]
      BY <3>1 DEF TypeOK, Token
    <3> QED
      BY <3>2, <3>3
  <2> QED
    BY <2>1, <2>2
<1>3. /\ pendingRequests' \in [Node -> SUBSET Token]
      /\ alg' \in [Node -> [Token -> Alg]]
      /\ net' \in Channels
  <2>1. CASE UNCHANGED <<alg, pendingRequests, net>>
    BY <2>1 DEF TypeOK, Channels
  <2>2. CASE RequestTokens(n, {SysToken})
    BY <2>2, RequestTokensType DEF Token
  <2> QED
    BY <2>1, <2>2 DEF HandleNew
<1> QED
  BY <1>1, <1>2, <1>3
  DEF HandleNew, TypeOK, Channels, nodeVars, appVars, faultVars

\* What grant changes stays well typed.
LEMMA GrantType ==
    ASSUME TypeOK, NEW n \in Node, NEW G \in SUBSET Monitor, Grant(n, G)
    PROVE  /\ pendingGrants' \in [Node -> SUBSET Monitor]
           /\ locked' \in [Node -> SUBSET Token]
           /\ granted' \in [Node -> SUBSET Monitor]
  BY DEF Grant, TypeOK, Token

\* packetClusterHandshake preserves the types.
LEMMA PacketClusterHandshakeType ==
    ASSUME TypeOK, NEW n \in Node, NEW p \in Node, PacketClusterHandshake(n, p)
    PROVE  TypeOK'
<1> DEFINE numbered == Numbered(alg[n], n, pendingRequests[n])
           due == pendingGrants[n] \cap public[n] \cap owned[n]
           completes == AllIntroduced(handshakes[n] + 1) /\ n \notin startedCluster
<1>1. Received(n, p) \in Channels
  BY ReceivedType DEF PacketClusterHandshake, Arrives, TypeOK, Channels
<1>2. handshakes' \in [Node -> Nat]
  BY DEF PacketClusterHandshake, TypeOK
<1>3. CASE completes
  <2>1. startedCluster' \in SUBSET Node
    BY <1>3 DEF PacketClusterHandshake, TypeOK
  <2>2. PICK G \in GrantOutcomes(due) : Grant(n, G)
    BY <1>3 DEF PacketClusterHandshake
  <2>3. G \in SUBSET Monitor
    BY <2>2 DEF GrantOutcomes, TypeOK
  <2>4. numbered \in [Token -> Alg]
    BY NumberedType DEF TypeOK
  <2>5. alg' \in [Node -> [Token -> Alg]]
    BY ZenonT(60), <1>3, <2>4 DEF PacketClusterHandshake, TypeOK
  <2>6. PICK order \in Orderings(pendingRequests[n]) :
           net' = Post(Received(n, p), n, links[n], RequestMsgs(numbered, n, order))
    BY <1>3 DEF PacketClusterHandshake
  <2>7. RequestMsgs(numbered, n, order) \in Seq(Message)
    BY <2>4, RequestMsgsType DEF TypeOK
  <2>8. net' \in Channels
    BY <1>1, <2>6, <2>7, PostType
  <2> QED
    BY <1>2, <2>1, <2>2, <2>3, <2>5, <2>8, GrantType
    DEF PacketClusterHandshake, TypeOK, Channels, faultVars
<1>4. CASE ~completes
  BY <1>1, <1>2, <1>4 DEF PacketClusterHandshake, TypeOK, Channels, faultVars
<1> QED
  BY <1>3, <1>4

\* The system token's handler preserves the types.
LEMMA TakeSystemTokenType ==
    ASSUME TypeOK, SysEntryCreated, NEW n \in Node, NEW p \in Node,
           Arrives(n, p, "GiveToken"), NEW msg, msg = Head(net[p][n]),
           TakeSystemToken(n, p, msg)
    PROVE  TypeOK'
<1> DEFINE fresh == private[n] \ created[n]
           found == fresh \cap msg.monitors
           adopted == fresh \ msg.monitors
           new == (found \cap pendingGrants[n]) \ pendingRequests[n]
           holds == (owned[n] \ found) \cup adopted \cup {SysToken}
           registered == msg.monitors \cup adopted
           loaded == [alg[n] EXCEPT ![SysToken] = LoadProperties(@, msg.ln, msg.queue)]
           numbered == IF n \in startedCluster THEN Numbered(loaded, n, new) ELSE loaded
           asks == IF n \in startedCluster THEN new ELSE {}
<1>1. Received(n, p) \in Channels /\ msg \in Message /\ msg.type = "GiveToken"
  BY ReceivedType DEF Arrives, TypeOK, Channels
<1>2. /\ msg.ln \in [Node -> RequestNumber]
      /\ msg.queue \in Seq(Node)
      /\ msg.monitors \in SUBSET Monitor
  BY <1>1, MessageFields
<1>3. /\ fresh \in SUBSET Token /\ adopted \in SUBSET Token
      /\ holds \in SUBSET Token /\ SysToken \in Token
      /\ new \in SUBSET Token /\ asks \in SUBSET Token
  BY DEF TypeOK, Token
<1>4. numbered \in [Token -> Alg]
  <2>1. alg[n] \in [Token -> Alg] /\ alg[n][SysToken] \in Alg
    BY <1>3 DEF TypeOK
  <2>2. loaded \in [Token -> Alg]
    BY <1>2, <2>1, LoadType
  <2> HIDE DEF loaded
  <2> QED
    BY <2>2, NumberedType
<1>5. created' \in [Node -> SUBSET Token]
  BY <1>3 DEF TakeSystemToken, TypeOK
<1>6. pendingRequests' \in [Node -> SUBSET Token]
  BY <1>3 DEF TakeSystemToken, TypeOK
<1>7. Grant(n, Grantable(n, adopted)) /\ Grantable(n, adopted) \in SUBSET Monitor
  BY DEF TakeSystemToken, Grantable, TypeOK
<1>8. PICK after \in Released(numbered[SysToken], n), order \in Orderings(asks) :
         LET asked == Post(Received(n, p), n, links[n], RequestMsgs(numbered, n, order))
         IN  IF after.queue = <<>>
             THEN /\ owned' = [owned EXCEPT ![n] = holds]
                  /\ alg' = [alg EXCEPT ![n] = [numbered EXCEPT ![SysToken] = after]]
                  /\ net' = asked
             ELSE /\ owned' = [owned EXCEPT ![n] = holds \ {SysToken}]
                  /\ alg' = [alg EXCEPT ![n] = [numbered EXCEPT ![SysToken] = Popped(after)]]
                  /\ net' = Post(asked, n, {Head(after.queue)},
                                 <<GiveTokenMsg(SysToken, Popped(after), registered, 0)>>)
  BY DEF TakeSystemToken
<1> DEFINE asked == Post(Received(n, p), n, links[n], RequestMsgs(numbered, n, order))
           give == GiveTokenMsg(SysToken, Popped(after), registered, 0)
<1>9. after \in Alg
  BY <1>3, <1>4, ReleasedType
<1>10. asked \in Channels
  <2> HIDE DEF numbered, asks
  <2>1. RequestMsgs(numbered, n, order) \in Seq(Message)
    BY <1>3, <1>4, <1>8, RequestMsgsType
  <2> QED
    BY <1>1, <2>1, PostType
<1>11. known' \in [Node -> SUBSET Monitor] /\ registered \in SUBSET Monitor
  <2>1. registered \in SUBSET Monitor
    <3>1. private[n] \ {SysToken} \in SUBSET Monitor
      BY DEF TypeOK, Token
    <3>2. SysToken \notin fresh
      BY DEF SysEntryCreated
    <3> QED
      BY <1>2, <3>1, <3>2
  <2> QED
    BY <2>1 DEF TakeSystemToken, TypeOK
<1>12. CASE after.queue = <<>>
  <2>1. /\ owned' = [owned EXCEPT ![n] = holds]
        /\ alg' = [alg EXCEPT ![n] = [numbered EXCEPT ![SysToken] = after]]
        /\ net' = asked
    BY <1>8, <1>12
  <2> HIDE DEF holds, numbered, asked
  <2>2. owned' \in [Node -> SUBSET Token]
    BY <1>3, <2>1 DEF TypeOK
  <2>3. alg' \in [Node -> [Token -> Alg]]
    BY <1>3, <1>4, <1>9, <2>1 DEF TypeOK
  <2> QED
    BY <1>5, <1>6, <1>7, <1>10, <1>11, <2>1, <2>2, <2>3, GrantType
    DEF TakeSystemToken, TypeOK, Channels, nodeVars, faultVars
<1>13. CASE after.queue # <<>>
  <2>1. /\ owned' = [owned EXCEPT ![n] = holds \ {SysToken}]
        /\ alg' = [alg EXCEPT ![n] = [numbered EXCEPT ![SysToken] = Popped(after)]]
        /\ net' = Post(asked, n, {Head(after.queue)}, <<give>>)
    BY <1>8, <1>13
  <2>2. Popped(after) \in Alg
    BY <1>9, <1>13, PoppedType
  <2>3. give \in Message
    BY <1>3, <1>11, <2>2, MessageTypes
  <2> HIDE DEF holds, numbered, asked, give
  <2>4. owned' \in [Node -> SUBSET Token]
    BY <1>3, <2>1 DEF TypeOK
  <2>5. alg' \in [Node -> [Token -> Alg]]
    BY <1>3, <1>4, <2>1, <2>2 DEF TypeOK
  <2>6. <<give>> \in Seq(Message)
    BY <2>3
  <2>7. net' \in Channels
    BY <1>10, <2>1, <2>6, PostType
  <2> QED
    BY <1>5, <1>6, <1>7, <1>11, <2>4, <2>5, <2>7, GrantType
    DEF TakeSystemToken, TypeOK, Channels, nodeVars, faultVars
<1> QED
  BY <1>12, <1>13

\* A monitor's token preserves the types.
LEMMA TakeMonitorTokenType ==
    ASSUME TypeOK, NEW n \in Node, NEW p \in Node, Arrives(n, p, "GiveToken"),
           NEW msg, msg = Head(net[p][n]), msg.token # SysToken, TakeMonitorToken(n, p, msg)
    PROVE  TypeOK'
<1>1. Received(n, p) \in Channels /\ msg \in Message /\ msg.type = "GiveToken"
  BY ReceivedType DEF Arrives, TypeOK, Channels
<1>2. /\ msg.token \in Monitor /\ msg.token \in Token
      /\ msg.ln \in [Node -> RequestNumber]
      /\ msg.queue \in Seq(Node)
      /\ msg.value \in Nat
  BY <1>1, MessageFields DEF Token
<1>3. owned' \in [Node -> SUBSET Token] /\ pendingRequests' \in [Node -> SUBSET Token]
  BY <1>2 DEF TakeMonitorToken, TypeOK
<1>4. alg' \in [Node -> [Token -> Alg]]
  <2> DEFINE loaded == LoadProperties(alg[n][msg.token], msg.ln, msg.queue)
  <2>1. alg[n][msg.token] \in Alg
    BY <1>2 DEF TypeOK
  <2>2. loaded \in Alg
    BY <1>2, <2>1, LoadType
  <2>3. alg' = [alg EXCEPT ![n][msg.token] = loaded]
    BY DEF TakeMonitorToken
  <2> HIDE DEF loaded
  <2> QED
    BY <1>2, <2>2, <2>3 DEF TypeOK
<1>5. data' \in [Node -> [Monitor -> Nat]]
  BY <1>2 DEF TakeMonitorToken, TypeOK
<1>6. Grant(n, Grantable(n, {msg.token})) /\ Grantable(n, {msg.token}) \in SUBSET Monitor
  BY <1>2 DEF TakeMonitorToken, Grantable
<1> QED
  BY <1>1, <1>3, <1>4, <1>5, <1>6, GrantType
  DEF TakeMonitorToken, TypeOK, Channels, nodeVars, faultVars

\* packetGiveToken preserves the types.
LEMMA PacketGiveTokenType ==
    ASSUME TypeOK, SysEntryCreated, NEW n \in Node, NEW p \in Node, PacketGiveToken(n, p)
    PROVE  TypeOK'
<1> DEFINE msg == Head(net[p][n])
<1>1. Arrives(n, p, "GiveToken")
  BY DEF PacketGiveToken
<1>2. CASE Unexpected(n, msg.token)
  <2>1. net' \in Channels
    BY <1>1, <1>2, ReceivedType DEF PacketGiveToken, Arrives, TypeOK, Channels
  <2> QED
    BY <1>2, <2>1 DEF PacketGiveToken, TypeOK, Channels, nodeVars, tokenVars,
                      pendingVars, appVars, faultVars
<1>3. CASE ~Unexpected(n, msg.token) /\ msg.token = SysToken
  BY <1>1, <1>3, TakeSystemTokenType DEF PacketGiveToken
<1>4. CASE ~Unexpected(n, msg.token) /\ msg.token # SysToken
  BY <1>1, <1>4, TakeMonitorTokenType DEF PacketGiveToken
<1> QED
  BY <1>2, <1>3, <1>4

\* packetRequestToken preserves the types.
LEMMA PacketRequestTokenType ==
    ASSUME TypeOK, NEW n \in Node, NEW p \in Node, PacketRequestToken(n, p)
    PROVE  TypeOK'
<1> DEFINE msg == Head(net[p][n])
           t == msg.token
           updated == UpdateRequestNumber(alg[n][t], p, msg.number)
<1>1. Received(n, p) \in Channels /\ msg \in Message /\ msg.type = "RequestToken"
  BY ReceivedType DEF PacketRequestToken, Arrives, TypeOK, Channels
<1>2. t \in Token /\ msg.number \in RequestNumber
  BY <1>1, MessageFields
<1>3. updated \in Alg
  <2>1. alg[n][t] \in Alg
    BY <1>2 DEF TypeOK
  <2> QED
    BY <1>2, <2>1, UpdateType
<1>4. <<TokenMsg(n, t, updated)>> \in Seq(Message)
  <2>1. known[n] \in SUBSET Monitor /\ (t # SysToken => data[n][t] \in Nat)
    BY <1>2 DEF TypeOK, Token
  <2>2. TokenMsg(n, t, updated) \in Message
    BY <1>2, <1>3, <2>1, TokenMsgType
  <2> QED
    BY <2>2
<1>5. net' \in Channels
  <2>1. Post(Received(n, p), n, {p}, <<TokenMsg(n, t, updated)>>) \in Channels
    BY <1>1, <1>4, PostType
  <2> QED
    BY <1>1, <2>1 DEF PacketRequestToken
<1>6. CASE n \notin started
  BY <1>5, <1>6 DEF PacketRequestToken, TypeOK, Channels, nodeVars, pendingVars,
                    appVars, faultVars
<1>7. CASE n \in started
  <2>1. private' \in [Node -> SUBSET Token] /\ created' \in [Node -> SUBSET Token]
    <3>1. /\ private' = [private EXCEPT ![n] = @ \cup {t}]
          /\ created' = [created EXCEPT ![n] = IF t \in private[n] THEN @ ELSE @ \cup {t}]
      BY <1>7 DEF PacketRequestToken
    <3> QED
      BY <1>2, <3>1 DEF TypeOK
  <2>2. alg' \in [Node -> [Token -> Alg]]
    <3>1. alg' = [alg EXCEPT ![n][t] = updated]
      BY <1>7 DEF PacketRequestToken
    <3> HIDE DEF updated
    <3> QED
      BY <1>2, <1>3, <3>1 DEF TypeOK
  <2>3. owned' \in [Node -> SUBSET Token]
    <3>1. owned' = owned \/ owned' = [owned EXCEPT ![n] = @ \ {t}]
      BY <1>7 DEF PacketRequestToken
    <3>2. owned \in [Node -> SUBSET Token]
      BY DEF TypeOK
    <3> HIDE DEF t
    <3> QED
      BY <3>1, <3>2
  <2> QED
    BY <1>5, <2>1, <2>2, <2>3 DEF PacketRequestToken, TypeOK, Channels, nodeVars,
                                  pendingVars, appVars, faultVars
<1> QED
  BY <1>6, <1>7

\* requestLock preserves the types.
LEMMA RequestLockType ==
    ASSUME TypeOK, NEW n \in Node, NEW m \in Monitor, RequestLock(n, m)
    PROVE  TypeOK'
<1>1. app' \in [Node -> [Monitor -> AppState]] /\ locks' \in [Node -> [Monitor -> Nat]]
  BY DEF RequestLock, TypeOK, AppState
<1>2. /\ pendingRequests' \in [Node -> SUBSET Token]
      /\ alg' \in [Node -> [Token -> Alg]]
      /\ net' \in Channels
  <2>1. CASE UNCHANGED <<alg, pendingRequests, net>>
    BY <2>1 DEF TypeOK, Channels
  <2>2. CASE RequestTokens(n, {m})
    BY <2>2, RequestTokensType DEF Token
  <2> QED
    BY <2>1, <2>2 DEF RequestLock, pendingVars
<1>3. /\ pendingGrants' \in [Node -> SUBSET Monitor]
      /\ locked' \in [Node -> SUBSET Token]
      /\ granted' \in [Node -> SUBSET Monitor]
  <2>1. /\ pendingGrants \in [Node -> SUBSET Monitor]
        /\ locked \in [Node -> SUBSET Token]
        /\ granted \in [Node -> SUBSET Monitor]
        /\ m \in Token
    BY DEF TypeOK, Token
  <2>2. CASE UNCHANGED <<pendingGrants, locked, granted>>
    BY <2>1, <2>2
  <2>3. CASE /\ pendingGrants' = [pendingGrants EXCEPT ![n] = @ \ {m}]
             /\ locked' = [locked EXCEPT ![n] = @ \cup {m}]
             /\ granted' = [granted EXCEPT ![n] = @ \cup {m}]
    BY <2>1, <2>3
  <2>4. CASE /\ pendingGrants' = [pendingGrants EXCEPT ![n] = @ \cup {m}]
             /\ UNCHANGED <<locked, granted>>
    BY <2>1, <2>4
  <2> QED
    BY <2>2, <2>3, <2>4 DEF RequestLock, pendingVars
<1> QED
  BY <1>1, <1>2, <1>3 DEF RequestLock, TypeOK, Channels, nodeVars, faultVars

\* takeGrant preserves the types.
LEMMA TakeGrantType ==
    ASSUME TypeOK, NEW n \in Node, NEW m \in Monitor, TakeGrant(n, m)
    PROVE  TypeOK'
<1>1. /\ granted' \in [Node -> SUBSET Monitor]
      /\ app' \in [Node -> [Monitor -> AppState]]
      /\ data' \in [Node -> [Monitor -> Nat]]
  BY DEF TakeGrant, TypeOK, AppState
<1> QED
  BY <1>1 DEF TakeGrant, TypeOK, nodeVars, tokenVars, pendingVars, faultVars

\* requestUnlock preserves the types.
LEMMA RequestUnlockType ==
    ASSUME TypeOK, NEW n \in Node, NEW m \in Monitor, RequestUnlock(n, m)
    PROVE  TypeOK'
<1>1. app' \in [Node -> [Monitor -> AppState]]
  BY DEF RequestUnlock, TypeOK, AppState
<1>2. m \in Token /\ m # SysToken
  BY MonitorAssumption DEF Token
<1>3. CASE m \notin private[n] \/ m \notin locked[n]
  BY <1>1, <1>3 DEF RequestUnlock, TypeOK, nodeVars, pendingVars, faultVars
<1>4. CASE ~(m \notin private[n] \/ m \notin locked[n])
  <2>1. /\ locked \in [Node -> SUBSET Token] /\ owned \in [Node -> SUBSET Token]
        /\ alg \in [Node -> [Token -> Alg]] /\ net \in Channels
        /\ known[n] \in SUBSET Monitor /\ data[n][m] \in Nat
    BY DEF TypeOK, Channels
  <2>2. locked' = [locked EXCEPT ![n] = @ \ {m}]
    BY <1>4 DEF RequestUnlock
  <2>3. locked' \in [Node -> SUBSET Token]
    BY <2>1, <2>2
  <2>4. PICK after \in Released(alg[n][m], n) :
           IF after.queue = <<>>
           THEN /\ alg' = [alg EXCEPT ![n][m] = after]
                /\ UNCHANGED <<owned, net>>
           ELSE /\ alg' = [alg EXCEPT ![n][m] = Popped(after)]
                /\ owned' = [owned EXCEPT ![n] = @ \ {m}]
                /\ net' = Post(net, n, {Head(after.queue)},
                               <<TokenMsg(n, m, Popped(after))>>)
    BY <1>4 DEF RequestUnlock
  <2>5. after \in Alg
    <3>1. alg[n][m] \in Alg
      BY <1>2, <2>1
    <3> QED
      BY <3>1, ReleasedType
  <2>6. CASE after.queue = <<>>
    <3>1. alg' = [alg EXCEPT ![n][m] = after] /\ owned' = owned /\ net' = net
      BY <2>4, <2>6
    <3>2. alg' \in [Node -> [Token -> Alg]]
      BY <1>2, <2>1, <2>5, <3>1
    <3> QED
      BY <1>1, <2>3, <3>1, <3>2
      DEF RequestUnlock, TypeOK, nodeVars, pendingVars, faultVars
  <2>7. CASE after.queue # <<>>
    <3> DEFINE popped == Popped(after)
               give == TokenMsg(n, m, popped)
               target == Head(after.queue)
    <3>1. /\ alg' = [alg EXCEPT ![n][m] = popped]
          /\ owned' = [owned EXCEPT ![n] = @ \ {m}]
          /\ net' = Post(net, n, {target}, <<give>>)
      BY <2>4, <2>7
    <3>2. popped \in Alg
      BY <2>5, <2>7, PoppedType
    <3>3. give \in Message
      BY <1>2, <2>1, <3>2, TokenMsgType
    <3> HIDE DEF popped, give, target
    <3>4. alg' \in [Node -> [Token -> Alg]]
      BY <1>2, <2>1, <3>1, <3>2
    <3>5. owned' \in [Node -> SUBSET Token]
      BY <2>1, <3>1
    <3>6. <<give>> \in Seq(Message)
      BY <3>3
    <3>7. net' \in Channels
      BY <2>1, <3>1, <3>6, PostType
    <3> QED
      BY <1>1, <2>3, <3>4, <3>5, <3>7
      DEF RequestUnlock, TypeOK, Channels, nodeVars, pendingVars, faultVars
  <2> QED
    BY <2>6, <2>7
<1> QED
  BY <1>3, <1>4

\* Losing packets preserves the types.
LEMMA DisconnectType ==
    ASSUME TypeOK, NEW n \in Node, NEW p \in Node, Disconnect(n, p)
    PROVE  TypeOK'
<1>1. PICK i \in 0 .. Len(net[n][p]), j \in 0 .. Len(net[p][n]) :
         net' = [net EXCEPT ![n][p] = SubSeq(@, 1, i), ![p][n] = SubSeq(@, 1, j)]
  BY DEF Disconnect
<1>2. SubSeq(net[n][p], 1, i) \in Seq(Message) /\ SubSeq(net[p][n], 1, j) \in Seq(Message)
  <2>1. net[n][p] \in Seq(Message) /\ net[p][n] \in Seq(Message)
    BY DEF TypeOK
  <2> QED
    BY <2>1, SubSeqProperties
<1>3. n # p
  <2>1. n \in Nat /\ p \in Nat /\ n < p
    BY NAssumption DEF Node, Disconnect
  <2> QED
    BY <2>1
<1>4. net' \in Channels
  BY <1>1, <1>2, <1>3 DEF TypeOK, Channels
<1>5. cut' \in SUBSET SUBSET Node
  BY ZenonT(60) DEF Disconnect, TypeOK
<1> QED
  BY <1>4, <1>5
  DEF Disconnect, TypeOK, Channels, nodeVars, tokenVars, pendingVars, appVars

\* Every step preserves the types.
LEMMA NextType == TypeOK /\ SysEntryCreated /\ [Next]_vars => TypeOK'
<1> SUFFICES ASSUME TypeOK, SysEntryCreated, [Next]_vars PROVE TypeOK'
  OBVIOUS
<1>1. CASE UNCHANGED vars
  BY <1>1 DEF vars, nodeVars, tokenVars, pendingVars, appVars, faultVars, TypeOK
<1>2. ASSUME NEW n \in Node, NEW p \in Node, Handle(n, p) PROVE TypeOK'
  BY <1>2, HandleConnectType, PacketClusterHandshakeType, PacketGiveTokenType,
     PacketRequestTokenType DEF Handle
<1>3. ASSUME NEW n \in Node, NEW p \in Node, CrashInHandshake(n, p) PROVE TypeOK'
  BY <1>3 DEF CrashInHandshake, TypeOK, nodeVars, tokenVars, pendingVars, appVars
<1>4. ASSUME NEW n \in Node, NEW p \in Node, Disconnect(n, p) PROVE TypeOK'
  BY <1>4, DisconnectType
<1>5. ASSUME NEW n \in Node, NEW m \in Monitor, HandleNew(n, m) PROVE TypeOK'
  BY <1>5, HandleNewType
<1>6. ASSUME NEW n \in Node, NEW m \in Monitor, RequestLock(n, m) PROVE TypeOK'
  BY <1>6, RequestLockType
<1>7. ASSUME NEW n \in Node, NEW m \in Monitor, TakeGrant(n, m) PROVE TypeOK'
  BY <1>7, TakeGrantType
<1>8. ASSUME NEW n \in Node, NEW m \in Monitor, RequestUnlock(n, m) PROVE TypeOK'
  BY <1>8, RequestUnlockType
<1> QED
  BY <1>1, <1>2, <1>3, <1>4, <1>5, <1>6, <1>7, <1>8 DEF Next

\* An entry of the system token is created when it is made and stays so.
LEMMA NextSysEntry == TypeOK /\ SysEntryCreated /\ [Next]_vars => SysEntryCreated'
<1> SUFFICES ASSUME TypeOK, SysEntryCreated, [Next]_vars, NEW k \in Node,
                    SysToken \in private'[k]
             PROVE  SysToken \in created'[k]
  BY DEF SysEntryCreated
<1>1. /\ private \in [Node -> SUBSET Token] /\ created \in [Node -> SUBSET Token]
      /\ SysToken \in private[k] => SysToken \in created[k]
  BY DEF SysEntryCreated, TypeOK
<1>2. CASE UNCHANGED <<private, created>>
  BY <1>1, <1>2
<1>3. CASE UNCHANGED private /\ created[k] \subseteq created'[k]
  BY <1>1, <1>3
<1>4. ASSUME NEW n \in Node, NEW p \in Node, HandleConnect(n, p)
      PROVE  SysToken \in created'[k]
  <2>1. CASE /\ private' = [private EXCEPT ![n] = @ \cup {SysToken}]
             /\ created' = [created EXCEPT ![n] = @ \cup {SysToken}]
    BY <1>1, <2>1
  <2> QED
    BY <1>2, <1>4, <2>1 DEF HandleConnect
<1>5. ASSUME NEW n \in Node, NEW p \in Node, PacketGiveToken(n, p)
      PROVE  SysToken \in created'[k]
  <2>1. CASE UNCHANGED <<private, created>>
    BY <1>2, <2>1
  <2>2. CASE TakeSystemToken(n, p, Head(net[p][n]))
    BY <1>1, <1>3, <2>2 DEF TakeSystemToken
  <2>3. CASE TakeMonitorToken(n, p, Head(net[p][n]))
    BY <1>2, <2>3 DEF TakeMonitorToken
  <2> QED
    BY <1>5, <2>1, <2>2, <2>3 DEF PacketGiveToken, tokenVars
<1>6. ASSUME NEW n \in Node, NEW p \in Node, PacketRequestToken(n, p)
      PROVE  SysToken \in created'[k]
  <2> DEFINE t == Head(net[p][n]).token
  <2>1. CASE /\ private' = [private EXCEPT ![n] = @ \cup {t}]
             /\ created' = [created EXCEPT ![n] = IF t \in private[n] THEN @ ELSE @ \cup {t}]
    <3> HIDE DEF t
    <3> QED
      BY <1>1, <2>1
  <2> QED
    BY <1>2, <1>6, <2>1 DEF PacketRequestToken
<1>7. ASSUME NEW n \in Node, NEW m \in Monitor, HandleNew(n, m)
      PROVE  SysToken \in created'[k]
  <2>1. m # SysToken
    BY MonitorAssumption
  <2> DEFINE new == Exists(n, m) \/ Adopts(n, m)
  <2>2. CASE /\ private' = [private EXCEPT ![n] = @ \cup {m}]
             /\ created' = [created EXCEPT ![n] = IF new THEN @ \cup {m} ELSE @]
    <3> HIDE DEF new
    <3> QED
      BY <1>1, <2>1, <2>2
  <2> QED
    BY <1>2, <1>7, <2>2 DEF HandleNew
<1>8. ASSUME NEW n \in Node, NEW p \in Node,
             PacketClusterHandshake(n, p) \/ CrashInHandshake(n, p) \/ Disconnect(n, p)
      PROVE  SysToken \in created'[k]
  BY <1>2, <1>8 DEF PacketClusterHandshake, CrashInHandshake, Disconnect, tokenVars
<1>9. ASSUME NEW n \in Node, NEW m \in Monitor,
             RequestLock(n, m) \/ TakeGrant(n, m) \/ RequestUnlock(n, m)
      PROVE  SysToken \in created'[k]
  BY <1>2, <1>9 DEF RequestLock, TakeGrant, RequestUnlock, tokenVars
<1>10. CASE UNCHANGED vars
  BY <1>2, <1>10 DEF vars, tokenVars
<1> QED
  BY <1>4, <1>5, <1>6, <1>7, <1>8, <1>9, <1>10 DEF Next, Handle

\* In every reachable state the variables have their types: any number of nodes
\* and monitors, any application, any failure (the handlers of cluster_loop.cpp).
THEOREM TypeCorrect == Spec => []TypeOK
<1>1. Init => TypeOK /\ SysEntryCreated
  <2>1. Init => SysEntryCreated
    BY DEF Init, SysEntryCreated
  <2> QED
    BY <2>1, InitType
<1>2. TypeOK /\ SysEntryCreated /\ [Next]_vars => (TypeOK /\ SysEntryCreated)'
  BY NextType, NextSysEntry
<1> QED
  BY <1>1, <1>2, PTL DEF Spec

-----------------------------------------------------------------------------
(* The inductive invariant.                                                 *)

\* A token is kept back by m_owned or by m_locked.
Held(n) == owned[n] \cup locked[n]

Carries(w, a, b, i, t) == i \in DOMAIN w[a][b] /\ Gives(w[a][b][i], t)

Carried(t) ==
    \/ \E n \in Node : t \in Held(n)
    \/ \E a, b \in Node : \E i \in Nat : Carries(net, a, b, i, t)

\* Whoever is in m_pendingGrants waits and was not granted yet.
PendingWaits ==
    \A n \in Node : \A m \in pendingGrants[n] :
        app[n][m] = "waiting" /\ m \notin granted[n]

\* What a node holds has an entry in m_tokenPrivate; the system token is never locked.
HeldHasEntry ==
    \A n \in Node : Held(n) \subseteq private[n] /\ SysToken \notin locked[n]

OneCarrierOf(t) ==
    /\ \A j, k \in Node : t \in Held(j) /\ t \in Held(k) => j = k
    /\ \A k, a, b \in Node : \A i \in Nat : ~(t \in Held(k) /\ Carries(net, a, b, i, t))
    /\ \A a, b, c, d \in Node : \A i, j \in Nat :
          Carries(net, a, b, i, t) /\ Carries(net, c, d, j, t) => a = c /\ b = d /\ i = j

\* Wherever the system token is, it knows m.
KnownEverywhere(m) ==
    /\ \A n \in Node : SysToken \in owned[n] => m \in known[n]
    /\ \A a, b \in Node : \A i \in Nat :
          Carries(net, a, b, i, SysToken) => m \in net[a][b][i].monitors

Registry == 0 \in started => \A m \in Monitor : Carried(m) => KnownEverywhere(m)

\* Before node 0 has started there is no system token, and every monitor that has a
\* token is in the entries of node 0, which will register them.
BeforeStart ==
    0 \notin started =>
        ~Carried(SysToken) /\ \A m \in Monitor : Carried(m) => m \in private[0]

OneCarrier == (\A t \in Token : OneCarrierOf(t)) /\ Registry /\ BeforeStart

IInv ==
    /\ TypeOK /\ SysEntryCreated
    /\ GrantHoldsLock /\ PendingWaits
    /\ HeldHasEntry
    /\ OneCarrier

-----------------------------------------------------------------------------
(* Tokens in the network.                                                   *)

Offset == [Node -> [Node -> Nat]]

Nothing == [a \in Node |-> [b \in Node |-> 0]]

Took(p, n) == [a \in Node |-> [b \in Node |-> IF a = p /\ b = n THEN 1 ELSE 0]]

\* The tokens in v are those of w that were not taken: s[a][b] packets from the
\* front of the channel from a to b.
Follows(v, w, s) ==
    \A a, b \in Node : \A i \in DOMAIN v[a][b] :
        v[a][b][i].type = "GiveToken" =>
            i + s[a][b] \in DOMAIN w[a][b] /\ w[a][b][i + s[a][b]] = v[a][b][i]

LEMMA FollowsSelf == ASSUME NEW w \in Channels PROVE Follows(w, w, Nothing) /\ Nothing \in Offset
<1>1. Nothing \in Offset
  BY DEF Nothing, Offset
<1>2. ASSUME NEW a \in Node, NEW b \in Node, NEW i \in DOMAIN w[a][b]
      PROVE  i + Nothing[a][b] = i
  <2>1. w[a][b] \in Seq(Message)
    BY DEF Channels
  <2> QED
    BY <2>1 DEF Nothing
<1> QED
  BY <1>1, <1>2 DEF Follows

\* Taking the first packet of a channel.
LEMMA FollowsReceived ==
    ASSUME net \in Channels, NEW n \in Node, NEW p \in Node, net[p][n] # <<>>
    PROVE  Follows(Received(n, p), net, Took(p, n)) /\ Took(p, n) \in Offset
<1>1. Took(p, n) \in Offset
  BY DEF Took, Offset
<1>2. ASSUME NEW a \in Node, NEW b \in Node, NEW i \in DOMAIN Received(n, p)[a][b]
      PROVE  /\ i + Took(p, n)[a][b] \in DOMAIN net[a][b]
             /\ net[a][b][i + Took(p, n)[a][b]] = Received(n, p)[a][b][i]
  <2>1. net[a][b] \in Seq(Message)
    BY DEF Channels
  <2>2. CASE a = p /\ b = n
    <3>1. Received(n, p)[a][b] = Tail(net[a][b]) /\ Took(p, n)[a][b] = 1
      BY <2>2 DEF Received, Took, Channels
    <3> QED
      BY <2>1, <2>2, <3>1
  <2>3. CASE ~(a = p /\ b = n)
    <3>1. Received(n, p)[a][b] = net[a][b] /\ Took(p, n)[a][b] = 0
      BY <2>3 DEF Received, Took, Channels
    <3> QED
      BY <2>1, <3>1
  <2> QED
    BY <2>2, <2>3
<1> QED
  BY <1>1, <1>2 DEF Follows

\* What a channel holds after sending: the old packets, then the new ones.
LEMMA PostIndex ==
    ASSUME NEW v \in Channels, NEW n \in Node, NEW peers, NEW msgs \in Seq(Message),
           NEW a \in Node, NEW b \in Node, NEW i \in DOMAIN Post(v, n, peers, msgs)[a][b]
    PROVE  \/ i \in DOMAIN v[a][b] /\ Post(v, n, peers, msgs)[a][b][i] = v[a][b][i]
           \/ /\ a = n /\ b \in peers
              /\ i - Len(v[a][b]) \in DOMAIN msgs
              /\ Post(v, n, peers, msgs)[a][b][i] = msgs[i - Len(v[a][b])]
<1>1. v[a][b] \in Seq(Message)
  BY DEF Channels
<1>2. CASE a = n /\ b \in peers /\ {n, b} \notin cut
  <2>1. Post(v, n, peers, msgs)[a][b] = v[a][b] \o msgs
    BY <1>2 DEF Post, Channels
  <2>2. i \in 1 .. Len(v[a][b]) + Len(msgs)
    BY <1>1, <2>1
  <2>3. CASE i <= Len(v[a][b])
    BY <1>1, <2>1, <2>2, <2>3
  <2>4. CASE i > Len(v[a][b])
    BY <1>1, <1>2, <2>1, <2>2, <2>4
  <2> QED
    BY <1>1, <2>2, <2>3, <2>4
<1>3. CASE ~(a = n /\ b \in peers /\ {n, b} \notin cut)
  BY <1>3 DEF Post, Channels
<1> QED
  BY <1>2, <1>3

\* Sending one packet.
LEMMA CarriesPost ==
    ASSUME NEW v \in Channels, NEW n \in Node, NEW peers, NEW msg \in Message,
           NEW msgs \in Seq(Message), DOMAIN msgs = {1}, msgs[1] = msg,
           NEW a \in Node, NEW b \in Node, NEW i \in Nat, NEW t,
           Carries(Post(v, n, peers, msgs), a, b, i, t)
    PROVE  LET there == Post(v, n, peers, msgs)[a][b][i]
           IN  \/ Carries(v, a, b, i, t) /\ there = v[a][b][i]
               \/ /\ a = n /\ b \in peers /\ i = Len(v[n][b]) + 1
                  /\ Gives(msg, t) /\ there = msg
<1> DEFINE there == Post(v, n, peers, msgs)[a][b][i]
<1>1. /\ i \in DOMAIN Post(v, n, peers, msgs)[a][b] /\ Gives(there, t)
      /\ v[a][b] \in Seq(Message)
  BY DEF Carries, Channels
<1>2. \/ i \in DOMAIN v[a][b] /\ there = v[a][b][i]
      \/ /\ a = n /\ b \in peers
         /\ i - Len(v[a][b]) \in DOMAIN msgs
         /\ there = msgs[i - Len(v[a][b])]
  BY <1>1, PostIndex
<1> HIDE DEF there
<1>3. CASE i \in DOMAIN v[a][b] /\ there = v[a][b][i]
  BY <1>1, <1>3 DEF Carries, there
<1>4. CASE /\ a = n /\ b \in peers
           /\ i - Len(v[a][b]) \in DOMAIN msgs
           /\ there = msgs[i - Len(v[a][b])]
  <2>1. i - Len(v[a][b]) = 1
    BY <1>4
  <2>2. there = msg /\ i = Len(v[n][b]) + 1
    BY <1>1, <1>4, <2>1
  <2> QED
    BY <1>1, <1>4, <2>2 DEF there
<1> QED
  BY <1>2, <1>3, <1>4

\* Sending packets that carry no token.
LEMMA FollowsPost ==
    ASSUME NEW v \in Channels, NEW w, NEW s, Follows(v, w, s), NEW n \in Node, NEW peers,
           NEW msgs \in Seq(Message), \A j \in DOMAIN msgs : msgs[j].type # "GiveToken"
    PROVE  Follows(Post(v, n, peers, msgs), w, s)
  BY PostIndex DEF Follows

\* The requests of requestToken carry no token.
LEMMA RequestsCarryNothing ==
    ASSUME NEW a, NEW n, NEW order, NEW j \in DOMAIN RequestMsgs(a, n, order)
    PROVE  RequestMsgs(a, n, order)[j].type # "GiveToken"
  BY DEF RequestMsgs, RequestTokenMsg

LEMMA FollowsRequests ==
    ASSUME NEW v \in Channels, NEW w, NEW s, Follows(v, w, s), NEW n \in Node, NEW peers,
           NEW a \in [Token -> Alg], NEW T \in SUBSET Token, NEW order \in Orderings(T)
    PROVE  /\ Follows(Post(v, n, peers, RequestMsgs(a, n, order)), w, s)
           /\ Post(v, n, peers, RequestMsgs(a, n, order)) \in Channels
<1>1. RequestMsgs(a, n, order) \in Seq(Message)
  BY RequestMsgsType
<1> QED
  BY <1>1, PostType, FollowsPost, RequestsCarryNothing

\* A step of requestToken carries no token.
LEMMA FollowsRequestTokens ==
    ASSUME TypeOK, NEW n \in Node, NEW T \in SUBSET Token, RequestTokens(n, T)
    PROVE  Follows(net', net, Nothing) /\ Nothing \in Offset
<1>1. net \in Channels /\ Follows(net, net, Nothing) /\ Nothing \in Offset
  BY FollowsSelf DEF TypeOK, Channels
<1> DEFINE new == T \ pendingRequests[n]
           numbered == Numbered(alg[n], n, new)
<1>2. CASE n \in startedCluster
  <2>1. PICK order \in Orderings(new) :
           net' = Post(net, n, links[n], RequestMsgs(numbered, n, order))
    BY <1>2 DEF RequestTokens
  <2>2. numbered \in [Token -> Alg]
    BY NumberedType DEF TypeOK
  <2>3. new \in SUBSET Token
    OBVIOUS
  <2> HIDE DEF numbered, new
  <2> QED
    BY <1>1, <2>1, <2>2, <2>3, FollowsRequests
<1>3. CASE n \notin startedCluster
  BY <1>1, <1>3 DEF RequestTokens
<1> QED
  BY <1>2, <1>3

\* A token in the network was there before.
LEMMA CarriedBefore ==
    ASSUME NEW v, NEW w, NEW s \in Offset, Follows(v, w, s), v \in Channels,
           NEW a \in Node, NEW b \in Node, NEW i \in Nat, NEW t, Carries(v, a, b, i, t)
    PROVE  /\ i + s[a][b] \in Nat
           /\ Carries(w, a, b, i + s[a][b], t)
           /\ w[a][b][i + s[a][b]] = v[a][b][i]
  BY DEF Follows, Carries, Gives, Offset

-----------------------------------------------------------------------------
(* Tokens stay, land and take off.                                          *)

\* A token whose places are a part of the old ones stays in at most one place.
LEMMA Keeps ==
    ASSUME NEW t, OneCarrierOf(t), NEW s \in Offset,
           \A a, b \in Node : \A i \in Nat : Carries(net', a, b, i, t) =>
              i + s[a][b] \in Nat /\ Carries(net, a, b, i + s[a][b], t),
           \A k \in Node : t \in Held(k)' => t \in Held(k)
    PROVE  OneCarrierOf(t)' /\ (Carried(t)' => Carried(t))
<1>1. ASSUME NEW a \in Node, NEW b \in Node, NEW c \in Node, NEW d \in Node,
             NEW i \in Nat, NEW j \in Nat,
             Carries(net', a, b, i, t), Carries(net', c, d, j, t)
      PROVE  a = c /\ b = d /\ i = j
  <2>1. /\ i + s[a][b] \in Nat /\ Carries(net, a, b, i + s[a][b], t)
        /\ j + s[c][d] \in Nat /\ Carries(net, c, d, j + s[c][d], t)
    BY <1>1
  <2>2. a = c /\ b = d /\ i + s[a][b] = j + s[c][d]
    BY <2>1 DEF OneCarrierOf
  <2>3. s[a][b] \in Nat
    BY DEF Offset
  <2> QED
    BY <2>2, <2>3
<1>2. ASSUME NEW k \in Node, NEW a \in Node, NEW b \in Node, NEW i \in Nat
      PROVE  ~(t \in Held(k)' /\ Carries(net', a, b, i, t))
  BY <1>2 DEF OneCarrierOf
<1>3. Carried(t)' => Carried(t)
  BY DEF Carried
<1>4. \A j, k \in Node : t \in Held(j)' /\ t \in Held(k)' => j = k
  BY DEF OneCarrierOf
<1> QED
  BY <1>1, <1>2, <1>3, <1>4 DEF OneCarrierOf

\* A token that a step does not touch stays.
LEMMA Stays ==
    ASSUME NEW t, OneCarrierOf(t), net' \in Channels,
           NEW s \in Offset, Follows(net', net, s),
           \A k \in Node : t \in Held(k)' => t \in Held(k)
    PROVE  OneCarrierOf(t)' /\ (Carried(t)' => Carried(t))
  BY CarriedBefore, Keeps

\* A token that only n holds, and that is not under way, is in one place.
LEMMA Lands ==
    ASSUME NEW t, NEW n \in Node,
           \A k \in Node : t \in Held(k)' => k = n,
           \A a, b \in Node : \A i \in Nat : ~Carries(net', a, b, i, t)
    PROVE  OneCarrierOf(t)'
  BY DEF OneCarrierOf

\* The first packet of a channel, once taken, is gone.
LEMMA TakenIsGone ==
    ASSUME TypeOK, NEW n \in Node, NEW p \in Node, NEW t, OneCarrierOf(t),
           net[p][n] # <<>>, Gives(Head(net[p][n]), t)
    PROVE  /\ Carries(net, p, n, 1, t) /\ net[p][n][1] = Head(net[p][n])
           /\ \A k \in Node : t \notin Held(k)
           /\ \A v \in Channels : Follows(v, net, Took(p, n)) =>
                 \A a, b \in Node : \A i \in Nat : ~Carries(v, a, b, i, t)
<1>1. net[p][n] \in Seq(Message)
  BY DEF TypeOK
<1>2. Carries(net, p, n, 1, t) /\ net[p][n][1] = Head(net[p][n])
  BY <1>1 DEF Carries
<1>3. ASSUME NEW v \in Channels, Follows(v, net, Took(p, n)),
             NEW a \in Node, NEW b \in Node, NEW i \in Nat, Carries(v, a, b, i, t)
      PROVE  FALSE
  <2>1. Took(p, n) \in Offset
    BY DEF Took, Offset
  <2>2. /\ i + Took(p, n)[a][b] \in Nat
        /\ Carries(net, a, b, i + Took(p, n)[a][b], t)
    BY <1>3, <2>1, CarriedBefore
  <2>3. a = p /\ b = n /\ i + Took(p, n)[a][b] = 1
    BY <1>2, <2>2 DEF OneCarrierOf
  <2>4. i = 0
    BY <2>3 DEF Took
  <2>5. v[a][b] \in Seq(Message)
    BY DEF Channels
  <2> QED
    BY <1>3, <2>4, <2>5 DEF Carries
<1>4. \A k \in Node : t \notin Held(k)
  BY <1>2 DEF OneCarrierOf
<1> QED
  BY <1>2, <1>3, <1>4

-----------------------------------------------------------------------------
(* Steps of which no token takes notice.                                    *)

Quiet(s) ==
    /\ Follows(net', net, s)
    /\ 0 \in started' <=> 0 \in started
    /\ private[0] \subseteq private'[0]
    /\ \A k \in Node :
          /\ Held(k)' \subseteq Held(k)
          /\ SysToken \in owned'[k] => SysToken \in owned[k] /\ known[k] \subseteq known'[k]

\* Such a step keeps every token in one place and registered.
LEMMA QuietStep ==
    ASSUME OneCarrier, net' \in Channels, NEW s \in Offset, Quiet(s)
    PROVE  OneCarrier'
<1>1. ASSUME NEW t \in Token PROVE OneCarrierOf(t)' /\ (Carried(t)' => Carried(t))
  BY Stays DEF OneCarrier, Quiet
<1>2. Registry'
  <2> SUFFICES ASSUME 0 \in started', NEW m \in Monitor, Carried(m)'
               PROVE  KnownEverywhere(m)'
    BY DEF Registry
  <2>1. KnownEverywhere(m)
    BY <1>1 DEF OneCarrier, Registry, Quiet, Token
  <2>2. ASSUME NEW k \in Node, SysToken \in owned'[k] PROVE m \in known'[k]
    BY <2>1, <2>2 DEF KnownEverywhere, Quiet
  <2>3. ASSUME NEW a \in Node, NEW b \in Node, NEW i \in Nat, Carries(net', a, b, i, SysToken)
        PROVE  m \in net'[a][b][i].monitors
    BY <2>1, <2>3, CarriedBefore DEF KnownEverywhere, Quiet
  <2> QED
    BY <2>2, <2>3 DEF KnownEverywhere
<1>3. BeforeStart'
  BY <1>1 DEF OneCarrier, BeforeStart, Quiet, Token
<1> QED
  BY <1>1, <1>2, <1>3 DEF OneCarrier

\* A node sends a token it holds: sendToken, from packetRequestToken or requestUnlock.
LEMMA Departs ==
    ASSUME TypeOK, OneCarrier, HeldHasEntry, net' \in Channels,
           NEW n \in Node, NEW d \in Node, NEW t \in Token, t \in Held(n),
           NEW s \in Offset, NEW v \in Channels, Follows(v, net, s),
           NEW msg \in Message, Gives(msg, t),
           t = SysToken => msg.monitors = known[n] /\ SysToken \in owned[n],
           net' = Post(v, n, {d}, <<msg>>),
           \A k \in Node : Held(k)' \subseteq Held(k) /\ owned'[k] \subseteq owned[k],
           t \notin Held(n)', known' = known, started' = started,
           private[0] \subseteq private'[0]
    PROVE  OneCarrier'
<1> DEFINE l == Len(v[n][d]) + 1
<1>1. ASSUME NEW a \in Node, NEW b \in Node, NEW i \in Nat, NEW u, Carries(net', a, b, i, u)
      PROVE  \/ Carries(v, a, b, i, u) /\ net'[a][b][i] = v[a][b][i]
             \/ a = n /\ b = d /\ i = l /\ u = t /\ net'[a][b][i] = msg
  <2> DEFINE msgs == <<msg>>
  <2>1. net' = Post(v, n, {d}, msgs) 
    OBVIOUS
  <2>2. msgs \in Seq(Message) /\ DOMAIN msgs = {1} /\ msgs[1] = msg
    OBVIOUS
  <2> HIDE DEF msgs
  <2> QED
    BY <1>1, <2>1, <2>2, CarriesPost DEF Gives
<1>2. ASSUME NEW a \in Node, NEW b \in Node, NEW i \in Nat, NEW u, Carries(v, a, b, i, u)
      PROVE  /\ i + s[a][b] \in Nat /\ Carries(net, a, b, i + s[a][b], u)
             /\ net[a][b][i + s[a][b]] = v[a][b][i]
  BY <1>2, CarriedBefore
<1> HIDE DEF l
<1>9. ASSUME NEW u, NEW k \in Node, u \in Held(k)' PROVE u \in Held(k)
  BY <1>9
<1>3. OneCarrierOf(t)'
  <2>1. \A k \in Node : t \notin Held(k)'
    BY <1>9 DEF OneCarrier, OneCarrierOf
  <2>2. ASSUME NEW a \in Node, NEW b \in Node, NEW i \in Nat, Carries(net', a, b, i, t)
        PROVE  a = n /\ b = d /\ i = l
    <3>1. CASE Carries(v, a, b, i, t)
      <4>1. i + s[a][b] \in Nat /\ Carries(net, a, b, i + s[a][b], t)
        BY <1>2, <3>1
      <4> QED
        BY <4>1 DEF OneCarrier, OneCarrierOf
    <3> QED
      BY <1>1, <2>2, <3>1
  <2>3. \A a, b \in Node : \A i \in Nat : Carries(net', a, b, i, t) => a = n /\ b = d /\ i = l
    BY <2>2
  <2> QED
    BY ZenonT(60), <2>1, <2>3 DEF OneCarrierOf
<1>4. ASSUME NEW u \in Token, u # t PROVE OneCarrierOf(u)' /\ (Carried(u)' => Carried(u))
  <2>1. \A a, b \in Node : \A i \in Nat : Carries(net', a, b, i, u) =>
           i + s[a][b] \in Nat /\ Carries(net, a, b, i + s[a][b], u)
    BY ZenonT(60), <1>1, <1>2, <1>4
  <2>2. OneCarrierOf(u) /\ \A k \in Node : u \in Held(k)' => u \in Held(k)
    BY <1>9 DEF OneCarrier
  <2> QED
    BY <2>1, <2>2, Keeps
<1>5. Registry'
  <2> SUFFICES ASSUME 0 \in started', NEW m \in Monitor, Carried(m)'
               PROVE  KnownEverywhere(m)'
    BY DEF Registry
  <2>1. m \in Token
    BY DEF Token
  <2>2. Carried(m)
    BY <1>4, <2>1 DEF Carried
  <2>3. KnownEverywhere(m)
    BY <2>2 DEF OneCarrier, Registry
  <2>4. ASSUME NEW k \in Node, SysToken \in owned'[k] PROVE m \in known'[k]
    BY <2>3, <2>4 DEF KnownEverywhere
  <2>5. ASSUME NEW a \in Node, NEW b \in Node, NEW i \in Nat, Carries(net', a, b, i, SysToken)
        PROVE  m \in net'[a][b][i].monitors
    <3>1. CASE Carries(v, a, b, i, SysToken) /\ net'[a][b][i] = v[a][b][i]
      BY <1>2, <2>3, <3>1 DEF KnownEverywhere
    <3>2. CASE SysToken = t /\ net'[a][b][i] = msg
      BY <2>3, <3>2 DEF KnownEverywhere
    <3> QED
      BY <1>1, <2>5, <3>1, <3>2
  <2> QED
    BY <2>4, <2>5 DEF KnownEverywhere
<1>6. BeforeStart'
  <2>1. Carried(t)
    BY DEF Carried
  <2>2. ASSUME NEW u \in Token, Carried(u)' PROVE Carried(u)
    BY <1>4, <2>1, <2>2
  <2> QED
    BY <2>2 DEF OneCarrier, BeforeStart, Token
<1> QED
  BY <1>3, <1>4, <1>5, <1>6 DEF OneCarrier

-----------------------------------------------------------------------------
(* Every action keeps every token in one place.                             *)

\* Nothing that tokens depend on changes.
LEMMA IdleCarriers ==
    ASSUME TypeOK, OneCarrier, UNCHANGED <<started, private, owned, locked, known, net>>
    PROVE  OneCarrier'
<1>1. net' \in Channels /\ Follows(net', net, Nothing) /\ Nothing \in Offset
  BY FollowsSelf DEF TypeOK, Channels
<1>2. Quiet(Nothing)
  BY <1>1 DEF Quiet, Held
<1> QED
  BY <1>1, <1>2, QuietStep

\* The channel from a to b keeps its first packets.
KeepsFront(a, b) ==
    /\ DOMAIN net'[a][b] \subseteq DOMAIN net[a][b]
    /\ \A i \in DOMAIN net'[a][b] : net'[a][b][i] = net[a][b][i]
    /\ net'[a][b] # <<>> => net[a][b] # <<>> /\ net'[a][b][1] = net[a][b][1]

\* A broken connection loses the last packets of both directions.
LEMMA DisconnectFront ==
    ASSUME net \in Channels, NEW n \in Node, NEW p \in Node, Disconnect(n, p),
           NEW a \in Node, NEW b \in Node
    PROVE  \/ net'[a][b] = net[a][b]
           \/ {b, a} = {n, p} /\ KeepsFront(a, b)
<1>1. PICK i \in 0 .. Len(net[n][p]), j \in 0 .. Len(net[p][n]) :
         net' = [net EXCEPT ![n][p] = SubSeq(@, 1, i), ![p][n] = SubSeq(@, 1, j)]
  BY DEF Disconnect
<1>2. \/ net'[a][b] = net[a][b]
      \/ {b, a} = {n, p} /\ \E l \in 0 .. Len(net[a][b]) : net'[a][b] = SubSeq(net[a][b], 1, l)
  BY <1>1 DEF Channels
<1>3. ASSUME NEW l \in 0 .. Len(net[a][b]), net'[a][b] = SubSeq(net[a][b], 1, l)
      PROVE  KeepsFront(a, b)
  <2> DEFINE q == net[a][b]
  <2>1. q \in Seq(Message)
    BY DEF Channels
  <2> HIDE DEF q
  <2>2. /\ DOMAIN SubSeq(q, 1, l) = 1 .. l /\ DOMAIN q = 1 .. Len(q) /\ Len(q) \in Nat
        /\ \A h \in 1 .. l : SubSeq(q, 1, l)[h] = q[h]
    BY <1>3, <2>1 DEF q
  <2>3. l \in Nat /\ l <= Len(q)
    BY <1>3, <2>2 DEF q
  <2>4. SubSeq(q, 1, l) # <<>> => l > 0
    BY <2>1, <2>2, <2>3
  <2>5. l > 0 => q # <<>> /\ SubSeq(q, 1, l)[1] = q[1]
    BY <2>1, <2>2, <2>3
  <2> QED
    BY <1>3, <2>2, <2>3, <2>4, <2>5 DEF KeepsFront, q
<1> QED
  BY <1>2, <1>3

\* A broken connection loses tokens, it does not copy them.
LEMMA FollowsDisconnect ==
    ASSUME net \in Channels, NEW n \in Node, NEW p \in Node, Disconnect(n, p)
    PROVE  Follows(net', net, Nothing) /\ Nothing \in Offset
<1>1. ASSUME NEW a \in Node, NEW b \in Node, NEW k \in DOMAIN net'[a][b]
      PROVE  k + 0 \in DOMAIN net[a][b] /\ net[a][b][k + 0] = net'[a][b][k]
  <2>1. k \in DOMAIN net[a][b] /\ net[a][b][k] = net'[a][b][k]
    BY DisconnectFront DEF KeepsFront
  <2>2. k + 0 = k
    <3>1. net[a][b] \in Seq(Message)
      BY DEF Channels
    <3> QED
      BY <2>1, <3>1
  <2> QED
    BY <2>1, <2>2
<1>2. Nothing \in Offset
  BY DEF Nothing, Offset
<1> QED
  BY <1>1, <1>2 DEF Follows, Nothing

LEMMA DisconnectCarriers ==
    ASSUME TypeOK, OneCarrier, NEW n \in Node, NEW p \in Node, Disconnect(n, p)
    PROVE  OneCarrier'
<1>1. net' \in Channels
  BY DisconnectType DEF TypeOK, Channels
<1>2. Follows(net', net, Nothing) /\ Nothing \in Offset
  BY FollowsDisconnect DEF TypeOK, Channels
<1>3. Quiet(Nothing)
  BY <1>2 DEF Quiet, Held, Disconnect, nodeVars, tokenVars
<1> QED
  BY <1>1, <1>2, <1>3, QuietStep

\* What grant locks was owned before.
LEMMA PacketClusterHandshakeCarriers ==
    ASSUME TypeOK, OneCarrier, NEW n \in Node, NEW p \in Node, PacketClusterHandshake(n, p)
    PROVE  OneCarrier'
<1> DEFINE numbered == Numbered(alg[n], n, pendingRequests[n])
           due == pendingGrants[n] \cap public[n] \cap owned[n]
           completes == AllIntroduced(handshakes[n] + 1) /\ n \notin startedCluster
           s == Took(p, n)
<1>1. net' \in Channels
  BY PacketClusterHandshakeType DEF TypeOK, Channels
<1>2. Follows(Received(n, p), net, s) /\ s \in Offset /\ Received(n, p) \in Channels
  BY FollowsReceived, ReceivedType DEF PacketClusterHandshake, Arrives, TypeOK, Channels
<1> HIDE DEF s
<1>3. Follows(net', net, s)
  <2>1. CASE completes
    <3>1. PICK order \in Orderings(pendingRequests[n]) :
             net' = Post(Received(n, p), n, links[n], RequestMsgs(numbered, n, order))
      BY <2>1 DEF PacketClusterHandshake
    <3>2. numbered \in [Token -> Alg] /\ pendingRequests[n] \in SUBSET Token
      BY NumberedType DEF TypeOK
    <3> HIDE DEF numbered
    <3> QED
      BY <1>2, <3>1, <3>2, FollowsRequests
  <2>2. CASE ~completes
    BY <1>2, <2>2 DEF PacketClusterHandshake
  <2> QED
    BY <2>1, <2>2
<1>4. \A k \in Node : Held(k)' \subseteq Held(k)
  <2>1. locked' = locked \/ \E G \in GrantOutcomes(due) : locked' = [locked EXCEPT ![n] = @ \cup G]
    BY DEF PacketClusterHandshake, Grant
  <2>2. \A G \in GrantOutcomes(due) : G \subseteq owned[n]
    BY DEF GrantOutcomes
  <2>3. owned' = owned /\ locked \in [Node -> SUBSET Token]
    BY DEF PacketClusterHandshake, TypeOK
  <2> HIDE DEF due
  <2> QED
    BY <2>1, <2>2, <2>3 DEF Held
<1>5. Quiet(s)
  BY <1>3, <1>4 DEF Quiet, PacketClusterHandshake
<1> QED
  BY <1>1, <1>2, <1>5, QuietStep

\* requestLock locks what the node owns.
LEMMA RequestLockCarriers ==
    ASSUME TypeOK, OneCarrier, NEW n \in Node, NEW m \in Monitor, RequestLock(n, m)
    PROVE  OneCarrier'
<1>1. net' \in Channels
  BY RequestLockType DEF TypeOK, Channels
<1>2. Follows(net', net, Nothing) /\ Nothing \in Offset
  <2>1. CASE UNCHANGED net
    BY <2>1, FollowsSelf DEF TypeOK, Channels
  <2>2. CASE RequestTokens(n, {m})
    <3>1. {m} \in SUBSET Token
      BY DEF Token
    <3> QED
      BY <2>2, <3>1, FollowsRequestTokens
  <2> QED
    BY <2>1, <2>2 DEF RequestLock
<1>3. \A k \in Node : Held(k)' \subseteq Held(k)
  <2>1. \/ locked' = locked
        \/ m \in owned[n] /\ locked' = [locked EXCEPT ![n] = @ \cup {m}]
    BY DEF RequestLock, pendingVars
  <2>2. owned' = owned /\ locked \in [Node -> SUBSET Token]
    BY DEF RequestLock, TypeOK
  <2> QED
    BY <2>1, <2>2 DEF Held
<1>4. Quiet(Nothing)
  BY <1>2, <1>3 DEF Quiet, RequestLock, nodeVars
<1> QED
  BY <1>1, <1>2, <1>4, QuietStep

\* When node 0 starts it makes the system token, and registers what has a token.
LEMMA HandleConnectCarriers ==
    ASSUME TypeOK, OneCarrier, HeldHasEntry, NEW n \in Node, NEW p \in Node, HandleConnect(n, p)
    PROVE  OneCarrier'
<1> DEFINE peers == links[n] \cup {p}
           starts == Cardinality(peers) >= N - 1 /\ n \notin started
           s == Took(p, n)
<1>1. net' \in Channels
  BY HandleConnectType DEF TypeOK, Channels
<1>2. Follows(Received(n, p), net, s) /\ s \in Offset /\ Received(n, p) \in Channels
  BY FollowsReceived, ReceivedType DEF HandleConnect, Arrives, TypeOK, Channels
<1> HIDE DEF s
<1>3. Follows(net', net, s)
  <2> DEFINE msgs == <<ClusterHandshakeMsg>>
  <2>1. msgs \in Seq(Message) /\ \A j \in DOMAIN msgs : msgs[j].type # "GiveToken"
    BY MessageTypes DEF ClusterHandshakeMsg
  <2>2. net' = Received(n, p) \/ net' = Post(Received(n, p), n, peers, msgs)
    BY DEF HandleConnect
  <2> HIDE DEF msgs, peers
  <2> QED
    BY <1>2, <2>1, <2>2, FollowsPost
<1>4. CASE starts /\ n = 0
  <2>1. /\ started' = started \cup {0} /\ 0 \notin started
        /\ owned' = [owned EXCEPT ![0] = @ \cup {SysToken}]
        /\ known' = [known EXCEPT ![0] = private[0] \ {SysToken}]
        /\ private' = [private EXCEPT ![0] = @ \cup {SysToken}]
        /\ locked' = locked
    BY <1>4 DEF HandleConnect
  <2>2. ~Carried(SysToken) /\ \A m \in Monitor : Carried(m) => m \in private[0]
    BY <2>1 DEF OneCarrier, BeforeStart
  <2>3. /\ owned \in [Node -> SUBSET Token] /\ known \in [Node -> SUBSET Monitor]
        /\ private \in [Node -> SUBSET Token]
    BY DEF TypeOK
  <2>4. \A a, b \in Node : \A i \in Nat : ~Carries(net', a, b, i, SysToken)
    BY <1>2, <1>3, <1>1, <2>2, CarriedBefore DEF Carried
  <2>5. \A k \in Node : SysToken \in Held(k)' => k = 0
    BY <2>1, <2>2, <2>3 DEF Carried, Held
  <2>6. OneCarrierOf(SysToken)'
    BY <1>4, <2>4, <2>5, Lands
  <2>7. ASSUME NEW m \in Monitor PROVE OneCarrierOf(m)' /\ (Carried(m)' => Carried(m))
    <3>1. m # SysToken /\ OneCarrierOf(m)
      BY MonitorAssumption DEF OneCarrier, Token
    <3>2. \A k \in Node : m \in Held(k)' => m \in Held(k)
      BY <2>1, <2>3, <3>1 DEF Held
    <3> QED
      BY <1>1, <1>2, <1>3, <3>1, <3>2, Stays
  <2>8. Registry'
    <3> SUFFICES ASSUME NEW m \in Monitor, Carried(m)' PROVE KnownEverywhere(m)'
      BY DEF Registry
    <3>1. m \in private[0] \ {SysToken}
      BY <2>2, <2>7, MonitorAssumption
    <3>2. ASSUME NEW k \in Node, SysToken \in owned'[k] PROVE m \in known'[k]
      <4>1. k = 0
        BY <2>5, <3>2 DEF Held
      <4> QED
        BY <1>4, <2>1, <2>3, <3>1, <4>1
    <3> QED
      BY <2>4, <3>2 DEF KnownEverywhere
  <2>9. BeforeStart'
    BY <2>1 DEF BeforeStart
  <2> QED
    BY <2>6, <2>7, <2>8, <2>9 DEF OneCarrier, Token
<1>5. CASE ~(starts /\ n = 0)
  <2>1. /\ owned' = owned /\ known' = known /\ locked' = locked
        /\ 0 \in started' <=> 0 \in started
        /\ \/ private' = private \/ private' = [private EXCEPT ![n] = @ \cup {SysToken}]
    <3>1. owned \in [Node -> SUBSET Token] /\ known \in [Node -> SUBSET Monitor]
      BY DEF TypeOK
    <3>2. CASE starts
      <4>1. /\ started' = started \cup {n}
            /\ owned' = [owned EXCEPT ![n] = @] /\ known' = [known EXCEPT ![n] = @]
        BY <1>5, <3>2 DEF HandleConnect
      <4> QED
        BY <1>5, <3>1, <3>2, <4>1 DEF HandleConnect
    <3>3. CASE ~starts
      BY <3>3 DEF HandleConnect
    <3> QED
      BY <3>2, <3>3
  <2>2. 0 \in Node /\ private \in [Node -> SUBSET Token]
    BY NAssumption DEF Node, TypeOK
  <2>3. Quiet(s)
    BY <1>3, <2>1, <2>2 DEF Quiet, Held
  <2> QED
    BY <1>1, <1>2, <2>3, QuietStep
<1> QED
  BY <1>4, <1>5

\* handleNew makes a token only for a monitor that has none.
LEMMA HandleNewCarriers ==
    ASSUME TypeOK, OneCarrier, HeldHasEntry, NEW n \in Node, NEW m \in Monitor, HandleNew(n, m)
    PROVE  OneCarrier'
<1> DEFINE adopts == Adopts(n, m)
           exists == Exists(n, m)
<1>1. net' \in Channels /\ m \in Token /\ m # SysToken /\ {SysToken} \in SUBSET Token
  BY HandleNewType, MonitorAssumption DEF TypeOK, Channels, Token
<1>2. /\ owned \in [Node -> SUBSET Token] /\ known \in [Node -> SUBSET Monitor]
      /\ private \in [Node -> SUBSET Token] /\ 0 \in Node
  <2>1. 0 \in Node
    BY NAssumption DEF Node
  <2> QED
    BY <2>1 DEF TypeOK
<1>3. CASE m \in private[n]
  BY <1>3, IdleCarriers DEF HandleNew, nodeVars
<1>4. CASE m \notin private[n] /\ ~adopts
  <2>1. /\ private' = [private EXCEPT ![n] = @ \cup {m}]
        /\ owned' = [owned EXCEPT ![n] = @] /\ known' = [known EXCEPT ![n] = @]
        /\ locked' = locked /\ started' = started
        /\ net' = net \/ RequestTokens(n, {SysToken})
    BY <1>4 DEF HandleNew, nodeVars
  <2>2. Follows(net', net, Nothing) /\ Nothing \in Offset
    BY <1>1, <2>1, FollowsSelf, FollowsRequestTokens DEF TypeOK, Channels
  <2>3. Quiet(Nothing)
    BY <1>2, <2>1, <2>2 DEF Quiet, Held
  <2> QED
    BY <1>1, <2>2, <2>3, QuietStep
<1>5. CASE m \notin private[n] /\ adopts
  <2>1. /\ private' = [private EXCEPT ![n] = @ \cup {m}]
        /\ owned' = [owned EXCEPT ![n] = @ \cup {m}]
        /\ known' = [known EXCEPT ![n] = IF n \in started THEN @ \cup {m} ELSE @]
        /\ locked' = locked /\ started' = started /\ net' = net
    BY <1>5 DEF HandleNew, nodeVars
  <2>2. /\ 0 \in started => SysToken \in owned[n] /\ m \notin known[n] /\ n \in started
        /\ 0 \notin started => n = 0
    <3>1. SysToken \in owned[n] => 0 \in started
      BY DEF OneCarrier, BeforeStart, Carried, Held
    <3> QED
      BY <1>5, <3>1 DEF Adopts, Exists
  <2>3. ~Carried(m)
    <3>1. CASE 0 \in started
      BY <2>2, <3>1 DEF OneCarrier, Registry, KnownEverywhere
    <3>2. CASE 0 \notin started
      BY <1>5, <2>2, <3>2 DEF OneCarrier, BeforeStart
    <3> QED
      BY <3>1, <3>2
  <2>4. OneCarrierOf(m)'
    <3>1. \A k \in Node : m \in Held(k)' => k = n
      BY <1>2, <2>1, <2>3 DEF Carried, Held
    <3>2. \A a, b \in Node : \A i \in Nat : ~Carries(net', a, b, i, m)
      BY <2>1, <2>3 DEF Carried
    <3> QED
      BY <3>1, <3>2, Lands
  <2>5. ASSUME NEW t \in Token, t # m PROVE OneCarrierOf(t)' /\ (Carried(t)' => Carried(t))
    <3>1. \A k \in Node : t \in Held(k)' => t \in Held(k)
      BY <1>2, <2>1, <2>5 DEF Held
    <3>2. Follows(net', net, Nothing) /\ Nothing \in Offset
      BY <1>1, <2>1, FollowsSelf
    <3> QED
      BY <1>1, <3>1, <3>2, Stays DEF OneCarrier
  <2>6. Registry'
    <3> SUFFICES ASSUME 0 \in started, NEW o \in Monitor, Carried(o)'
                 PROVE  KnownEverywhere(o)'
      BY <2>1 DEF Registry
    <3>1. SysToken \in owned[n] /\ n \in started /\ OneCarrierOf(SysToken)
      BY <2>2 DEF OneCarrier, Token
    <3>2. o # m => KnownEverywhere(o)
      BY <2>5 DEF OneCarrier, Registry, Token
    <3>3. ASSUME NEW k \in Node, SysToken \in owned'[k] PROVE o \in known'[k]
      <4>1. k = n
        BY <1>1, <1>2, <2>1, <3>1, <3>3 DEF OneCarrierOf, Held
      <4> QED
        BY <1>2, <2>1, <3>1, <3>2, <4>1 DEF KnownEverywhere
    <3>4. \A a, b \in Node : \A i \in Nat : ~Carries(net', a, b, i, SysToken)
      BY <2>1, <3>1 DEF OneCarrierOf, Held
    <3> QED
      BY <3>3, <3>4 DEF KnownEverywhere
  <2>7. BeforeStart'
    <3> SUFFICES ASSUME 0 \notin started
                 PROVE  ~Carried(SysToken)' /\ \A o \in Monitor : Carried(o)' => o \in private'[0]
      BY <2>1 DEF BeforeStart
    <3>1. ~Carried(SysToken)'
      BY <1>1, <2>5 DEF OneCarrier, BeforeStart
    <3>2. ASSUME NEW o \in Monitor, Carried(o)' PROVE o \in private'[0]
      BY <1>2, <2>1, <2>2, <2>5, <3>2 DEF OneCarrier, BeforeStart, Token
    <3> QED
      BY <3>1, <3>2
  <2> QED
    BY <2>4, <2>5, <2>6, <2>7 DEF OneCarrier
<1> QED
  BY <1>3, <1>4, <1>5

\* A monitor's token arrives: from now on the node holds it.
LEMMA TakeMonitorTokenCarriers ==
    ASSUME TypeOK, OneCarrier, NEW n \in Node, NEW p \in Node, Arrives(n, p, "GiveToken"),
           NEW msg, msg = Head(net[p][n]), msg.token # SysToken, TakeMonitorToken(n, p, msg)
    PROVE  OneCarrier'
<1> DEFINE m == msg.token
<1>1. net' \in Channels /\ m \in Monitor /\ m \in Token /\ SysToken \in Token
  <2>1. msg \in Message /\ msg.type = "GiveToken"
    BY ReceivedType DEF Arrives, TypeOK, Channels
  <2> QED
    BY <2>1, MessageFields, TakeMonitorTokenType DEF TypeOK, Channels, Token
<1>2. Follows(net', net, Took(p, n)) /\ Took(p, n) \in Offset
  BY FollowsReceived DEF TakeMonitorToken, Arrives, TypeOK, Channels
<1>3. /\ owned' = [owned EXCEPT ![n] = @ \cup {m}]
      /\ known' = known /\ started' = started /\ private' = private
      /\ \E G \in SUBSET {m} : locked' = [locked EXCEPT ![n] = @ \cup G]
      /\ owned \in [Node -> SUBSET Token] /\ locked \in [Node -> SUBSET Token]
  BY DEF TakeMonitorToken, Grant, Grantable, nodeVars, TypeOK
<1>4. /\ Carries(net, p, n, 1, m)
      /\ \A k \in Node : m \notin Held(k)
      /\ \A a, b \in Node : \A i \in Nat : ~Carries(net', a, b, i, m)
  <2>1. OneCarrierOf(m) /\ net[p][n] # <<>> /\ Gives(Head(net[p][n]), m)
    BY <1>1 DEF OneCarrier, Arrives, Gives
  <2> QED
    BY <1>1, <1>2, <2>1, TakenIsGone
<1> HIDE DEF m
<1>5. OneCarrierOf(m)'
  <2>1. \A k \in Node : m \in Held(k)' => k = n
    BY <1>3, <1>4 DEF Held
  <2> QED
    BY <1>4, <2>1, Lands
<1>6. ASSUME NEW t \in Token, t # m PROVE OneCarrierOf(t)' /\ (Carried(t)' => Carried(t))
  <2>1. \A k \in Node : t \in Held(k)' => t \in Held(k)
    BY <1>3, <1>6 DEF Held
  <2> QED
    BY <1>1, <1>2, <2>1, Stays DEF OneCarrier
<1>7. ASSUME NEW t \in Token, Carried(t)' PROVE Carried(t)
  BY <1>4, <1>6, <1>7 DEF Carried
<1>8. Registry'
  <2> SUFFICES ASSUME 0 \in started, NEW o \in Monitor, Carried(o)' PROVE KnownEverywhere(o)'
    BY <1>3 DEF Registry
  <2>1. KnownEverywhere(o) /\ m # SysToken
    BY <1>1, <1>7, MonitorAssumption DEF OneCarrier, Registry, Token
  <2>2. \A k \in Node : SysToken \in owned'[k] => o \in known'[k]
    BY <1>3, <2>1 DEF KnownEverywhere
  <2>3. ASSUME NEW a \in Node, NEW b \in Node, NEW i \in Nat, Carries(net', a, b, i, SysToken)
        PROVE  o \in net'[a][b][i].monitors
    BY <1>1, <1>2, <2>1, <2>3, CarriedBefore DEF KnownEverywhere
  <2> QED
    BY <2>2, <2>3 DEF KnownEverywhere
<1>9. BeforeStart'
  BY <1>1, <1>3, <1>7 DEF OneCarrier, BeforeStart, Token
<1> QED
  BY <1>5, <1>6, <1>8, <1>9 DEF OneCarrier

\* The system token arrives.  What it does not know has no token, and is registered
\* before it moves on.
LEMMA TakeSystemTokenCarriers ==
    ASSUME TypeOK, SysEntryCreated, OneCarrier, HeldHasEntry, NEW n \in Node, NEW p \in Node,
           Arrives(n, p, "GiveToken"), NEW msg, msg = Head(net[p][n]),
           msg.token = SysToken, TakeSystemToken(n, p, msg)
    PROVE  OneCarrier'
<1> DEFINE fresh == private[n] \ created[n]
           found == fresh \cap msg.monitors
           adopted == fresh \ msg.monitors
           new == (found \cap pendingGrants[n]) \ pendingRequests[n]
           holds == (owned[n] \ found) \cup adopted \cup {SysToken}
           registered == msg.monitors \cup adopted
           loaded == [alg[n] EXCEPT ![SysToken] = LoadProperties(@, msg.ln, msg.queue)]
           numbered == IF n \in startedCluster THEN Numbered(loaded, n, new) ELSE loaded
           asks == IF n \in startedCluster THEN new ELSE {}
           s == Took(p, n)
<1>1. /\ Received(n, p) \in Channels /\ msg \in Message /\ msg.type = "GiveToken"
      /\ Follows(Received(n, p), net, s) /\ s \in Offset
  BY ReceivedType, FollowsReceived DEF Arrives, TypeOK, Channels
<1>2. net' \in Channels /\ SysToken \in Token /\ SysToken \notin Monitor
  BY TakeSystemTokenType, MonitorAssumption DEF TypeOK, Channels, Token
<1>3. /\ msg.ln \in [Node -> RequestNumber] /\ msg.queue \in Seq(Node)
      /\ msg.monitors \in SUBSET Monitor
      /\ asks \in SUBSET Token /\ new \in SUBSET Token
      /\ adopted \in SUBSET Monitor
  <2>1. private[n] \ {SysToken} \in SUBSET Monitor
    BY DEF TypeOK, Token
  <2>2. SysToken \notin fresh
    BY DEF SysEntryCreated
  <2> QED
    BY <1>1, <2>1, <2>2, MessageFields DEF TypeOK
<1>4. numbered \in [Token -> Alg]
  <2>1. alg[n] \in [Token -> Alg] /\ alg[n][SysToken] \in Alg
    BY <1>2 DEF TypeOK
  <2>2. loaded \in [Token -> Alg]
    BY <1>2, <1>3, <2>1, LoadType
  <2> HIDE DEF loaded
  <2> QED
    BY <2>2, NumberedType
<1>5. PICK after \in Released(numbered[SysToken], n), order \in Orderings(asks) :
         LET asked == Post(Received(n, p), n, links[n], RequestMsgs(numbered, n, order))
         IN  IF after.queue = <<>>
             THEN /\ owned' = [owned EXCEPT ![n] = holds]
                  /\ alg' = [alg EXCEPT ![n] = [numbered EXCEPT ![SysToken] = after]]
                  /\ net' = asked
             ELSE /\ owned' = [owned EXCEPT ![n] = holds \ {SysToken}]
                  /\ alg' = [alg EXCEPT ![n] = [numbered EXCEPT ![SysToken] = Popped(after)]]
                  /\ net' = Post(asked, n, {Head(after.queue)},
                                 <<GiveTokenMsg(SysToken, Popped(after), registered, 0)>>)
  BY DEF TakeSystemToken
<1> DEFINE asked == Post(Received(n, p), n, links[n], RequestMsgs(numbered, n, order))
           give == GiveTokenMsg(SysToken, Popped(after), registered, 0)
           target == Head(after.queue)
<1>6. asked \in Channels /\ Follows(asked, net, s)
  <2> HIDE DEF numbered, asks, s
  <2> QED
    BY <1>1, <1>3, <1>4, <1>5, FollowsRequests
<1>7. /\ known' = [known EXCEPT ![n] = registered]
      /\ started' = started /\ private' = private
      /\ \E G \in SUBSET adopted : locked' = [locked EXCEPT ![n] = @ \cup G]
      /\ owned \in [Node -> SUBSET Token] /\ locked \in [Node -> SUBSET Token]
      /\ known \in [Node -> SUBSET Monitor]
  BY DEF TakeSystemToken, Grant, Grantable, nodeVars, TypeOK
<1>8. /\ Carries(net, p, n, 1, SysToken) /\ net[p][n][1] = msg
      /\ \A k \in Node : SysToken \notin Held(k)
      /\ \A a, b \in Node : \A i \in Nat : ~Carries(asked, a, b, i, SysToken)
  <2>1. OneCarrierOf(SysToken) /\ net[p][n] # <<>> /\ Gives(Head(net[p][n]), SysToken)
    BY <1>1, <1>2 DEF OneCarrier, Arrives, Gives
  <2> HIDE DEF asked
  <2> QED
    BY <1>6, <2>1, TakenIsGone
<1>9. ASSUME NEW m \in adopted PROVE ~Carried(m)
  <2>1. 0 \in started
    BY <1>8 DEF OneCarrier, BeforeStart, Carried
  <2>2. ~KnownEverywhere(m)
    BY <1>8 DEF KnownEverywhere
  <2> QED
    BY <1>3, <2>1, <2>2 DEF OneCarrier, Registry
<1>10. \/ /\ owned' = [owned EXCEPT ![n] = holds] /\ net' = asked
       \/ /\ owned' = [owned EXCEPT ![n] = holds \ {SysToken}]
          /\ net' = Post(asked, n, {target}, <<give>>)
  BY <1>5
<1>11. give \in Message \/ net' = asked
  <2>1. CASE after.queue = <<>>
    BY <1>5, <2>1
  <2>2. CASE after.queue # <<>>
    <3> HIDE DEF numbered
    <3>1. Popped(after) \in Alg
      BY <1>2, <1>4, <1>5, <2>2, ReleasedType, PoppedType
    <3> QED
      BY <1>2, <1>3, <3>1, MessageTypes
  <2> QED
    BY <2>1, <2>2
<1>19. give.token = SysToken /\ give.monitors = registered
  BY DEF GiveTokenMsg
<1> DEFINE l == Len(asked[n][target]) + 1
<1> HIDE DEF asked, numbered, asks, s, fresh, new, target, give, loaded, found
<1>12. ASSUME NEW a \in Node, NEW b \in Node, NEW i \in Nat, NEW t, Carries(net', a, b, i, t)
       PROVE  \/ Carries(asked, a, b, i, t) /\ net'[a][b][i] = asked[a][b][i]
              \/ /\ a = n /\ b = target /\ i = l /\ t = SysToken
                 /\ net'[a][b][i] = give /\ net' # asked
  <2>1. CASE net' = asked
    BY <1>12, <2>1
  <2>2. CASE net' # asked
    <3> DEFINE gives == <<give>>
    <3>1. net' = Post(asked, n, {target}, gives) /\ give \in Message
      BY <1>10, <1>11, <2>2
    <3>2. gives \in Seq(Message) /\ DOMAIN gives = {1} /\ gives[1] = give
      BY <3>1
    <3> HIDE DEF gives
    <3> QED
      BY <1>6, <1>12, <1>19, <2>2, <3>1, <3>2, CarriesPost DEF Gives
  <2> QED
    BY <2>1, <2>2
<1> HIDE DEF l
<1>13. ASSUME NEW k \in Node, NEW t \in Token, t \in Held(k)'
       PROVE  t \in Held(k) \/ (k = n /\ (t \in adopted \/ t = SysToken))
  <2>1. holds \subseteq owned[n] \cup adopted \cup {SysToken}
    OBVIOUS
  <2> HIDE DEF holds
  <2>2. owned'[k] \subseteq IF k = n THEN holds ELSE owned[k]
    BY <1>7, <1>10
  <2>3. locked'[k] \subseteq IF k = n THEN locked[k] \cup adopted ELSE locked[k]
    BY <1>7
  <2> QED
    BY <1>13, <2>1, <2>2, <2>3 DEF Held
<1>14. OneCarrierOf(SysToken)' /\ \A k \in Node : SysToken \in Held(k)' => k = n
  <2>1. \A k \in Node : SysToken \in Held(k)' => k = n
    BY <1>2, <1>8, <1>13
  <2>2. CASE net' = asked
    BY <1>8, <2>1, <2>2, Lands
  <2>3. CASE net' # asked
    <3>1. owned' = [owned EXCEPT ![n] = holds \ {SysToken}]
      BY <1>10, <2>3
    <3>2. \A k \in Node : SysToken \notin Held(k)'
      BY <1>2, <1>3, <1>7, <1>8, <2>1, <3>1 DEF Held
    <3>3. ASSUME NEW a \in Node, NEW b \in Node, NEW i \in Nat, Carries(net', a, b, i, SysToken)
          PROVE  a = n /\ b = target /\ i = l
      BY <1>8, <1>12, <3>3
    <3> QED
      BY <2>1, <3>2, <3>3 DEF OneCarrierOf
  <2> QED
    BY <2>1, <2>2, <2>3
<1>15. ASSUME NEW m \in adopted PROVE OneCarrierOf(m)'
  <2>1. m \in Token /\ m # SysToken /\ ~Carried(m)
    BY <1>2, <1>3, <1>9 DEF Token
  <2>2. \A k \in Node : m \in Held(k)' => k = n
    BY <1>13, <2>1 DEF Carried
  <2>3. \A a, b \in Node : \A i \in Nat : ~Carries(net', a, b, i, m)
    BY <1>1, <1>6, <1>12, <2>1, CarriedBefore DEF Carried
  <2> QED
    BY <2>2, <2>3, Lands
<1>16. ASSUME NEW m \in Monitor, m \notin adopted
       PROVE  OneCarrierOf(m)' /\ (Carried(m)' => Carried(m))
  <2>1. m \in Token /\ m # SysToken /\ OneCarrierOf(m)
    BY <1>2 DEF OneCarrier, Token
  <2>2. \A a, b \in Node : \A i \in Nat : Carries(net', a, b, i, m) =>
           i + s[a][b] \in Nat /\ Carries(net, a, b, i + s[a][b], m)
    BY <1>1, <1>6, <1>12, <2>1, CarriedBefore
  <2>3. \A k \in Node : m \in Held(k)' => m \in Held(k)
    BY <1>13, <1>16, <2>1
  <2> QED
    BY <1>1, <2>1, <2>2, <2>3, Keeps
<1>17. Registry'
  <2> SUFFICES ASSUME 0 \in started, NEW m \in Monitor, Carried(m)' PROVE KnownEverywhere(m)'
    BY <1>7 DEF Registry
  <2>1. m \in registered
    <3>1. CASE m \notin adopted
      <4>1. KnownEverywhere(m)
        BY <1>16, <3>1 DEF OneCarrier, Registry
      <4> QED
        BY <1>8, <4>1 DEF KnownEverywhere
    <3> QED
      BY <3>1
  <2>2. ASSUME NEW k \in Node, SysToken \in owned'[k] PROVE m \in known'[k]
    <3>1. k = n
      BY <1>14, <2>2 DEF Held
    <3> QED
      BY <1>7, <2>1, <3>1
  <2>3. ASSUME NEW a \in Node, NEW b \in Node, NEW i \in Nat, Carries(net', a, b, i, SysToken)
        PROVE  m \in net'[a][b][i].monitors
    BY <1>8, <1>12, <1>19, <2>1, <2>3
  <2> QED
    BY <2>2, <2>3 DEF KnownEverywhere
<1>18. BeforeStart'
  BY <1>7, <1>8 DEF OneCarrier, BeforeStart, Carried
<1> QED
  BY <1>14, <1>15, <1>16, <1>17, <1>18 DEF OneCarrier, Token

\* packetGiveToken: what the early returns throw away is lost, not copied.
LEMMA PacketGiveTokenCarriers ==
    ASSUME TypeOK, SysEntryCreated, OneCarrier, HeldHasEntry,
           NEW n \in Node, NEW p \in Node, PacketGiveToken(n, p)
    PROVE  OneCarrier'
<1> DEFINE msg == Head(net[p][n])
           s == Took(p, n)
<1>1. Arrives(n, p, "GiveToken")
  BY DEF PacketGiveToken
<1>2. CASE Unexpected(n, msg.token)
  <2>1. /\ net' = Received(n, p)
        /\ UNCHANGED <<nodeVars, tokenVars>>
    BY <1>2 DEF PacketGiveToken
  <2>2. net' \in Channels /\ Follows(net', net, s) /\ s \in Offset
    BY <1>1, <2>1, FollowsReceived, ReceivedType DEF Arrives, TypeOK, Channels
  <2> HIDE DEF s
  <2>3. Quiet(s)
    BY <2>1, <2>2 DEF Quiet, Held, nodeVars, tokenVars
  <2> QED
    BY <2>2, <2>3, QuietStep
<1>3. CASE ~Unexpected(n, msg.token) /\ msg.token = SysToken
  <2>1. TakeSystemToken(n, p, msg)
    BY <1>3 DEF PacketGiveToken
  <2> QED
    BY <1>1, <1>3, <2>1, TakeSystemTokenCarriers
<1>4. CASE ~Unexpected(n, msg.token) /\ msg.token # SysToken
  <2>1. TakeMonitorToken(n, p, msg)
    BY <1>4 DEF PacketGiveToken
  <2> QED
    BY <1>1, <1>4, <2>1, TakeMonitorTokenCarriers
<1> QED
  BY <1>2, <1>3, <1>4

\* packetRequestToken: the token leaves a node that holds it, or stays.
LEMMA PacketRequestTokenCarriers ==
    ASSUME TypeOK, OneCarrier, HeldHasEntry, NEW n \in Node, NEW p \in Node,
           PacketRequestToken(n, p)
    PROVE  OneCarrier'
<1> DEFINE req == Head(net[p][n])
           t == req.token
           updated == UpdateRequestNumber(alg[n][t], p, req.number)
           give == TokenMsg(n, t, updated)
           s == Took(p, n)
<1>1. /\ Received(n, p) \in Channels /\ req \in Message /\ req.type = "RequestToken"
      /\ Follows(Received(n, p), net, s) /\ s \in Offset
  BY ReceivedType, FollowsReceived DEF PacketRequestToken, Arrives, TypeOK, Channels
<1>2. t \in Token /\ req.number \in RequestNumber
  BY <1>1, MessageFields
<1>3. net' \in Channels
  BY PacketRequestTokenType DEF TypeOK, Channels
<1>4. /\ started' = started /\ known' = known /\ locked' = locked
      /\ \A k \in Node : private[k] \subseteq private'[k]
  <2>1. private' = private \/ private' = [private EXCEPT ![n] = @ \cup {t}]
    BY DEF PacketRequestToken
  <2>2. private \in [Node -> SUBSET Token]
    BY DEF TypeOK
  <2> QED
    BY <2>1, <2>2 DEF PacketRequestToken, nodeVars
<1>5. 0 \in Node
  BY NAssumption DEF Node
<1>6. CASE n \in started /\ Serves(n, t, p, updated)
  <2>1. updated \in Alg
    BY <1>2, UpdateType DEF TypeOK
  <2>2. give \in Message
    <3>1. known[n] \in SUBSET Monitor /\ (t # SysToken => data[n][t] \in Nat)
      BY <1>2 DEF TypeOK, Token
    <3> QED
      BY <1>2, <2>1, <3>1, TokenMsgType
  <2>3. Gives(give, t) /\ (t = SysToken => give.monitors = known[n])
    BY DEF TokenMsg, GiveTokenMsg, Gives
  <2>4. /\ owned' = [owned EXCEPT ![n] = @ \ {t}]
        /\ net' = Post(Received(n, p), n, {p}, <<give>>)
        /\ t \in owned[n] /\ t \notin locked[n]
        /\ owned \in [Node -> SUBSET Token]
    BY <1>6 DEF PacketRequestToken, Serves, TypeOK
  <2> HIDE DEF give, s, updated, t
  <2>5. /\ \A k \in Node : Held(k)' \subseteq Held(k) /\ owned'[k] \subseteq owned[k]
        /\ t \in Held(n) /\ t \notin Held(n)'
    BY <1>4, <2>4 DEF Held
  <2> QED
    BY <1>1, <1>2, <1>3, <1>4, <1>5, <2>2, <2>3, <2>4, <2>5, Departs
<1>7. CASE ~(n \in started /\ Serves(n, t, p, updated))
  <2>1. owned' = owned /\ net' = Received(n, p)
    BY <1>7 DEF PacketRequestToken
  <2> HIDE DEF s
  <2>2. Quiet(s)
    BY <1>1, <1>4, <1>5, <2>1 DEF Quiet, Held
  <2> QED
    BY <1>1, <1>3, <2>2, QuietStep
<1> QED
  BY <1>6, <1>7

\* requestUnlock: the token leaves a node that was inside, or stays.
LEMMA RequestUnlockCarriers ==
    ASSUME TypeOK, OneCarrier, HeldHasEntry, NEW n \in Node, NEW m \in Monitor,
           RequestUnlock(n, m)
    PROVE  OneCarrier'
<1>1. m \in Token /\ m # SysToken /\ 0 \in Node
  BY MonitorAssumption, NAssumption DEF Token, Node
<1>2. net' \in Channels /\ net \in Channels
  BY RequestUnlockType DEF TypeOK, Channels
<1>3. /\ started' = started /\ known' = known /\ private' = private
      /\ owned \in [Node -> SUBSET Token] /\ locked \in [Node -> SUBSET Token]
  BY DEF RequestUnlock, nodeVars, TypeOK
<1>4. Follows(net, net, Nothing) /\ Nothing \in Offset
  BY <1>2, FollowsSelf
<1>5. CASE owned' = owned /\ net' = net
  <2>1. locked' = locked \/ locked' = [locked EXCEPT ![n] = @ \ {m}]
    BY DEF RequestUnlock
  <2>2. Quiet(Nothing)
    BY <1>3, <1>4, <1>5, <2>1 DEF Quiet, Held
  <2> QED
    BY <1>2, <1>4, <2>2, QuietStep
<1>6. CASE ~(owned' = owned /\ net' = net)
  <2>1. PICK after \in Released(alg[n][m], n) :
           /\ after.queue # <<>>
           /\ owned' = [owned EXCEPT ![n] = @ \ {m}]
           /\ net' = Post(net, n, {Head(after.queue)}, <<TokenMsg(n, m, Popped(after))>>)
    BY <1>6 DEF RequestUnlock
  <2>2. m \in locked[n] /\ locked' = [locked EXCEPT ![n] = @ \ {m}]
    BY <1>6 DEF RequestUnlock
  <2> DEFINE give == TokenMsg(n, m, Popped(after))
             target == Head(after.queue)
  <2>3. Popped(after) \in Alg /\ target \in Node
    <3>1. alg[n][m] \in Alg
      BY <1>1 DEF TypeOK
    <3>2. after \in Alg
      BY <2>1, <3>1, ReleasedType
    <3> QED
      BY <2>1, <3>2, PoppedType
  <2>4. give \in Message
    <3>1. known[n] \in SUBSET Monitor /\ data[n][m] \in Nat
      BY DEF TypeOK
    <3> QED
      BY <1>1, <2>3, <3>1, TokenMsgType
  <2>5. Gives(give, m)
    BY <1>1 DEF TokenMsg, GiveTokenMsg, Gives
  <2>6. /\ \A k \in Node : Held(k)' \subseteq Held(k) /\ owned'[k] \subseteq owned[k]
        /\ m \in Held(n) /\ m \notin Held(n)'
    BY <1>3, <2>1, <2>2 DEF Held
  <2>7. net' = Post(net, n, {target}, <<give>>)
    BY <2>1
  <2> HIDE DEF give, target
  <2> QED
    BY <1>1, <1>2, <1>3, <1>4, <2>3, <2>4, <2>5, <2>6, <2>7, Departs
<1> QED
  BY <1>5, <1>6

LEMMA NextCarriers ==
    ASSUME TypeOK, SysEntryCreated, OneCarrier, HeldHasEntry, [Next]_vars
    PROVE  OneCarrier'
<1>1. ASSUME NEW n \in Node, NEW p \in Node, Handle(n, p) PROVE OneCarrier'
  BY <1>1, HandleConnectCarriers, PacketClusterHandshakeCarriers, PacketGiveTokenCarriers,
     PacketRequestTokenCarriers DEF Handle
<1>2. ASSUME NEW n \in Node, NEW p \in Node, CrashInHandshake(n, p) PROVE OneCarrier'
  BY <1>2, IdleCarriers DEF CrashInHandshake, nodeVars, tokenVars
<1>3. ASSUME NEW n \in Node, NEW m \in Monitor, TakeGrant(n, m) PROVE OneCarrier'
  BY <1>3, IdleCarriers DEF TakeGrant, nodeVars, tokenVars
<1>4. CASE UNCHANGED vars
  BY <1>4, IdleCarriers DEF vars, nodeVars, tokenVars
<1> QED
  BY <1>1, <1>2, <1>3, <1>4, DisconnectCarriers, HandleNewCarriers, RequestLockCarriers,
     RequestUnlockCarriers DEF Next

-----------------------------------------------------------------------------
(* What a node holds has an entry.                                          *)

LEMMA MoreEntries ==
    ASSUME HeldHasEntry, MonitorAssumption,
           \A k \in Node : /\ private[k] \subseteq private'[k]
                          /\ Held(k)' \subseteq Held(k) \cup private'[k]
                          /\ locked'[k] \subseteq locked[k] \cup Monitor
    PROVE  HeldHasEntry'
  BY DEF HeldHasEntry, MonitorAssumption

LEMMA PacketGiveTokenEntries ==
    ASSUME TypeOK, HeldHasEntry, NEW n \in Node, NEW p \in Node, PacketGiveToken(n, p)
    PROVE  HeldHasEntry'
<1> DEFINE msg == Head(net[p][n])
           fresh == private[n] \ created[n]
           found == fresh \cap msg.monitors
           adopted == fresh \ msg.monitors
           holds == (owned[n] \ found) \cup adopted \cup {SysToken}
<1>1. /\ owned \in [Node -> SUBSET Token] /\ locked \in [Node -> SUBSET Token]
      /\ pendingGrants[n] \subseteq Monitor
  BY DEF TypeOK
<1>2. CASE Unexpected(n, msg.token)
  BY <1>2, MonitorAssumption, MoreEntries DEF PacketGiveToken, Held, tokenVars
<1>3. CASE ~Unexpected(n, msg.token) /\ msg.token = SysToken
  <2>1. TakeSystemToken(n, p, msg) /\ SysToken \in private[n]
    BY <1>3 DEF PacketGiveToken, Unexpected
  <2>2. private' = private /\ locked' = [locked EXCEPT ![n] = @ \cup Grantable(n, adopted)]
    BY <2>1 DEF TakeSystemToken, Grant
  <2>3. \/ owned' = [owned EXCEPT ![n] = holds]
        \/ owned' = [owned EXCEPT ![n] = holds \ {SysToken}]
    BY <2>1 DEF TakeSystemToken
  <2>4. /\ holds \subseteq owned[n] \cup private[n]
        /\ Grantable(n, adopted) \subseteq Monitor \cap private[n]
    BY <1>1, <2>1 DEF Grantable
  <2> HIDE DEF adopted, holds
  <2> QED
    BY <1>1, <2>2, <2>3, <2>4, MonitorAssumption, MoreEntries DEF Held
<1>4. CASE ~Unexpected(n, msg.token) /\ msg.token # SysToken
  <2>1. TakeMonitorToken(n, p, msg) /\ msg.token \in private[n]
    BY <1>4 DEF PacketGiveToken, Unexpected
  <2>2. /\ private' = private
        /\ owned' = [owned EXCEPT ![n] = @ \cup {msg.token}]
        /\ locked' = [locked EXCEPT ![n] = @ \cup Grantable(n, {msg.token})]
    BY <2>1 DEF TakeMonitorToken, Grant
  <2>3. Grantable(n, {msg.token}) \subseteq Monitor \cap private[n]
    BY <1>1, <2>1 DEF Grantable
  <2> HIDE DEF msg
  <2> QED
    BY <1>1, <2>1, <2>2, <2>3, MonitorAssumption, MoreEntries DEF Held
<1> QED
  BY <1>2, <1>3, <1>4

LEMMA HandleEntries ==
    ASSUME TypeOK, HeldHasEntry, NEW n \in Node, NEW p \in Node, Handle(n, p)
    PROVE  HeldHasEntry'
<1>1. /\ owned \in [Node -> SUBSET Token] /\ locked \in [Node -> SUBSET Token]
      /\ private \in [Node -> SUBSET Token] /\ pendingGrants[n] \subseteq Monitor
  BY DEF TypeOK
<1>2. CASE HandleConnect(n, p)
  <2>1. /\ locked' = locked
        /\ \/ owned' = owned /\ private' = private
           \/ /\ private' = [private EXCEPT ![n] = @ \cup {SysToken}]
              /\ owned' = [owned EXCEPT ![n] = IF n = 0 THEN @ \cup {SysToken} ELSE @]
    BY <1>2 DEF HandleConnect
  <2> QED
    BY <1>1, <2>1, MonitorAssumption, MoreEntries DEF Held
<1>3. CASE PacketClusterHandshake(n, p)
  <2> DEFINE due == pendingGrants[n] \cap public[n] \cap owned[n]
  <2>1. /\ private' = private /\ owned' = owned
        /\ \/ locked' = locked
           \/ \E G \in GrantOutcomes(due) : locked' = [locked EXCEPT ![n] = @ \cup G]
    BY <1>3 DEF PacketClusterHandshake, Grant
  <2>2. \A G \in GrantOutcomes(due) : G \subseteq Monitor \cap owned[n]
    BY <1>1 DEF GrantOutcomes
  <2> HIDE DEF due
  <2> QED
    BY <1>1, <2>1, <2>2, MonitorAssumption, MoreEntries DEF Held
<1>4. CASE PacketRequestToken(n, p)
  <2> DEFINE t == Head(net[p][n]).token
  <2>1. /\ locked' = locked
        /\ private' = private \/ private' = [private EXCEPT ![n] = @ \cup {t}]
        /\ owned' = owned \/ owned' = [owned EXCEPT ![n] = @ \ {t}]
    BY <1>4 DEF PacketRequestToken
  <2> HIDE DEF t
  <2> QED
    BY <1>1, <2>1, MonitorAssumption, MoreEntries DEF Held
<1> QED
  BY <1>2, <1>3, <1>4, PacketGiveTokenEntries DEF Handle

LEMMA NextEntries ==
    ASSUME TypeOK, HeldHasEntry, [Next]_vars
    PROVE  HeldHasEntry'
<1>1. /\ owned \in [Node -> SUBSET Token] /\ locked \in [Node -> SUBSET Token]
      /\ private \in [Node -> SUBSET Token]
  BY DEF TypeOK
<1>2. ASSUME UNCHANGED <<private, owned, locked>> PROVE HeldHasEntry'
  BY <1>2 DEF HeldHasEntry, Held
<1>3. ASSUME NEW n \in Node, NEW m \in Monitor, HandleNew(n, m) PROVE HeldHasEntry'
  <2>1. /\ locked' = locked
        /\ \/ owned' = owned /\ private' = private
           \/ /\ private' = [private EXCEPT ![n] = @ \cup {m}]
              /\ owned' = [owned EXCEPT ![n] = IF Adopts(n, m) THEN @ \cup {m} ELSE @]
    BY <1>3 DEF HandleNew
  <2> QED
    BY <1>1, <2>1, MonitorAssumption, MoreEntries DEF Held
<1>4. ASSUME NEW n \in Node, NEW m \in Monitor, RequestLock(n, m) PROVE HeldHasEntry'
  <2>1. /\ private' = private /\ owned' = owned
        /\ \/ locked' = locked
           \/ m \in owned[n] /\ locked' = [locked EXCEPT ![n] = @ \cup {m}]
    BY <1>4 DEF RequestLock
  <2> QED
    BY <1>1, <2>1, MonitorAssumption, MoreEntries DEF Held
<1>5. ASSUME NEW n \in Node, NEW m \in Monitor, RequestUnlock(n, m) PROVE HeldHasEntry'
  <2>1. /\ private' = private
        /\ owned' = owned \/ owned' = [owned EXCEPT ![n] = @ \ {m}]
        /\ locked' = locked \/ locked' = [locked EXCEPT ![n] = @ \ {m}]
    BY <1>5 DEF RequestUnlock
  <2> QED
    BY <1>1, <2>1, MonitorAssumption, MoreEntries DEF Held
<1>6. ASSUME NEW n \in Node, NEW p \in Node, CrashInHandshake(n, p) \/ Disconnect(n, p)
      PROVE  HeldHasEntry'
  BY <1>2, <1>6 DEF CrashInHandshake, Disconnect, tokenVars
<1>7. ASSUME NEW n \in Node, NEW m \in Monitor, TakeGrant(n, m) PROVE HeldHasEntry'
  BY <1>2, <1>7 DEF TakeGrant, tokenVars
<1>8. CASE UNCHANGED vars
  BY <1>2, <1>8 DEF vars, tokenVars
<1> QED
  BY <1>3, <1>4, <1>5, <1>6, <1>7, <1>8, HandleEntries DEF Next

-----------------------------------------------------------------------------
(* Grants are kept with the lock bit.                                       *)

Granting == GrantHoldsLock /\ PendingWaits

LEMMA GrantKeeps ==
    ASSUME TypeOK, Granting, NEW n \in Node, NEW G \in SUBSET pendingGrants[n],
           Grant(n, G), app' = app
    PROVE  Granting'
<1>1. /\ locked' = [locked EXCEPT ![n] = @ \cup G]
      /\ granted' = [granted EXCEPT ![n] = @ \cup G]
      /\ pendingGrants' = [pendingGrants EXCEPT ![n] = @ \ G]
      /\ locked \in [Node -> SUBSET Token] /\ granted \in [Node -> SUBSET Monitor]
      /\ pendingGrants \in [Node -> SUBSET Monitor]
  BY DEF Grant, TypeOK
<1>2. \A m \in G : app[n][m] = "waiting"
  BY DEF Granting, PendingWaits
<1>3. GrantHoldsLock'
  <2> SUFFICES ASSUME NEW k \in Node, NEW m \in Monitor
               PROVE  /\ m \in granted'[k] => app[k][m] = "waiting"
                      /\ m \in locked'[k] <=> m \in granted'[k] \/ app[k][m] = "inside"
    BY DEF GrantHoldsLock
  <2>1. /\ m \in granted[k] => app[k][m] = "waiting"
        /\ m \in locked[k] <=> m \in granted[k] \/ app[k][m] = "inside"
    BY DEF Granting, GrantHoldsLock
  <2> QED
    BY <1>1, <1>2, <2>1
<1>4. PendingWaits'
  <2> SUFFICES ASSUME NEW k \in Node, NEW m \in pendingGrants'[k]
               PROVE  app[k][m] = "waiting" /\ m \notin granted'[k]
    BY DEF PendingWaits
  <2>1. m \in pendingGrants[k] /\ (k = n => m \notin G)
    BY <1>1
  <2> QED
    BY <1>1, <2>1 DEF Granting, PendingWaits
<1> QED
  BY <1>3, <1>4 DEF Granting

LEMMA HandleGranting ==
    ASSUME TypeOK, Granting, NEW n \in Node, NEW p \in Node, Handle(n, p)
    PROVE  Granting'
<1>1. ASSUME UNCHANGED <<locked, granted, pendingGrants, app>> PROVE Granting'
  BY <1>1 DEF Granting, GrantHoldsLock, PendingWaits
<1>2. CASE HandleConnect(n, p)
  BY <1>1, <1>2 DEF HandleConnect, pendingVars, appVars
<1>3. CASE PacketClusterHandshake(n, p)
  <2> DEFINE due == pendingGrants[n] \cap public[n] \cap owned[n]
  <2>1. /\ app' = app
        /\ \/ UNCHANGED <<locked, granted, pendingGrants>>
           \/ \E G \in GrantOutcomes(due) : Grant(n, G)
    BY <1>3 DEF PacketClusterHandshake
  <2>2. \A G \in GrantOutcomes(due) : G \in SUBSET pendingGrants[n]
    BY DEF GrantOutcomes
  <2> HIDE DEF due
  <2> QED
    BY <1>1, <2>1, <2>2, GrantKeeps
<1>4. CASE PacketGiveToken(n, p)
  <2> DEFINE msg == Head(net[p][n])
             adopted == (private[n] \ created[n]) \ msg.monitors
  <2>1. CASE Unexpected(n, msg.token)
    BY <1>1, <1>4, <2>1 DEF PacketGiveToken, tokenVars, pendingVars, appVars
  <2>2. CASE TakeSystemToken(n, p, msg)
    <3>1. Grant(n, Grantable(n, adopted)) /\ app' = app
      BY <2>2 DEF TakeSystemToken
    <3>2. Grantable(n, adopted) \in SUBSET pendingGrants[n]
      BY DEF Grantable
    <3> QED
      BY <3>1, <3>2, GrantKeeps
  <2>3. CASE TakeMonitorToken(n, p, msg)
    <3>1. Grant(n, Grantable(n, {msg.token})) /\ app' = app
      BY <2>3 DEF TakeMonitorToken
    <3>2. Grantable(n, {msg.token}) \in SUBSET pendingGrants[n]
      BY DEF Grantable
    <3> QED
      BY <3>1, <3>2, GrantKeeps
  <2> QED
    BY <1>4, <2>1, <2>2, <2>3 DEF PacketGiveToken
<1>5. CASE PacketRequestToken(n, p)
  BY <1>1, <1>5 DEF PacketRequestToken, pendingVars, appVars
<1> QED
  BY <1>2, <1>3, <1>4, <1>5 DEF Handle

LEMMA RequestLockGranting ==
    ASSUME TypeOK, Granting, NEW n \in Node, NEW m \in Monitor, RequestLock(n, m)
    PROVE  Granting'
<1>1. /\ app[n][m] = "outside" /\ app' = [app EXCEPT ![n][m] = "waiting"]
      /\ locked \in [Node -> SUBSET Token] /\ granted \in [Node -> SUBSET Monitor]
      /\ pendingGrants \in [Node -> SUBSET Monitor] /\ app \in [Node -> [Monitor -> AppState]]
  BY DEF RequestLock, TypeOK
<1>2. m \notin locked[n] /\ m \notin granted[n]
  BY <1>1 DEF Granting, GrantHoldsLock
<1>3. \/ /\ pendingGrants' = [pendingGrants EXCEPT ![n] = @ \ {m}]
         /\ locked' = [locked EXCEPT ![n] = @ \cup {m}]
         /\ granted' = [granted EXCEPT ![n] = @ \cup {m}]
      \/ /\ pendingGrants' = [pendingGrants EXCEPT ![n] = @ \cup {m}]
         /\ locked' = locked /\ granted' = granted
  BY <1>2 DEF RequestLock
<1>4. GrantHoldsLock'
  <2> SUFFICES ASSUME NEW k \in Node, NEW o \in Monitor
               PROVE  /\ o \in granted'[k] => app'[k][o] = "waiting"
                      /\ o \in locked'[k] <=> o \in granted'[k] \/ app'[k][o] = "inside"
    BY DEF GrantHoldsLock
  <2>1. /\ o \in granted[k] => app[k][o] = "waiting"
        /\ o \in locked[k] <=> o \in granted[k] \/ app[k][o] = "inside"
    BY DEF Granting, GrantHoldsLock
  <2>2. CASE k = n /\ o = m
    BY <1>1, <1>2, <1>3, <2>2
  <2>3. CASE ~(k = n /\ o = m)
    BY <1>1, <1>3, <2>1, <2>3
  <2> QED
    BY <2>2, <2>3
<1>5. PendingWaits'
  <2> SUFFICES ASSUME NEW k \in Node, NEW o \in pendingGrants'[k]
               PROVE  app'[k][o] = "waiting" /\ o \notin granted'[k]
    BY DEF PendingWaits
  <2>1. CASE k = n /\ o = m
    BY <1>1, <1>2, <1>3, <2>1
  <2>2. CASE ~(k = n /\ o = m)
    <3>1. o \in pendingGrants[k] /\ o \in Monitor
      BY <1>1, <1>3, <2>2
    <3> QED
      BY <1>1, <1>3, <2>2, <3>1 DEF Granting, PendingWaits
  <2> QED
    BY <2>1, <2>2
<1> QED
  BY <1>4, <1>5 DEF Granting

LEMMA TakeGrantGranting ==
    ASSUME TypeOK, Granting, NEW n \in Node, NEW m \in Monitor, TakeGrant(n, m)
    PROVE  Granting'
<1>1. /\ m \in granted[n]
      /\ app' = [app EXCEPT ![n][m] = "inside"]
      /\ granted' = [granted EXCEPT ![n] = @ \ {m}]
      /\ locked' = locked /\ pendingGrants' = pendingGrants
      /\ granted \in [Node -> SUBSET Monitor] /\ pendingGrants \in [Node -> SUBSET Monitor]
      /\ app \in [Node -> [Monitor -> AppState]]
  BY DEF TakeGrant, TypeOK, tokenVars, pendingVars
<1>2. GrantHoldsLock'
  <2> SUFFICES ASSUME NEW k \in Node, NEW o \in Monitor
               PROVE  /\ o \in granted'[k] => app'[k][o] = "waiting"
                      /\ o \in locked'[k] <=> o \in granted'[k] \/ app'[k][o] = "inside"
    BY DEF GrantHoldsLock
  <2>1. /\ o \in granted[k] => app[k][o] = "waiting"
        /\ o \in locked[k] <=> o \in granted[k] \/ app[k][o] = "inside"
    BY DEF Granting, GrantHoldsLock
  <2> QED
    BY <1>1, <2>1
<1>3. PendingWaits'
  <2> SUFFICES ASSUME NEW k \in Node, NEW o \in pendingGrants[k]
               PROVE  app'[k][o] = "waiting" /\ o \notin granted'[k]
    BY <1>1 DEF PendingWaits
  <2>1. app[k][o] = "waiting" /\ o \notin granted[k] /\ o \in Monitor
    BY <1>1 DEF Granting, PendingWaits
  <2> QED
    BY <1>1, <2>1
<1> QED
  BY <1>2, <1>3 DEF Granting

\* The early return of requestUnlock never leaves the lock bit behind.
LEMMA RequestUnlockGranting ==
    ASSUME TypeOK, Granting, HeldHasEntry, NEW n \in Node, NEW m \in Monitor, RequestUnlock(n, m)
    PROVE  Granting'
<1>1. /\ app[n][m] = "inside" /\ app' = [app EXCEPT ![n][m] = "outside"]
      /\ granted' = granted /\ pendingGrants' = pendingGrants
      /\ locked \in [Node -> SUBSET Token] /\ pendingGrants \in [Node -> SUBSET Monitor]
      /\ app \in [Node -> [Monitor -> AppState]]
  BY DEF RequestUnlock, TypeOK, pendingVars
<1>2. m \in locked[n] /\ m \in private[n] /\ m \notin granted[n] /\ m \notin pendingGrants[n]
  BY <1>1 DEF Granting, GrantHoldsLock, PendingWaits, HeldHasEntry, Held
<1>3. locked' = [locked EXCEPT ![n] = @ \ {m}]
  BY <1>2 DEF RequestUnlock
<1>4. GrantHoldsLock'
  <2> SUFFICES ASSUME NEW k \in Node, NEW o \in Monitor
               PROVE  /\ o \in granted[k] => app'[k][o] = "waiting"
                      /\ o \in locked'[k] <=> o \in granted[k] \/ app'[k][o] = "inside"
    BY <1>1 DEF GrantHoldsLock
  <2>1. /\ o \in granted[k] => app[k][o] = "waiting"
        /\ o \in locked[k] <=> o \in granted[k] \/ app[k][o] = "inside"
    BY DEF Granting, GrantHoldsLock
  <2> QED
    BY <1>1, <1>2, <1>3, <2>1
<1>5. PendingWaits'
  <2> SUFFICES ASSUME NEW k \in Node, NEW o \in pendingGrants[k]
               PROVE  app'[k][o] = "waiting" /\ o \notin granted[k]
    BY <1>1 DEF PendingWaits
  <2>1. app[k][o] = "waiting" /\ o \notin granted[k] /\ o \in Monitor
    BY <1>1 DEF Granting, PendingWaits
  <2> QED
    BY <1>1, <1>2, <2>1
<1> QED
  BY <1>4, <1>5 DEF Granting

LEMMA NextGranting ==
    ASSUME TypeOK, Granting, HeldHasEntry, [Next]_vars
    PROVE  Granting'
<1>1. ASSUME UNCHANGED <<locked, granted, pendingGrants, app>> PROVE Granting'
  BY <1>1 DEF Granting, GrantHoldsLock, PendingWaits
<1>2. ASSUME NEW n \in Node, NEW p \in Node, CrashInHandshake(n, p) \/ Disconnect(n, p)
      PROVE  Granting'
  BY <1>1, <1>2 DEF CrashInHandshake, Disconnect, tokenVars, pendingVars, appVars
<1>3. ASSUME NEW n \in Node, NEW m \in Monitor, HandleNew(n, m) PROVE Granting'
  BY <1>1, <1>3 DEF HandleNew, appVars
<1>4. CASE UNCHANGED vars
  BY <1>1, <1>4 DEF vars, tokenVars, pendingVars, appVars
<1> QED
  BY <1>2, <1>3, <1>4, HandleGranting, RequestLockGranting, TakeGrantGranting,
     RequestUnlockGranting DEF Next

-----------------------------------------------------------------------------
(* The invariant is inductive.                                              *)

LEMMA InitIInv == Init => IInv
<1> SUFFICES ASSUME Init PROVE IInv
  OBVIOUS
<1>1. TypeOK /\ SysEntryCreated
  BY InitType DEF Init, SysEntryCreated
<1>2. \A n \in Node : Held(n) = private[n] /\ Held(n) = IF N = 1 THEN {SysToken} ELSE {}
  BY DEF Init, Held
<1>3. GrantHoldsLock /\ PendingWaits
  BY DEF Init, GrantHoldsLock, PendingWaits
<1>4. HeldHasEntry
  BY <1>2 DEF Init, HeldHasEntry
<1>5. \A a, b \in Node : \A i \in Nat : \A t : ~Carries(net, a, b, i, t)
  BY DEF Init, Carries, Gives, EdgeHandshakeMsg
<1>6. \A j, k \in Node : N = 1 => j = k
  BY NAssumption DEF Node
<1>7. ASSUME NEW t \in Token PROVE OneCarrierOf(t)
  BY <1>2, <1>5, <1>6 DEF OneCarrierOf
<1>8. \A m \in Monitor : ~Carried(m)
  BY <1>2, <1>5, MonitorAssumption DEF Carried
<1>9. 0 \notin started => ~Carried(SysToken)
  <2>1. 0 \in Node
    BY NAssumption DEF Node
  <2> QED
    BY <1>2, <1>5, <2>1 DEF Init, Carried
<1> QED
  BY <1>1, <1>3, <1>4, <1>7, <1>8, <1>9 DEF IInv, OneCarrier, Registry, BeforeStart

LEMMA NextIInv == IInv /\ [Next]_vars => IInv'
  BY NextType, NextSysEntry, NextCarriers, NextEntries, NextGranting DEF IInv, Granting

LEMMA IInvInvariant == Spec => []IInv
  BY InitIInv, NextIInv, PTL DEF Spec

-----------------------------------------------------------------------------
(* What it is for.                                                          *)

\* Two threads that are inside both keep the monitor's token from leaving.
LEMMA IInvMutualExclusion == IInv => MutualExclusion
<1> SUFFICES ASSUME IInv, NEW m \in Monitor, NEW j \in Node, NEW k \in Node,
                    app[j][m] = "inside", app[k][m] = "inside"
             PROVE  j = k
  BY DEF MutualExclusion
<1>1. m \in Held(j) /\ m \in Held(k)
  BY DEF IInv, GrantHoldsLock, Held
<1>2. OneCarrierOf(m)
  BY DEF IInv, OneCarrier, Token
<1> QED
  BY <1>1, <1>2 DEF OneCarrierOf

LEMMA SmallCardinality ==
    ASSUME NEW S, \A x, y \in S : x = y
    PROVE  Cardinality(S) = IF S = {} THEN 0 ELSE 1
<1>1. CASE S = {}
  BY <1>1, FS_EmptySet
<1>2. ASSUME NEW x \in S PROVE Cardinality(S) = 1
  <2>1. S = {x}
    OBVIOUS
  <2> QED
    BY <2>1, FS_Singleton
<1> QED
  BY <1>1, <1>2

LEMMA IInvTokenUnique == IInv => TokenUnique
<1> SUFFICES ASSUME IInv, NEW t \in Token
             PROVE  Cardinality(Holders(t)) + Cardinality(Flights(t)) <= 1
  BY DEF TokenUnique
<1>1. OneCarrierOf(t)
  BY DEF IInv, OneCarrier
<1>2. \A n \in Holders(t) : n \in Node /\ t \in Held(n)
  BY DEF Holders, Held
<1>3. ASSUME NEW f \in Flights(t)
      PROVE  \E a, b \in Node : \E i \in Nat : f = <<a, b, i>> /\ Carries(net, a, b, i, t)
  <2>1. PICK a \in Node, b \in Node :
           f \in {<<a, b, i>> : i \in {j \in DOMAIN net[a][b] : Gives(net[a][b][j], t)}}
    BY DEF Flights
  <2>2. PICK i \in DOMAIN net[a][b] : Gives(net[a][b][i], t) /\ f = <<a, b, i>>
    BY <2>1
  <2>3. net[a][b] \in Seq(Message)
    BY DEF IInv, TypeOK
  <2> QED
    BY <2>2, <2>3 DEF Carries
<1>4. \A x, y \in Holders(t) : x = y
  BY <1>1, <1>2 DEF OneCarrierOf
<1>5. \A f, g \in Flights(t) : f = g
  BY <1>1, <1>3 DEF OneCarrierOf
<1>6. Holders(t) = {} \/ Flights(t) = {}
  BY <1>1, <1>2, <1>3 DEF OneCarrierOf
<1> QED
  BY <1>4, <1>5, <1>6, SmallCardinality

\* At most one thread of the cluster is between lock and unlock of a monitor, for
\* any number of nodes, threads that lock at any time, and any failures.
THEOREM MutualExclusionHolds == Spec => []MutualExclusion
  BY IInvInvariant, IInvMutualExclusion, PTL

\* The token of a monitor, and the system token, is in one place at most: no
\* handler makes a second one and no failure copies one.
THEOREM TokenUniqueHolds == Spec => []TokenUnique
  BY IInvInvariant, IInvTokenUnique, PTL

\* m_granted and m_locked agree with what the application's thread does.
THEOREM GrantHoldsLockHolds == Spec => []GrantHoldsLock
<1>1. IInv => GrantHoldsLock
  BY DEF IInv
<1> QED
  BY <1>1, IInvInvariant, PTL

=============================================================================
