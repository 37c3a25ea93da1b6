------------------------ MODULE ClusterLoopSettledProofs ------------------------
(***************************************************************************)
(* Proofs of the safety of ClusterLoop that depends on its surroundings:   *)
(* applications that do not lock a monitor while it is being created never *)
(* lose its token to the system token, and over connections that hold no   *)
(* token is lost at all; those that do not lock it during the handshakes   *)
(* never wait for a monitor that nobody asked for.                         *)
(***************************************************************************)
EXTENDS ClusterLoopDeliveryProofs

-----------------------------------------------------------------------------
(* A monitor that is being created has no token at its node.                *)

\* Applications wait for the system token's answer before they lock.
Patient == "creating" \notin LockWindows

\* A token that a node has not created yet was not asked for by that node, and so
\* it is neither there nor on its way there; what is locked is owned.
Settles ==
    \A n \in Node :
        /\ n \in started => SysToken \in created[n]
        /\ pendingRequests[n] \subseteq created[n] \cup {SysToken}
        /\ \A t \in Token \ created[n] : Unasked(n, t)
        /\ locked[n] \subseteq owned[n] /\ owned[n] \subseteq created[n]

\* m_created is never reset.
LEMMA CreatedGrows ==
    ASSUME TypeOK, [Next]_vars, NEW n \in Node
    PROVE  created[n] \subseteq created'[n]
<1>1. \/ created' = created
      \/ \E k \in Node : \E T : created' = [created EXCEPT ![k] = @ \cup T]
      \/ \E k \in Node : created' = [created EXCEPT ![k] = @]
  <2>1. ASSUME NEW k \in Node, NEW p \in Node, Handle(k, p)
        PROVE  \/ created' = created
               \/ \E T : created' = [created EXCEPT ![k] = @ \cup T]
               \/ created' = [created EXCEPT ![k] = @]
    <3>1. CASE HandleConnect(k, p)
      BY <3>1 DEF HandleConnect
    <3>2. CASE PacketClusterHandshake(k, p)
      BY <3>2 DEF PacketClusterHandshake
    <3>3. CASE PacketGiveToken(k, p)
      BY <3>3 DEF PacketGiveToken, TakeSystemToken, TakeMonitorToken, tokenVars
    <3>4. CASE PacketRequestToken(k, p)
      BY <3>4 DEF PacketRequestToken
    <3> QED
      BY <2>1, <3>1, <3>2, <3>3, <3>4 DEF Handle
  <2>2. ASSUME NEW k \in Node, NEW p \in Node, CrashInHandshake(k, p) \/ Disconnect(k, p)
        PROVE  created' = created
    BY <2>2 DEF CrashInHandshake, Disconnect, tokenVars
  <2>3. ASSUME NEW k \in Node, NEW m \in Monitor, HandleNew(k, m)
        PROVE  \/ created' = created
               \/ created' = [created EXCEPT ![k] = @ \cup {m}]
               \/ created' = [created EXCEPT ![k] = @]
    BY <2>3 DEF HandleNew
  <2>4. ASSUME NEW k \in Node, NEW m \in Monitor,
               RequestLock(k, m) \/ TakeGrant(k, m) \/ RequestUnlock(k, m)
        PROVE  created' = created
    BY <2>4 DEF RequestLock, TakeGrant, RequestUnlock, tokenVars
  <2>5. CASE UNCHANGED vars
    BY <2>5 DEF vars, tokenVars
  <2> QED
    BY <2>1, <2>2, <2>3, <2>4, <2>5 DEF Next
<1>2. created \in [Node -> SUBSET Token]
  BY DEF TypeOK
<1> QED
  BY <1>1, <1>2

LEMMA NextSysCreated ==
    ASSUME TypeOK, Settles, [Next]_vars, NEW n \in Node, n \in started'
    PROVE  SysToken \in created'[n]
<1>1. created \in [Node -> SUBSET Token] /\ started \in SUBSET Node
  BY DEF TypeOK
<1>2. CASE n \in started
  BY <1>2, CreatedGrows DEF Settles
<1>3. CASE n \notin started
  <2>1. ASSUME NEW k \in Node, NEW p \in Node,
               \/ PacketClusterHandshake(k, p) \/ PacketGiveToken(k, p)
               \/ PacketRequestToken(k, p) \/ CrashInHandshake(k, p) \/ Disconnect(k, p)
        PROVE  started' = started
    BY <2>1 DEF PacketClusterHandshake, PacketGiveToken, TakeSystemToken, TakeMonitorToken,
       PacketRequestToken, CrashInHandshake, Disconnect, nodeVars
  <2>2. ASSUME NEW k \in Node, NEW m \in Monitor,
               HandleNew(k, m) \/ RequestLock(k, m) \/ TakeGrant(k, m) \/ RequestUnlock(k, m)
        PROVE  started' = started
    BY <2>2 DEF HandleNew, RequestLock, TakeGrant, RequestUnlock, nodeVars
  <2>3. UNCHANGED vars => started' = started
    BY DEF vars, nodeVars
  <2>4. PICK k \in Node, p \in Node : HandleConnect(k, p)
    BY <1>3, <2>1, <2>2, <2>3 DEF Next, Handle
  <2>5. \/ started' = started
        \/ /\ started' = started \cup {k}
           /\ created' = [created EXCEPT ![k] = @ \cup {SysToken}]
    BY <2>4 DEF HandleConnect
  <2> QED
    BY <1>1, <1>3, <2>5
<1> QED
  BY <1>2, <1>3

\* A node asks for the token of a monitor only after the system token's answer.
LEMMA NextPendingCreated ==
    ASSUME TypeOK, Patient, Settles, [Next]_vars, NEW k \in Node
    PROVE  pendingRequests'[k] \subseteq created'[k] \cup {SysToken}
<1>1. /\ pendingRequests \in [Node -> SUBSET Token] /\ created \in [Node -> SUBSET Token]
      /\ pendingRequests[k] \subseteq created'[k] \cup {SysToken}
  BY CreatedGrows DEF TypeOK, Settles
<1> SUFFICES ASSUME pendingRequests' # pendingRequests
             PROVE  pendingRequests'[k] \subseteq created'[k] \cup {SysToken}
  BY <1>1
<1>2. ASSUME NEW n \in Node, NEW p \in Node, PacketGiveToken(n, p)
      PROVE  pendingRequests'[k] \subseteq created'[k] \cup {SysToken}
  <2> DEFINE msg == Head(net[p][n])
             fresh == private[n] \ created[n]
             new == (fresh \cap msg.monitors \cap pendingGrants[n]) \ pendingRequests[n]
  <2>1. CASE TakeSystemToken(n, p, msg)
    <3>1. /\ created' = [created EXCEPT ![n] = @ \cup fresh]
          /\ pendingRequests' = [pendingRequests EXCEPT ![n] = (@ \ {SysToken}) \cup new]
      BY <2>1 DEF TakeSystemToken
    <3>2. new \subseteq fresh
      OBVIOUS
    <3> HIDE DEF new, fresh
    <3> QED
      BY <1>1, <3>1, <3>2
  <2>2. CASE TakeMonitorToken(n, p, msg)
    <3>1. \E T : pendingRequests' = [pendingRequests EXCEPT ![n] = @ \ T]
      BY <2>2 DEF TakeMonitorToken
    <3> QED
      BY <1>1, <3>1
  <2> QED
    BY <1>2, <2>1, <2>2 DEF PacketGiveToken, pendingVars
<1>3. ASSUME NEW n \in Node, NEW m \in Monitor, HandleNew(n, m)
      PROVE  pendingRequests'[k] \subseteq created'[k] \cup {SysToken}
  <2>1. \E T : pendingRequests' = [pendingRequests EXCEPT ![n] = @ \cup ({SysToken} \ T)]
    BY <1>3 DEF HandleNew, RequestTokens
  <2> QED
    BY <1>1, <2>1
<1>4. ASSUME NEW n \in Node, NEW m \in Monitor, RequestLock(n, m)
      PROVE  pendingRequests'[k] \subseteq created'[k] \cup {SysToken}
  <2>1. /\ \E T : pendingRequests' = [pendingRequests EXCEPT ![n] = @ \cup ({m} \ T)]
        /\ n \in startedCluster /\ Window(n, m) \in LockWindows /\ created' = created
    BY <1>4 DEF RequestLock, RequestTokens, pendingVars
  <2>2. m \in created[n]
    BY <2>1 DEF Window, Patient
  <2> QED
    BY <1>1, <2>1, <2>2
<1>5. ASSUME NEW n \in Node, NEW p \in Node,
             \/ HandleConnect(n, p) \/ PacketClusterHandshake(n, p) \/ PacketRequestToken(n, p)
             \/ CrashInHandshake(n, p) \/ Disconnect(n, p)
      PROVE  FALSE
  BY <1>5 DEF HandleConnect, PacketClusterHandshake, PacketRequestToken, CrashInHandshake,
              Disconnect, pendingVars
<1>6. ASSUME NEW n \in Node, NEW m \in Monitor, TakeGrant(n, m) \/ RequestUnlock(n, m)
      PROVE  FALSE
  BY <1>6 DEF TakeGrant, RequestUnlock, pendingVars
<1>7. CASE UNCHANGED vars
  BY <1>7 DEF vars, pendingVars
<1> QED
  BY <1>2, <1>3, <1>4, <1>5, <1>6, <1>7 DEF Next, Handle

\* A token arrives only where its monitor is created.
LEMMA ArrivesCreated ==
    ASSUME TypeOK, Settles, NEW n \in Node, NEW p \in Node, Arrives(n, p, "GiveToken")
    PROVE  Head(net[p][n]).token \in created[n]
<1> DEFINE msg == Head(net[p][n])
<1>1. net[p][n] \in Seq(Message) /\ net[p][n] # <<>> /\ msg.type = "GiveToken"
  BY DEF TypeOK, Arrives
<1>2. 1 \in DOMAIN net[p][n] /\ net[p][n][1] = msg /\ msg \in Message
  BY <1>1
<1>3. msg.token \in Token
  BY <1>1, <1>2, MessageFields
<1>4. ~Unasked(n, msg.token)
  BY <1>1, <1>2 DEF Unasked, Silent, Harmless, Gives
<1> QED
  BY <1>3, <1>4 DEF Settles

\* What the system token takes back was not held.
LEMMA TakeSystemTokenOwned ==
    ASSUME IInv, Settles, NEW n \in Node, NEW p \in Node, Arrives(n, p, "GiveToken"),
           Head(net[p][n]).token = SysToken, TakeSystemToken(n, p, Head(net[p][n]))
    PROVE  LET adopted == (private[n] \ created[n]) \ Head(net[p][n]).monitors
           IN  /\ SysToken \in created[n] /\ SysToken \notin locked[n] \cup adopted
               /\ \E G \in SUBSET adopted : locked' = [locked EXCEPT ![n] = @ \cup G]
               /\ created' = [created EXCEPT ![n] = @ \cup (private[n] \ created[n])]
               /\ \E H \in SUBSET {SysToken} :
                     owned' = [owned EXCEPT ![n] = ((@ \cup adopted) \ {SysToken}) \cup H]
<1> DEFINE msg == Head(net[p][n])
           fresh == private[n] \ created[n]
           found == fresh \cap msg.monitors
           adopted == fresh \ msg.monitors
           holds == (owned[n] \ found) \cup adopted \cup {SysToken}
<1>1. SysToken \in created[n]
  BY ArrivesCreated DEF IInv
<1>2. SysToken \notin locked[n] \cup adopted
  BY <1>1 DEF IInv, HeldHasEntry
<1>3. Grantable(n, adopted) \in SUBSET adopted
  BY DEF Grantable
<1>4. /\ locked' = [locked EXCEPT ![n] = @ \cup Grantable(n, adopted)]
      /\ created' = [created EXCEPT ![n] = @ \cup fresh]
      /\ \/ owned' = [owned EXCEPT ![n] = holds]
         \/ owned' = [owned EXCEPT ![n] = holds \ {SysToken}]
  BY DEF TakeSystemToken, Grant
<1>5. holds = ((owned[n] \cup adopted) \ {SysToken}) \cup {SysToken}
  BY DEF Settles
<1>6. holds \ {SysToken} = ((owned[n] \cup adopted) \ {SysToken}) \cup {}
  BY <1>5
<1>7. \E H \in SUBSET {SysToken} :
         owned' = [owned EXCEPT ![n] = ((@ \cup adopted) \ {SysToken}) \cup H]
  <2> HIDE DEF holds, adopted
  <2>1. CASE owned' = [owned EXCEPT ![n] = holds]
    <3>1. owned' = [owned EXCEPT ![n] = ((@ \cup adopted) \ {SysToken}) \cup {SysToken}]
      BY <1>5, <2>1
    <3> QED
      BY <3>1
  <2>2. CASE owned' = [owned EXCEPT ![n] = holds \ {SysToken}]
    <3>1. owned' = [owned EXCEPT ![n] = ((@ \cup adopted) \ {SysToken}) \cup {}]
      BY <1>6, <2>2
    <3> QED
      BY <3>1
  <2> QED
    BY <1>4, <2>1, <2>2
<1> QED
  BY <1>1, <1>2, <1>3, <1>4, <1>7

LEMMA NextOwnedCreated ==
    ASSUME IInv, Settles, [Next]_vars, NEW k \in Node
    PROVE  locked'[k] \subseteq owned'[k] /\ owned'[k] \subseteq created'[k]
<1>1. /\ owned \in [Node -> SUBSET Token] /\ locked \in [Node -> SUBSET Token]
      /\ created \in [Node -> SUBSET Token] /\ TypeOK
  BY DEF IInv, TypeOK
<1>2. /\ locked[k] \subseteq owned[k] /\ owned[k] \subseteq created'[k]
      /\ owned[k] \subseteq created[k]
  BY <1>1, CreatedGrows DEF Settles
<1>3. ASSUME NEW n \in Node, NEW p \in Node, HandleConnect(n, p)
      PROVE  locked'[k] \subseteq owned'[k] /\ owned'[k] \subseteq created'[k]
  <2>1. /\ locked' = locked
        /\ \/ owned' = owned /\ created' = created
           \/ /\ created' = [created EXCEPT ![n] = @ \cup {SysToken}]
              /\ \E T \in SUBSET {SysToken} : owned' = [owned EXCEPT ![n] = @ \cup T]
    <3>1. \/ owned' = owned /\ created' = created
          \/ /\ created' = [created EXCEPT ![n] = @ \cup {SysToken}]
             /\ owned' = [owned EXCEPT ![n] = IF n = 0 THEN @ \cup {SysToken} ELSE @]
      BY <1>3 DEF HandleConnect
    <3>2. (IF n = 0 THEN owned[n] \cup {SysToken} ELSE owned[n])
             = owned[n] \cup (IF n = 0 THEN {SysToken} ELSE {})
      OBVIOUS
    <3>3. locked' = locked
      BY <1>3 DEF HandleConnect
    <3> QED
      BY <3>1, <3>2, <3>3
  <2> QED
    BY <1>1, <1>2, <2>1
<1>4. ASSUME NEW n \in Node, NEW p \in Node, PacketClusterHandshake(n, p)
      PROVE  locked'[k] \subseteq owned'[k] /\ owned'[k] \subseteq created'[k]
  <2>1. /\ owned' = owned /\ created' = created
        /\ \/ locked' = locked
           \/ \E G \in SUBSET owned[n] : locked' = [locked EXCEPT ![n] = @ \cup G]
    <3>1. \A G \in GrantOutcomes(pendingGrants[n] \cap public[n] \cap owned[n]) :
             G \in SUBSET owned[n]
      BY DEF GrantOutcomes
    <3>2. \/ locked' = locked
          \/ \E G \in GrantOutcomes(pendingGrants[n] \cap public[n] \cap owned[n]) :
                locked' = [locked EXCEPT ![n] = @ \cup G]
      BY <1>4 DEF PacketClusterHandshake, Grant
    <3>3. owned' = owned /\ created' = created
      BY <1>4 DEF PacketClusterHandshake
    <3> QED
      BY <3>1, <3>2, <3>3
  <2> QED
    BY <1>1, <1>2, <2>1
<1>5. ASSUME NEW n \in Node, NEW p \in Node, PacketGiveToken(n, p)
      PROVE  locked'[k] \subseteq owned'[k] /\ owned'[k] \subseteq created'[k]
  <2> DEFINE msg == Head(net[p][n])
             o == msg.token
             fresh == private[n] \ created[n]
             adopted == fresh \ msg.monitors
  <2>1. Arrives(n, p, "GiveToken") /\ o \in created[n]
    BY <1>1, <1>5, ArrivesCreated DEF PacketGiveToken
  <2>2. CASE o = SysToken /\ TakeSystemToken(n, p, msg)
    <3>0. Arrives(n, p, "GiveToken") /\ msg = Head(net[p][n]) /\ msg.token = SysToken
      BY <2>1, <2>2
    <3>1. /\ SysToken \in created[n] /\ SysToken \notin locked[n] \cup adopted
          /\ \E G \in SUBSET adopted : locked' = [locked EXCEPT ![n] = @ \cup G]
          /\ created' = [created EXCEPT ![n] = @ \cup fresh]
          /\ \E H \in SUBSET {SysToken} :
                owned' = [owned EXCEPT ![n] = ((@ \cup adopted) \ {SysToken}) \cup H]
      BY <2>2, <3>0, TakeSystemTokenOwned
    <3>2. adopted \subseteq fresh
      OBVIOUS
    <3> HIDE DEF fresh, adopted
    <3>3. PICK G \in SUBSET adopted : locked' = [locked EXCEPT ![n] = @ \cup G]
      BY <3>1
    <3>4. PICK H \in SUBSET {SysToken} :
             owned' = [owned EXCEPT ![n] = ((@ \cup adopted) \ {SysToken}) \cup H]
      BY <3>1
    <3>5. created'[n] = created[n] \cup fresh
      BY <1>1, <3>1
    <3>6. CASE k # n
      BY <1>1, <1>2, <3>3, <3>4, <3>6
    <3>7. CASE k = n
      <4>1. /\ locked'[n] = locked[n] \cup G
            /\ owned'[n] = ((owned[n] \cup adopted) \ {SysToken}) \cup H
        BY <1>1, <3>3, <3>4
      <4>2. H \subseteq created[n]
        BY <3>1
      <4> QED
        BY <1>2, <3>1, <3>2, <3>5, <3>7, <4>1, <4>2
    <3> QED
      BY <3>6, <3>7
  <2>3. CASE TakeMonitorToken(n, p, msg)
    <3>1. /\ owned' = [owned EXCEPT ![n] = @ \cup {o}] /\ created' = created
          /\ locked' = [locked EXCEPT ![n] = @ \cup Grantable(n, {o})]
      BY <2>3 DEF TakeMonitorToken, Grant
    <3>2. Grantable(n, {o}) \subseteq {o}
      BY DEF Grantable
    <3> HIDE DEF o
    <3> QED
      BY <1>1, <1>2, <2>1, <3>1, <3>2
  <2>4. CASE Unexpected(n, o)
    BY <1>2, <1>5, <2>4 DEF PacketGiveToken, tokenVars
  <2> QED
    BY <1>5, <2>2, <2>3, <2>4 DEF PacketGiveToken
<1>6. ASSUME NEW n \in Node, NEW p \in Node, PacketRequestToken(n, p)
      PROVE  locked'[k] \subseteq owned'[k] /\ owned'[k] \subseteq created'[k]
  <2> DEFINE t == Head(net[p][n]).token
  <2>1. /\ locked' = locked
        /\ \/ owned' = owned
           \/ /\ t \notin locked[n]
              /\ owned' = [owned EXCEPT ![n] = @ \ {t}]
    BY <1>6 DEF PacketRequestToken, Serves
  <2> HIDE DEF t
  <2> QED
    BY <1>1, <1>2, <2>1
<1>7. ASSUME NEW n \in Node, NEW m \in Monitor, HandleNew(n, m)
      PROVE  locked'[k] \subseteq owned'[k] /\ owned'[k] \subseteq created'[k]
  <2>1. /\ locked' = locked
        /\ \/ owned' = owned
           \/ owned' = [owned EXCEPT ![n] = @]
           \/ /\ owned' = [owned EXCEPT ![n] = @ \cup {m}]
              /\ created' = [created EXCEPT ![n] = @ \cup {m}]
    BY <1>7 DEF HandleNew
  <2> QED
    BY <1>1, <1>2, <2>1
<1>8. ASSUME NEW n \in Node, NEW m \in Monitor, RequestLock(n, m)
      PROVE  locked'[k] \subseteq owned'[k] /\ owned'[k] \subseteq created'[k]
  <2>1. /\ owned' = owned
        /\ \/ locked' = locked
           \/ m \in owned[n] /\ locked' = [locked EXCEPT ![n] = @ \cup {m}]
    BY <1>8 DEF RequestLock
  <2> QED
    BY <1>1, <1>2, <2>1
<1>9. ASSUME NEW n \in Node, NEW m \in Monitor, RequestUnlock(n, m)
      PROVE  locked'[k] \subseteq owned'[k] /\ owned'[k] \subseteq created'[k]
  <2>1. \/ locked' = locked /\ owned' = owned
        \/ /\ locked' = [locked EXCEPT ![n] = @ \ {m}]
           /\ owned' = owned \/ owned' = [owned EXCEPT ![n] = @ \ {m}]
    BY <1>9 DEF RequestUnlock
  <2> QED
    BY <1>1, <1>2, <2>1
<1>10. ASSUME NEW n \in Node, NEW p \in Node, CrashInHandshake(n, p) \/ Disconnect(n, p)
       PROVE  locked'[k] \subseteq owned'[k] /\ owned'[k] \subseteq created'[k]
  BY <1>2, <1>10 DEF CrashInHandshake, Disconnect, tokenVars
<1>11. ASSUME NEW n \in Node, NEW m \in Monitor, TakeGrant(n, m)
       PROVE  locked'[k] \subseteq owned'[k] /\ owned'[k] \subseteq created'[k]
  BY <1>2, <1>11 DEF TakeGrant, tokenVars
<1>12. CASE UNCHANGED vars
  BY <1>2, <1>12 DEF vars, tokenVars
<1> QED
  BY <1>3, <1>4, <1>5, <1>6, <1>7, <1>8, <1>9, <1>10, <1>11, <1>12 DEF Next, Handle

LEMMA NextSettles ==
    ASSUME IInv, Meeting, Patient, Settles, [Next]_vars
    PROVE  Settles'
<1>1. TypeOK /\ SysEntryCreated /\ Meeting'
  BY NextMeeting DEF IInv
<1>2. ASSUME NEW n \in Node, NEW t \in Token \ created'[n] PROVE Unasked(n, t)'
  <2>1. t \in Token \ created[n]
    BY <1>1, CreatedGrows
  <2>2. ~Needs(n, t)'
    <3> SUFFICES ASSUME n \in startedCluster', t \in pendingRequests'[n] PROVE FALSE
      BY DEF Needs
    <3>1. n \in started'
      BY <1>1 DEF Meeting
    <3> QED
      BY <1>1, <1>2, <3>1, NextSysCreated, NextPendingCreated
  <2>3. Unasked(n, t)
    BY <2>1 DEF Settles
  <2> QED
    BY <1>1, <2>1, <2>2, <2>3, NextUnasked
<1>3. ASSUME NEW n \in Node
      PROVE  /\ n \in started' => SysToken \in created'[n]
             /\ pendingRequests'[n] \subseteq created'[n] \cup {SysToken}
             /\ locked'[n] \subseteq owned'[n] /\ owned'[n] \subseteq created'[n]
  BY <1>1, NextSysCreated, NextPendingCreated, NextOwnedCreated
<1> QED
  BY <1>2, <1>3 DEF Settles

LEMMA InitSettles == Init => Settles
<1> SUFFICES ASSUME Init, NEW n \in Node
             PROVE  /\ n \in started => SysToken \in created[n]
                    /\ pendingRequests[n] \subseteq created[n] \cup {SysToken}
                    /\ \A t \in Token \ created[n] : Unasked(n, t)
                    /\ locked[n] \subseteq owned[n] /\ owned[n] \subseteq created[n]
  BY DEF Settles
<1>1. n \in started => SysToken \in created[n]
  BY DEF Init
<1>2. /\ pendingRequests[n] \subseteq created[n] \cup {SysToken}
      /\ locked[n] \subseteq owned[n] /\ owned[n] \subseteq created[n]
  BY DEF Init
<1>3. \A t \in Token : Unasked(n, t)
  BY InitUnasked
<1> QED
  BY <1>1, <1>2, <1>3

LEMMA SettlesInvariant == ASSUME Patient PROVE Spec => []Settles
<1>1. Init => IInv /\ Meeting /\ Settles
  BY InitIInv, InitMeeting, InitSettles
<1>2. IInv /\ Meeting /\ Settles /\ [Next]_vars => (IInv /\ Meeting /\ Settles)'
  BY NextIInv, NextMeeting, NextSettles DEF IInv
<1> QED
  BY <1>1, <1>2, PTL DEF Spec

\* A thread is in the section, or on its way into it, only on a node that has the
\* token, if applications do not lock a monitor before the system token has told
\* their node that it exists: then no setOwned(false) takes a token back.
THEOREM LockedImpliesOwnedHolds == ASSUME Patient PROVE Spec => []LockedImpliesOwned
<1>1. Settles => LockedImpliesOwned
  BY DEF Settles, LockedImpliesOwned
<1> QED
  BY <1>1, SettlesInvariant, PTL

-----------------------------------------------------------------------------
(* Over connections that hold, and without the crash of the undefined loop, *)
(* no token is lost.                                                        *)

Reliable == MaxDisconnects = 0 /\ "crash" \notin EraseOutcomes

\* A packet with t is under way in w.
UnderWay(w, t) == \E a, b \in Node : \E i \in DOMAIN w[a][b] : Gives(w[a][b][i], t)

\* t has a place.
HasPlace(t) == UnderWay(net, t) \/ \E n \in Node : t \in owned[n]

LEMMA UnderWayReceived ==
    ASSUME net \in Channels, NEW n \in Node, NEW p \in Node, net[p][n] # <<>>,
           NEW t, UnderWay(net, t), ~Gives(Head(net[p][n]), t)
    PROVE  UnderWay(Received(n, p), t)
<1>1. PICK a \in Node, b \in Node : \E i \in DOMAIN net[a][b] : Gives(net[a][b][i], t)
  BY DEF UnderWay
<1>2. PICK i \in DOMAIN net[a][b] : Gives(net[a][b][i], t)
  BY <1>1
<1>3. net[a][b] \in Seq(Message) /\ net \in [Node -> [Node -> Seq(Message)]]
  BY DEF Channels
<1>4. CASE a = p /\ b = n
  <2>1. Received(n, p)[a][b] = Tail(net[a][b])
    BY <1>3, <1>4 DEF Received
  <2>2. i # 1
    BY <1>2, <1>3, <1>4
  <2>3. i - 1 \in DOMAIN Tail(net[a][b]) /\ Tail(net[a][b])[i - 1] = net[a][b][i]
    BY <1>3, <1>4, <2>2
  <2> QED
    BY <1>2, <2>1, <2>3 DEF UnderWay
<1>5. CASE ~(a = p /\ b = n)
  <2>1. Received(n, p)[a][b] = net[a][b]
    BY <1>3, <1>5 DEF Received
  <2> QED
    BY <1>2, <2>1 DEF UnderWay
<1> QED
  BY <1>4, <1>5

LEMMA UnderWayPost ==
    ASSUME NEW w \in Channels, NEW n \in Node, NEW peers, NEW msgs \in Seq(Message),
           NEW t, UnderWay(w, t)
    PROVE  UnderWay(Post(w, n, peers, msgs), t)
<1>1. PICK a \in Node, b \in Node : \E i \in DOMAIN w[a][b] : Gives(w[a][b][i], t)
  BY DEF UnderWay
<1>2. PICK i \in DOMAIN w[a][b] : Gives(w[a][b][i], t)
  BY <1>1
<1>3. w[a][b] \in Seq(Message) /\ w \in [Node -> [Node -> Seq(Message)]]
  BY DEF Channels
<1>4. \/ Post(w, n, peers, msgs)[a][b] = w[a][b]
      \/ Post(w, n, peers, msgs)[a][b] = w[a][b] \o msgs
  BY <1>3 DEF Post
<1>5. i \in DOMAIN (w[a][b] \o msgs) /\ (w[a][b] \o msgs)[i] = w[a][b][i]
  BY <1>3
<1> QED
  BY <1>2, <1>4, <1>5 DEF UnderWay

\* Over a connection that holds, what is sent is under way.
LEMMA UnderWaySent ==
    ASSUME NEW w \in Channels, NEW n \in Node, NEW d \in Node, {n, d} \notin cut,
           NEW msg \in Message, NEW t, Gives(msg, t)
    PROVE  UnderWay(Post(w, n, {d}, <<msg>>), t)
<1>1. w[n][d] \in Seq(Message) /\ w \in [Node -> [Node -> Seq(Message)]]
  BY DEF Channels
<1>2. Post(w, n, {d}, <<msg>>)[n][d] = w[n][d] \o <<msg>>
  BY <1>1 DEF Post
<1> DEFINE i == Len(w[n][d]) + 1
<1>3. i \in DOMAIN (w[n][d] \o <<msg>>) /\ (w[n][d] \o <<msg>>)[i] = msg
  BY <1>1
<1> QED
  BY <1>2, <1>3 DEF UnderWay

LEMMA UnderWayRequests ==
    ASSUME NEW w \in Channels, NEW n \in Node, NEW peers,
           NEW a \in [Token -> Alg], NEW T \in SUBSET Token, NEW order \in Orderings(T),
           NEW t, UnderWay(w, t)
    PROVE  UnderWay(Post(w, n, peers, RequestMsgs(a, n, order)), t)
  BY RequestMsgsType, UnderWayPost

LEMMA UnderWayRequestTokens ==
    ASSUME TypeOK, NEW n \in Node, NEW T \in SUBSET Token, RequestTokens(n, T),
           NEW t, UnderWay(net, t)
    PROVE  UnderWay(net', t)
<1> DEFINE new == T \ pendingRequests[n]
           numbered == Numbered(alg[n], n, new)
<1>1. net \in Channels
  BY DEF TypeOK, Channels
<1>2. CASE n \in startedCluster
  <2>1. PICK order \in Orderings(new) :
           net' = Post(net, n, links[n], RequestMsgs(numbered, n, order))
    BY <1>2 DEF RequestTokens
  <2>2. numbered \in [Token -> Alg]
    BY NumberedType DEF TypeOK
  <2>3. new \in SUBSET Token
    OBVIOUS
  <2> HIDE DEF numbered, new
  <2> QED
    BY <1>1, <2>1, <2>2, <2>3, UnderWayRequests
<1>3. CASE n \notin startedCluster
  BY <1>3 DEF RequestTokens
<1> QED
  BY <1>2, <1>3

-----------------------------------------------------------------------------
(* A token keeps a place.                                                   *)

LEMMA HandleConnectPlace ==
    ASSUME TypeOK, NEW n \in Node, NEW p \in Node, HandleConnect(n, p),
           NEW t, HasPlace(t)
    PROVE  HasPlace(t)'
<1> DEFINE first == Received(n, p)
           hello == <<ClusterHandshakeMsg>>
<1>1. /\ owned \in [Node -> SUBSET Token] /\ net \in Channels /\ net[p][n] # <<>>
      /\ Head(net[p][n]).type = "EdgeHandshake"
  BY DEF HandleConnect, Arrives, TypeOK, Channels
<1>2. first \in Channels /\ (UnderWay(net, t) => UnderWay(first, t))
  BY <1>1, ReceivedType, UnderWayReceived DEF Gives
<1>3. hello \in Seq(Message)
  BY MessageTypes
<1>4. /\ net' = first \/ net' = Post(first, n, links[n] \cup {p}, hello)
      /\ owned' = owned \/ owned' = [owned EXCEPT ![n] = @ \cup {SysToken}]
         \/ owned' = [owned EXCEPT ![n] = @]
  BY DEF HandleConnect
<1> HIDE DEF first, hello
<1>5. UnderWay(net, t) => UnderWay(net', t)
  BY <1>2, <1>3, <1>4, UnderWayPost
<1>6. \A k \in Node : t \in owned[k] => t \in owned'[k]
  BY <1>1, <1>4
<1> QED
  BY <1>5, <1>6 DEF HasPlace

LEMMA PacketClusterHandshakePlace ==
    ASSUME TypeOK, NEW n \in Node, NEW p \in Node, PacketClusterHandshake(n, p),
           NEW t, HasPlace(t)
    PROVE  HasPlace(t)'
<1> DEFINE first == Received(n, p)
           numbered == Numbered(alg[n], n, pendingRequests[n])
<1>1. /\ net \in Channels /\ net[p][n] # <<>> /\ owned' = owned
      /\ Head(net[p][n]).type = "ClusterHandshake"
  BY DEF PacketClusterHandshake, Arrives, TypeOK, Channels
<1>2. first \in Channels /\ (UnderWay(net, t) => UnderWay(first, t))
  BY <1>1, ReceivedType, UnderWayReceived DEF Gives
<1>3. \/ net' = first
      \/ \E order \in Orderings(pendingRequests[n]) :
            net' = Post(first, n, links[n], RequestMsgs(numbered, n, order))
  BY DEF PacketClusterHandshake
<1>4. numbered \in [Token -> Alg] /\ pendingRequests[n] \in SUBSET Token
  BY NumberedType DEF TypeOK
<1> HIDE DEF first, numbered
<1>5. UnderWay(net, t) => UnderWay(net', t)
  BY <1>2, <1>3, <1>4, UnderWayRequests
<1> QED
  BY <1>1, <1>5 DEF HasPlace

LEMMA PacketRequestTokenPlace ==
    ASSUME TypeOK, NEW n \in Node, NEW p \in Node, PacketRequestToken(n, p), cut = {},
           NEW t, HasPlace(t)
    PROVE  HasPlace(t)'
<1> DEFINE first == Received(n, p)
           msg == Head(net[p][n])
           o == msg.token
           updated == UpdateRequestNumber(alg[n][o], p, msg.number)
           give == TokenMsg(n, o, updated)
<1>1. /\ net \in Channels /\ net[p][n] # <<>> /\ owned \in [Node -> SUBSET Token]
      /\ msg.type = "RequestToken" /\ msg \in Message
  BY DEF PacketRequestToken, Arrives, TypeOK, Channels
<1>2. first \in Channels /\ (UnderWay(net, t) => UnderWay(first, t))
  BY <1>1, ReceivedType, UnderWayReceived DEF Gives
<1>3. CASE net' = first /\ owned' = owned
  BY <1>2, <1>3 DEF HasPlace
<1>4. CASE net' = Post(first, n, {p}, <<give>>) /\ owned' = [owned EXCEPT ![n] = @ \ {o}]
  <2>1. o \in Token /\ msg.number \in RequestNumber
    BY <1>1, MessageFields
  <2>2. updated \in Alg
    BY <2>1, UpdateType DEF TypeOK
  <2>3. known[n] \in SUBSET Monitor /\ (o # SysToken => data[n][o] \in Nat)
    BY <2>1 DEF TypeOK, Token
  <2>4. give \in Message
    <3> HIDE DEF updated, o
    <3> QED
      BY <2>1, <2>2, <2>3, TokenMsgType
  <2>5. Gives(give, o)
    BY DEF TokenMsg, GiveTokenMsg, Gives
  <2>6. <<give>> \in Seq(Message)
    BY <2>4
  <2> HIDE DEF give, first, o
  <2>7. UnderWay(net, t) => UnderWay(net', t)
    BY <1>2, <1>4, <2>6, UnderWayPost
  <2>8. UnderWay(net', o)
    BY <1>2, <1>4, <2>4, <2>5, UnderWaySent
  <2>9. \A k \in Node : t \in owned[k] => t = o \/ t \in owned'[k]
    BY <1>1, <1>4
  <2> QED
    BY <2>7, <2>8, <2>9 DEF HasPlace
<1>5. \/ net' = first /\ owned' = owned
      \/ net' = Post(first, n, {p}, <<give>>) /\ owned' = [owned EXCEPT ![n] = @ \ {o}]
  BY DEF PacketRequestToken
<1> QED
  BY <1>3, <1>4, <1>5

LEMMA RequestUnlockPlace ==
    ASSUME TypeOK, NEW n \in Node, NEW m \in Monitor, RequestUnlock(n, m), cut = {},
           NEW t, HasPlace(t)
    PROVE  HasPlace(t)'
<1>1. net \in Channels /\ owned \in [Node -> SUBSET Token]
  BY DEF TypeOK, Channels
<1>2. CASE net' = net /\ owned' = owned
  BY <1>2 DEF HasPlace
<1>3. CASE \E after \in Released(alg[n][m], n) :
             /\ after.queue # <<>>
             /\ net' = Post(net, n, {Head(after.queue)}, <<TokenMsg(n, m, Popped(after))>>)
             /\ owned' = [owned EXCEPT ![n] = @ \ {m}]
  <2>1. PICK after \in Released(alg[n][m], n) :
             /\ after.queue # <<>>
             /\ net' = Post(net, n, {Head(after.queue)}, <<TokenMsg(n, m, Popped(after))>>)
             /\ owned' = [owned EXCEPT ![n] = @ \ {m}]
    BY <1>3
  <2> DEFINE give == TokenMsg(n, m, Popped(after))
             d == Head(after.queue)
  <2>2. m \in Token /\ alg[n][m] \in Alg /\ known[n] \in SUBSET Monitor /\ data[n][m] \in Nat
    BY DEF TypeOK, Token
  <2>3. Popped(after) \in Alg /\ d \in Node
    BY <2>1, <2>2, ReleasedType, PoppedType
  <2>4. give \in Message
    BY <2>2, <2>3, TokenMsgType
  <2>5. Gives(give, m)
    BY DEF TokenMsg, GiveTokenMsg, Gives
  <2>6. <<give>> \in Seq(Message) /\ net' = Post(net, n, {d}, <<give>>)
    BY <2>1, <2>4
  <2> HIDE DEF give, d
  <2>7. UnderWay(net, t) => UnderWay(net', t)
    BY <1>1, <2>6, UnderWayPost
  <2>8. UnderWay(net', m)
    BY <1>1, <2>3, <2>4, <2>5, <2>6, UnderWaySent
  <2>9. \A k \in Node : t \in owned[k] => t = m \/ t \in owned'[k]
    BY <1>1, <2>1
  <2> QED
    BY <2>7, <2>8, <2>9 DEF HasPlace
<1> QED
  BY <1>2, <1>3 DEF RequestUnlock

LEMMA CallsPlace ==
    ASSUME TypeOK, NEW n \in Node, NEW m \in Monitor,
           HandleNew(n, m) \/ RequestLock(n, m) \/ TakeGrant(n, m), NEW t, HasPlace(t)
    PROVE  HasPlace(t)'
<1>1. \/ net' = net
      \/ RequestTokens(n, {m})
      \/ RequestTokens(n, {SysToken})
  BY DEF HandleNew, RequestLock, TakeGrant
<1>2. {m} \in SUBSET Token /\ {SysToken} \in SUBSET Token
  BY DEF Token
<1>3. UnderWay(net, t) => UnderWay(net', t)
  BY <1>1, <1>2, UnderWayRequestTokens
<1>4. \/ owned' = owned
      \/ owned' = [owned EXCEPT ![n] = @ \cup {m}]
      \/ owned' = [owned EXCEPT ![n] = @]
  BY DEF HandleNew, RequestLock, TakeGrant, tokenVars
<1>5. \A k \in Node : t \in owned[k] => t \in owned'[k]
  BY <1>4 DEF TypeOK
<1> QED
  BY <1>3, <1>5 DEF HasPlace

\* The system token's answer takes no token from the node: what it lists as found
\* elsewhere was not created here, hence not owned here.
LEMMA TakeSystemTokenPlace ==
    ASSUME IInv, Settles, NEW n \in Node, NEW p \in Node,
           Arrives(n, p, "GiveToken"), Head(net[p][n]).token = SysToken,
           TakeSystemToken(n, p, Head(net[p][n])), cut = {}, NEW t, HasPlace(t)
    PROVE  HasPlace(t)'
<1> DEFINE msg == Head(net[p][n])
           fresh == private[n] \ created[n]
           found == fresh \cap msg.monitors
           adopted == fresh \ msg.monitors
           new == (found \cap pendingGrants[n]) \ pendingRequests[n]
           holds == (owned[n] \ found) \cup adopted \cup {SysToken}
           registered == msg.monitors \cup adopted
           loaded == [alg[n] EXCEPT ![SysToken] = LoadProperties(@, msg.ln, msg.queue)]
           numbered == IF n \in startedCluster THEN Numbered(loaded, n, new) ELSE loaded
           asks == IF n \in startedCluster THEN new ELSE {}
           first == Received(n, p)
<1>1. /\ net \in Channels /\ msg.type = "GiveToken" /\ msg \in Message
      /\ first \in Channels /\ net[p][n] # <<>> /\ owned \in [Node -> SUBSET Token]
      /\ TypeOK /\ SysEntryCreated
  BY ReceivedType DEF Arrives, TypeOK, Channels, IInv
<1>2. /\ msg.ln \in [Node -> RequestNumber] /\ msg.queue \in Seq(Node)
      /\ msg.monitors \in SUBSET Monitor /\ SysToken \in Token
  BY <1>1, MessageFields DEF Token
<1>3. asks \in SUBSET Token /\ adopted \in SUBSET Monitor
  <2>1. private[n] \ {SysToken} \in SUBSET Monitor
    BY <1>1 DEF TypeOK, Token
  <2>2. SysToken \notin fresh
    BY <1>1 DEF SysEntryCreated
  <2> QED
    BY <1>1, <2>1, <2>2 DEF TypeOK
<1>4. numbered \in [Token -> Alg]
  <2>1. alg[n] \in [Token -> Alg] /\ alg[n][SysToken] \in Alg
    BY <1>1, <1>2 DEF TypeOK
  <2>2. loaded \in [Token -> Alg]
    BY <1>2, <2>1, LoadType
  <2> HIDE DEF loaded
  <2> QED
    BY <2>2, NumberedType
<1>5. PICK after \in Released(numbered[SysToken], n), order \in Orderings(asks) :
         LET asked == Post(first, n, links[n], RequestMsgs(numbered, n, order))
         IN  IF after.queue = <<>>
             THEN /\ owned' = [owned EXCEPT ![n] = holds]
                  /\ alg' = [alg EXCEPT ![n] = [numbered EXCEPT ![SysToken] = after]]
                  /\ net' = asked
             ELSE /\ owned' = [owned EXCEPT ![n] = holds \ {SysToken}]
                  /\ alg' = [alg EXCEPT ![n] = [numbered EXCEPT ![SysToken] = Popped(after)]]
                  /\ net' = Post(asked, n, {Head(after.queue)},
                                 <<GiveTokenMsg(SysToken, Popped(after), registered, 0)>>)
  BY DEF TakeSystemToken
<1> DEFINE asked == Post(first, n, links[n], RequestMsgs(numbered, n, order))
           give == GiveTokenMsg(SysToken, Popped(after), registered, 0)
<1>6. /\ asked \in Channels
      /\ UnderWay(net, t) /\ t # SysToken => UnderWay(asked, t)
  <2>1. UnderWay(net, t) /\ t # SysToken => UnderWay(first, t)
    BY <1>1, UnderWayReceived DEF Gives
  <2> HIDE DEF numbered, asks, first
  <2>2. UnderWay(first, t) => UnderWay(asked, t)
    BY <1>1, <1>3, <1>4, <1>5, UnderWayRequests
  <2>3. asked \in Channels
    BY <1>1, <1>3, <1>4, <1>5, RequestMsgsType, PostType
  <2> QED
    BY <2>1, <2>2, <2>3
<1>7. owned[n] \subseteq holds
  BY DEF Settles
<1>8. CASE after.queue = <<>>
  <2>1. net' = asked /\ owned' = [owned EXCEPT ![n] = holds] /\ SysToken \in holds
    BY <1>5, <1>8
  <2> HIDE DEF asked, holds
  <2>2. \A k \in Node : t \in owned[k] => t \in owned'[k]
    BY <1>1, <1>7, <2>1
  <2>3. SysToken \in owned'[n]
    BY <1>1, <2>1
  <2> QED
    BY <1>6, <2>1, <2>2, <2>3 DEF HasPlace
<1>9. CASE after.queue # <<>>
  <2>1. after \in Alg
    <3>1. numbered[SysToken] \in Alg
      BY <1>2, <1>4
    <3> HIDE DEF numbered
    <3> QED
      BY <1>5, <3>1, ReleasedType
  <2>2. Popped(after) \in Alg /\ Head(after.queue) \in Node
    BY <1>9, <2>1, PoppedType
  <2>3. registered \in SUBSET Monitor
    BY <1>2, <1>3
  <2>4. give \in Message /\ Gives(give, SysToken)
    <3>1. give \in Message
      <4> HIDE DEF registered
      <4> QED
        BY <1>2, <2>2, <2>3, MessageTypes
    <3> QED
      BY <3>1 DEF GiveTokenMsg, Gives
  <2>5. /\ net' = Post(asked, n, {Head(after.queue)}, <<give>>)
        /\ owned' = [owned EXCEPT ![n] = holds \ {SysToken}]
    BY <1>5, <1>9
  <2> HIDE DEF asked, give, holds
  <2>6. UnderWay(net', SysToken)
    BY <1>6, <2>2, <2>4, <2>5, UnderWaySent
  <2>7. <<give>> \in Seq(Message)
    BY <2>4
  <2>8. UnderWay(asked, t) => UnderWay(net', t)
    BY <1>6, <2>5, <2>7, UnderWayPost
  <2>9. \A k \in Node : t \in owned[k] => t = SysToken \/ t \in owned'[k]
    BY <1>1, <1>7, <2>5
  <2> QED
    BY <1>6, <2>6, <2>8, <2>9 DEF HasPlace
<1> QED
  BY <1>8, <1>9

LEMMA PacketGiveTokenPlace ==
    ASSUME IInv, Settles, NoPacketDiscarded, NEW n \in Node, NEW p \in Node,
           PacketGiveToken(n, p), cut = {}, NEW t, HasPlace(t)
    PROVE  HasPlace(t)'
<1> DEFINE msg == Head(net[p][n])
<1>1. Arrives(n, p, "GiveToken") /\ TypeOK
  BY DEF PacketGiveToken, IInv
<1>2. net \in Channels /\ net[p][n] # <<>> /\ owned \in [Node -> SUBSET Token]
  BY <1>1 DEF Arrives, TypeOK, Channels
<1>3. ~Unexpected(n, msg.token)
  <2>1. 1 \in DOMAIN net[p][n] /\ net[p][n][1] = msg /\ msg.type = "GiveToken"
    BY <1>1, <1>2 DEF Arrives, Channels
  <2> QED
    BY <2>1 DEF NoPacketDiscarded, Unexpected
<1>4. CASE msg.token = SysToken /\ TakeSystemToken(n, p, msg)
  BY <1>1, <1>4, TakeSystemTokenPlace
<1>5. CASE TakeMonitorToken(n, p, msg)
  <2>1. net' = Received(n, p) /\ owned' = [owned EXCEPT ![n] = @ \cup {msg.token}]
    BY <1>5 DEF TakeMonitorToken
  <2>2. UnderWay(net, t) => UnderWay(net', t) \/ t = msg.token
    BY <1>2, <2>1, UnderWayReceived DEF Gives
  <2>3. msg.token \in owned'[n] /\ \A k \in Node : t \in owned[k] => t \in owned'[k]
    BY <1>2, <2>1
  <2> QED
    BY <2>2, <2>3 DEF HasPlace
<1> QED
  BY <1>3, <1>4, <1>5 DEF PacketGiveToken

\* No connection breaks and no process crashes.
LEMMA NextFaults ==
    ASSUME Reliable, cut = {}, dead = {}, [Next]_vars
    PROVE  /\ \A n, p \in Node : ~CrashInHandshake(n, p) /\ ~Disconnect(n, p)
           /\ cut' = {} /\ dead' = {}
<1>1. \A n, p \in Node : ~CrashInHandshake(n, p) /\ ~Disconnect(n, p)
  <2>1. Cardinality(cut) = 0
    BY FS_EmptySet
  <2> QED
    BY <2>1, BoundAssumption DEF Reliable, CrashInHandshake, Disconnect
<1>2. ASSUME NEW n \in Node, NEW p \in Node, Handle(n, p) PROVE UNCHANGED faultVars
  BY <1>2 DEF Handle, HandleConnect, PacketClusterHandshake, PacketGiveToken,
     PacketRequestToken, TakeSystemToken, TakeMonitorToken
<1>3. ASSUME NEW n \in Node, NEW m \in Monitor,
             \/ HandleNew(n, m) \/ RequestLock(n, m)
             \/ TakeGrant(n, m) \/ RequestUnlock(n, m)
      PROVE  UNCHANGED faultVars
  BY <1>3 DEF HandleNew, RequestLock, TakeGrant, RequestUnlock
<1>4. UNCHANGED vars => UNCHANGED faultVars
  BY DEF vars
<1> QED
  BY <1>1, <1>2, <1>3, <1>4 DEF Next, faultVars

LEMMA NextPlace ==
    ASSUME Reliable, IInv, Settles, NoPacketDiscarded, cut = {}, dead = {}, [Next]_vars,
           NEW t, HasPlace(t)
    PROVE  HasPlace(t)'
<1>1. TypeOK
  BY DEF IInv
<1>2. \A n, p \in Node : ~CrashInHandshake(n, p) /\ ~Disconnect(n, p)
  BY NextFaults
<1>3. UNCHANGED vars => HasPlace(t)'
  BY DEF vars, tokenVars, HasPlace
<1> QED
  BY <1>1, <1>2, <1>3, HandleConnectPlace, PacketClusterHandshakePlace,
     PacketGiveTokenPlace, PacketRequestTokenPlace, CallsPlace, RequestUnlockPlace
     DEF Next, Handle

-----------------------------------------------------------------------------
(* Every monitor the system token comes to list has a token.                *)

\* The system token, wherever it is, lists m.
Listed(m) ==
    \/ \E k \in Node : SysToken \in owned[k] /\ m \in known[k]
    \/ \E a, b \in Node : \E i \in Nat :
          Carries(net, a, b, i, SysToken) /\ m \in net[a][b][i].monitors

\* The system token is made with the monitors node 0 has entries for.
Founded(m) == 0 \notin started /\ m \in private[0]

Conserved ==
    /\ cut = {} /\ dead = {}
    /\ IF 0 \in started
       THEN HasPlace(SysToken) /\ \A m \in Monitor : Listed(m) => HasPlace(m)
       ELSE \A m \in Monitor \cap private[0] : HasPlace(m)

\* A step that sends no token and teaches nobody who has the system token.
LEMMA ListedQuiet ==
    ASSUME net' \in Channels, NoneSent, NEW m, Listed(m)',
           \A k \in Node : SysToken \in owned'[k] /\ m \in known'[k] =>
              SysToken \in owned[k] /\ m \in known[k]
    PROVE  Listed(m)
<1>1. ASSUME NEW a \in Node, NEW b \in Node, NEW i \in Nat,
             Carries(net', a, b, i, SysToken), m \in net'[a][b][i].monitors
      PROVE  Listed(m)
  <2>1. Earlier(a, b, SysToken, net'[a][b][i])
    BY <1>1, NoneSentOrigin
  <2> QED
    BY <1>1, <2>1 DEF Earlier, Listed
<1> QED
  BY <1>1 DEF Listed

LEMMA HandleConnectListed ==
    ASSUME IInv, net' \in Channels, NEW n \in Node, NEW p \in Node, HandleConnect(n, p),
           NEW m \in Monitor, Listed(m)'
    PROVE  Listed(m) \/ Founded(m)
<1>1. /\ owned \in [Node -> SUBSET Token] /\ known \in [Node -> SUBSET Monitor] /\ TypeOK
  BY DEF IInv, TypeOK
<1>2. NoneSent /\ 0 \in Node
  BY <1>1, QuietActions, NAssumption DEF Node
<1>3. CASE ~Founded(m)
  <2>1. \/ owned' = owned /\ known' = known
        \/ owned' = [owned EXCEPT ![n] = @] /\ known' = [known EXCEPT ![n] = @]
        \/ n = 0 /\ n \notin started /\ known' = [known EXCEPT ![0] = private[0] \ {SysToken}]
           /\ owned' = [owned EXCEPT ![0] = @ \cup {SysToken}]
    BY DEF HandleConnect
  <2>2. \A k \in Node : SysToken \in owned'[k] /\ m \in known'[k] =>
           SysToken \in owned[k] /\ m \in known[k]
    BY <1>1, <1>2, <1>3, <2>1 DEF Founded
  <2> QED
    BY <1>2, <2>2, ListedQuiet
<1> QED
  BY <1>3

LEMMA HandleNewListed ==
    ASSUME IInv, net' \in Channels, NEW n \in Node, NEW o \in Monitor, HandleNew(n, o),
           NEW m \in Monitor, Listed(m)'
    PROVE  Listed(m) \/ HasPlace(m)'
<1>1. /\ owned \in [Node -> SUBSET Token] /\ known \in [Node -> SUBSET Monitor] /\ TypeOK
  BY DEF IInv, TypeOK
<1>2. NoneSent /\ o # SysToken
  <2>1. NoneSent
    BY <1>1, QuietCalls
  <2>2. o # SysToken
    BY MonitorAssumption
  <2> QED
    BY <2>1, <2>2
<1>3. \/ owned' = owned /\ known' = known
      \/ /\ owned' = [owned EXCEPT ![n] = @ \cup {o}]
         /\ known' = known \/ known' = [known EXCEPT ![n] = @ \cup {o}]
            \/ known' = [known EXCEPT ![n] = @]
      \/ owned' = [owned EXCEPT ![n] = @] /\ known' = [known EXCEPT ![n] = @]
  BY DEF HandleNew
<1>4. CASE m = o /\ owned' = [owned EXCEPT ![n] = @ \cup {o}]
  <2>1. m \in owned'[n]
    BY <1>1, <1>4
  <2> QED
    BY <2>1 DEF HasPlace
<1>5. CASE ~(m = o /\ owned' = [owned EXCEPT ![n] = @ \cup {o}])
  <2>1. \A k \in Node : SysToken \in owned'[k] /\ m \in known'[k] =>
           SysToken \in owned[k] /\ m \in known[k]
    BY <1>1, <1>2, <1>3, <1>5
  <2> QED
    BY <1>2, <2>1, ListedQuiet
<1> QED
  BY <1>4, <1>5

LEMMA PacketRequestTokenListed ==
    ASSUME IInv, net' \in Channels, NEW n \in Node, NEW p \in Node, PacketRequestToken(n, p),
           NEW m \in Monitor, Listed(m)'
    PROVE  Listed(m)
<1>1. owned \in [Node -> SUBSET Token] /\ TypeOK
  BY DEF IInv, TypeOK
<1>2. /\ known' = known
      /\ \/ owned' = owned
         \/ \E t : owned' = [owned EXCEPT ![n] = @ \ {t}]
  BY DEF PacketRequestToken
<1>3. \A k \in Node : SysToken \in owned'[k] => SysToken \in owned[k]
  BY <1>1, <1>2
<1>4. CASE NoneSent
  BY <1>2, <1>3, <1>4, ListedQuiet
<1>5. ASSUME NEW msg \in Message, Sends(n, msg), msg.token \in owned[n],
             msg.token = SysToken => msg.monitors = known[n]
      PROVE  Listed(m)
  <2>1. ASSUME NEW a \in Node, NEW b \in Node, NEW i \in Nat,
               Carries(net', a, b, i, SysToken), m \in net'[a][b][i].monitors
        PROVE  Listed(m)
    <3>1. \/ Earlier(a, b, SysToken, net'[a][b][i])
          \/ a = n /\ Gives(msg, SysToken) /\ net'[a][b][i] = msg
      BY <1>5, <2>1, SendsOrigin
    <3> QED
      BY <1>5, <2>1, <3>1 DEF Earlier, Gives, Listed
  <2> QED
    BY <1>2, <1>3, <2>1 DEF Listed
<1> QED
  BY <1>1, <1>4, <1>5, PacketRequestTokenSends

LEMMA RequestUnlockListed ==
    ASSUME IInv, net' \in Channels, NEW n \in Node, NEW o \in Monitor, RequestUnlock(n, o),
           NEW m \in Monitor, Listed(m)'
    PROVE  Listed(m)
<1>1. owned \in [Node -> SUBSET Token] /\ TypeOK
  BY DEF IInv, TypeOK
<1>2. /\ known' = known
      /\ owned' = owned \/ owned' = [owned EXCEPT ![n] = @ \ {o}]
  BY DEF RequestUnlock
<1>3. \A k \in Node : SysToken \in owned'[k] => SysToken \in owned[k]
  BY <1>1, <1>2
<1>4. CASE NoneSent
  BY <1>2, <1>3, <1>4, ListedQuiet
<1>5. ASSUME NEW msg \in Message, Sends(n, msg), msg.token = o PROVE Listed(m)
  <2>1. o # SysToken
    BY MonitorAssumption
  <2>2. ASSUME NEW a \in Node, NEW b \in Node, NEW i \in Nat,
               Carries(net', a, b, i, SysToken), m \in net'[a][b][i].monitors
        PROVE  Listed(m)
    <3>1. Earlier(a, b, SysToken, net'[a][b][i])
      BY <1>5, <2>1, <2>2, SendsOrigin DEF Gives
    <3> QED
      BY <2>2, <3>1 DEF Earlier, Listed
  <2> QED
    BY <1>2, <1>3, <2>2 DEF Listed
<1> QED
  BY <1>1, <1>4, <1>5, RequestUnlockSends

\* What the node adopts it owns, and what is in the packet was listed before.
LEMMA TakeSystemTokenListed ==
    ASSUME IInv, net' \in Channels, NEW n \in Node, NEW p \in Node,
           Arrives(n, p, "GiveToken"), NEW msg, msg = Head(net[p][n]),
           msg.token = SysToken, TakeSystemToken(n, p, msg),
           NEW m \in Monitor, Listed(m)'
    PROVE  Listed(m) \/ HasPlace(m)'
<1> DEFINE adopted == (private[n] \ created[n]) \ msg.monitors
           holds == (owned[n] \ ((private[n] \ created[n]) \cap msg.monitors))
                       \cup adopted \cup {SysToken}
<1>1. /\ TypeOK /\ SysEntryCreated /\ OneCarrier /\ known \in [Node -> SUBSET Monitor]
      /\ SysToken \in Token /\ msg.type = "GiveToken" /\ 1 \in DOMAIN net[p][n]
      /\ net[p][n][1] = msg /\ owned \in [Node -> SUBSET Token]
  <2>1. net[p][n] \in Seq(Message) /\ net[p][n] # <<>> /\ msg.type = "GiveToken"
    BY DEF IInv, TypeOK, Arrives
  <2>2. 1 \in DOMAIN net[p][n] /\ net[p][n][1] = msg
    BY <2>1
  <2> QED
    BY <2>1, <2>2 DEF IInv, TypeOK, Token
<1>2. Carries(net, p, n, 1, SysToken) /\ OneCarrierOf(SysToken)
  BY <1>1 DEF Carries, Gives, OneCarrier
<1>3. m \in msg.monitors => Listed(m)
  BY <1>1, <1>2 DEF Listed
<1>4. m \in adopted => HasPlace(m)'
  <2>1. owned' = [owned EXCEPT ![n] = holds] \/ owned' = [owned EXCEPT ![n] = holds \ {SysToken}]
    BY DEF TakeSystemToken
  <2>2. m # SysToken
    BY MonitorAssumption
  <2>3. m \in adopted => m \in holds
    OBVIOUS
  <2> HIDE DEF holds, adopted
  <2>4. m \in adopted => m \in owned'[n]
    BY <1>1, <2>1, <2>2, <2>3
  <2> QED
    BY <2>4 DEF HasPlace
<1>5. m \in known'[n] => m \in msg.monitors \/ m \in adopted
  <2>1. known' = [known EXCEPT ![n] = msg.monitors \cup adopted]
    BY DEF TakeSystemToken
  <2> HIDE DEF adopted
  <2> QED
    BY <1>1, <2>1
<1>6. ASSUME NEW k \in Node, SysToken \in owned'[k] PROVE k = n
  <2>1. SysToken \notin owned[k]
    BY <1>2 DEF OneCarrierOf, Held
  <2>2. \E S : owned' = [owned EXCEPT ![n] = S]
    BY DEF TakeSystemToken
  <2> QED
    BY <1>1, <1>6, <2>1, <2>2
<1>7. ASSUME NEW a \in Node, NEW b \in Node, NEW i \in Nat,
             Carries(net', a, b, i, SysToken), m \in net'[a][b][i].monitors
      PROVE  Listed(m) \/ m \in known'[n]
  <2>1. CASE Earlier(a, b, SysToken, net'[a][b][i])
    BY <1>7, <2>1 DEF Earlier, Listed
  <2>2. CASE ~Earlier(a, b, SysToken, net'[a][b][i])
    <3>1. ~NoneSent
      BY <1>7, <2>2, NoneSentOrigin
    <3>2. PICK give \in Message :
             Sends(n, give) /\ give.token = SysToken /\ give.monitors = known'[n]
      BY <1>1, <3>1, TakeSystemTokenSends
    <3>3. net'[a][b][i] = give
      BY <1>7, <2>2, <3>2, SendsOrigin
    <3> QED
      BY <1>7, <3>2, <3>3
  <2> QED
    BY <2>1, <2>2
<1>8. Listed(m) \/ m \in known'[n]
  BY <1>6, <1>7 DEF Listed
<1> QED
  BY <1>3, <1>4, <1>5, <1>8

LEMMA NextListed ==
    ASSUME IInv, net' \in Channels, [Next]_vars, NEW m \in Monitor, Listed(m)'
    PROVE  Listed(m) \/ HasPlace(m)' \/ Founded(m)
<1>1. TypeOK
  BY DEF IInv
<1>2. ASSUME NoneSent, UNCHANGED <<owned, known>> PROVE Listed(m)
  BY <1>2, ListedQuiet
<1>3. ASSUME NEW n \in Node, NEW p \in Node,
             PacketClusterHandshake(n, p) \/ CrashInHandshake(n, p) \/ Disconnect(n, p)
      PROVE  Listed(m)
  <2>1. NoneSent
    BY <1>1, <1>3, QuietActions
  <2>2. UNCHANGED <<owned, known>>
    BY <1>3 DEF PacketClusterHandshake, CrashInHandshake, Disconnect, tokenVars
  <2> QED
    BY <1>2, <2>1, <2>2
<1>4. ASSUME NEW n \in Node, NEW o \in Monitor, RequestLock(n, o) \/ TakeGrant(n, o)
      PROVE  Listed(m)
  <2>1. NoneSent
    BY <1>1, <1>4, QuietCalls
  <2>2. UNCHANGED <<owned, known>>
    BY <1>4 DEF RequestLock, TakeGrant, tokenVars
  <2> QED
    BY <1>2, <2>1, <2>2
<1>5. ASSUME NEW n \in Node, NEW p \in Node, PacketGiveToken(n, p)
      PROVE  Listed(m) \/ HasPlace(m)'
  <2> DEFINE msg == Head(net[p][n])
  <2>1. Arrives(n, p, "GiveToken") /\ owned \in [Node -> SUBSET Token]
    BY <1>1, <1>5 DEF PacketGiveToken, TypeOK
  <2>2. CASE msg.token = SysToken /\ TakeSystemToken(n, p, msg)
    BY <2>1, <2>2, TakeSystemTokenListed
  <2>3. CASE Unexpected(n, msg.token)
    <3>1. net' = Received(n, p) /\ UNCHANGED <<owned, known>>
      BY <1>5, <2>3 DEF PacketGiveToken, tokenVars
    <3> QED
      BY <1>1, <1>2, <2>1, <3>1, TakeMonitorTokenSends
  <2>4. CASE msg.token # SysToken /\ TakeMonitorToken(n, p, msg)
    <3>1. /\ net' = Received(n, p) /\ known' = known
          /\ owned' = [owned EXCEPT ![n] = @ \cup {msg.token}]
      BY <2>4 DEF TakeMonitorToken
    <3>2. NoneSent
      BY <1>1, <2>1, <3>1, TakeMonitorTokenSends
    <3>3. \A k \in Node : SysToken \in owned'[k] => SysToken \in owned[k]
      BY <2>1, <2>4, <3>1
    <3> QED
      BY <3>1, <3>2, <3>3, ListedQuiet
  <2> QED
    BY <1>5, <2>2, <2>3, <2>4 DEF PacketGiveToken
<1>6. CASE UNCHANGED vars
  <2>1. net' = net /\ UNCHANGED <<owned, known>>
    BY <1>6 DEF vars, tokenVars
  <2>2. NoneSent
    BY <1>1, <2>1, FollowsSelf DEF NoneSent, TypeOK, Channels
  <2> QED
    BY <1>2, <2>1, <2>2
<1> QED
  BY <1>3, <1>4, <1>5, <1>6, HandleConnectListed, HandleNewListed,
     PacketRequestTokenListed, RequestUnlockListed DEF Next, Handle

\* Before node 0 has started, what it creates gets its token at once.
LEMMA NextFounder ==
    ASSUME IInv, [Next]_vars, 0 \notin started', NEW m \in Monitor, m \in private'[0]
    PROVE  m \in private[0] \/ HasPlace(m)'
<1>1. /\ private \in [Node -> SUBSET Token] /\ owned \in [Node -> SUBSET Token] /\ 0 \in Node
      /\ m # SysToken
  <2>1. m # SysToken
    BY MonitorAssumption
  <2> QED
    BY <2>1, NAssumption DEF IInv, TypeOK, Node
<1>2. ASSUME NEW n \in Node, NEW p \in Node, HandleConnect(n, p) PROVE m \in private[0]
  <2>1. private' = private \/ private' = [private EXCEPT ![n] = @ \cup {SysToken}]
    BY <1>2 DEF HandleConnect
  <2> QED
    BY <1>1, <2>1
<1>3. ASSUME NEW n \in Node, NEW p \in Node, PacketRequestToken(n, p) PROVE m \in private[0]
  <2>1. n \notin started => private' = private
    BY <1>3 DEF PacketRequestToken
  <2>2. \E t : private' = private \/ private' = [private EXCEPT ![n] = @ \cup {t}]
    BY <1>3 DEF PacketRequestToken
  <2>3. started' = started
    BY <1>3 DEF PacketRequestToken, nodeVars
  <2> QED
    BY <1>1, <2>1, <2>2, <2>3
<1>4. ASSUME NEW n \in Node, NEW o \in Monitor, HandleNew(n, o)
      PROVE  m \in private[0] \/ HasPlace(m)'
  <2>1. CASE m \notin private[0]
    <3>1. /\ started' = started
          /\ \/ private' = private
             \/ /\ private' = [private EXCEPT ![n] = @ \cup {o}]
                /\ owned' = [owned EXCEPT ![n] = IF Adopts(n, o) THEN @ \cup {o} ELSE @]
      BY <1>4 DEF HandleNew, nodeVars
    <3>2. /\ n = 0 /\ o = m
          /\ owned' = [owned EXCEPT ![n] = IF Adopts(n, o) THEN @ \cup {o} ELSE @]
      BY <1>1, <2>1, <3>1
    <3>3. Adopts(n, o)
      BY <3>1, <3>2 DEF Adopts
    <3>4. m \in owned'[0]
      BY <1>1, <3>2, <3>3
    <3> QED
      BY <1>1, <3>4 DEF HasPlace
  <2> QED
    BY <2>1
<1>5. ASSUME NEW n \in Node, NEW p \in Node,
             \/ PacketClusterHandshake(n, p) \/ PacketGiveToken(n, p)
             \/ CrashInHandshake(n, p) \/ Disconnect(n, p)
      PROVE  private' = private
  BY <1>5 DEF PacketClusterHandshake, PacketGiveToken, TakeSystemToken, TakeMonitorToken,
     CrashInHandshake, Disconnect, tokenVars
<1>6. ASSUME NEW n \in Node, NEW o \in Monitor,
             RequestLock(n, o) \/ TakeGrant(n, o) \/ RequestUnlock(n, o)
      PROVE  private' = private
  BY <1>6 DEF RequestLock, TakeGrant, RequestUnlock, tokenVars
<1>7. UNCHANGED vars => private' = private
  BY DEF vars, tokenVars
<1> QED
  BY <1>2, <1>3, <1>4, <1>5, <1>6, <1>7 DEF Next, Handle

LEMMA NextStarted ==
    ASSUME IInv, [Next]_vars
    PROVE  started \subseteq started' /\ (0 \in started' \ started => SysToken \in owned'[0])
<1>1. owned \in [Node -> SUBSET Token] /\ 0 \in Node
  BY NAssumption DEF IInv, TypeOK, Node
<1>2. ASSUME NEW n \in Node, NEW p \in Node, HandleConnect(n, p)
      PROVE  \/ started' = started
             \/ /\ started' = started \cup {n}
                /\ n = 0 => owned' = [owned EXCEPT ![0] = @ \cup {SysToken}]
  BY <1>2 DEF HandleConnect
<1>3. ASSUME NEW n \in Node, NEW p \in Node,
             \/ PacketClusterHandshake(n, p) \/ PacketGiveToken(n, p)
             \/ PacketRequestToken(n, p) \/ CrashInHandshake(n, p) \/ Disconnect(n, p)
      PROVE  started' = started
  BY <1>3 DEF PacketClusterHandshake, PacketGiveToken, TakeSystemToken, TakeMonitorToken,
     PacketRequestToken, CrashInHandshake, Disconnect, nodeVars
<1>4. ASSUME NEW n \in Node, NEW o \in Monitor,
             \/ HandleNew(n, o) \/ RequestLock(n, o)
             \/ TakeGrant(n, o) \/ RequestUnlock(n, o)
      PROVE  started' = started
  BY <1>4 DEF HandleNew, RequestLock, TakeGrant, RequestUnlock, nodeVars
<1>5. UNCHANGED vars => started' = started
  BY DEF vars, nodeVars
<1> QED
  BY <1>1, <1>2, <1>3, <1>4, <1>5 DEF Next, Handle

LEMMA NextConserved ==
    ASSUME Reliable, IInv, IInv', Settles, NoPacketDiscarded, Conserved, [Next]_vars
    PROVE  Conserved'
<1>1. net' \in Channels
  BY DEF IInv, TypeOK, Channels
<1>2. \A t : HasPlace(t) => HasPlace(t)'
  BY NextPlace DEF Conserved
<1>3. cut' = {} /\ dead' = {}
  BY NextFaults DEF Conserved
<1>4. 0 \in Node
  BY NAssumption DEF Node
<1>5. CASE 0 \notin started'
  <2>1. 0 \notin started
    BY <1>5, NextStarted
  <2>2. \A m \in Monitor \cap private'[0] : HasPlace(m)'
    BY <1>2, <1>5, <2>1, NextFounder DEF Conserved
  <2> QED
    BY <1>3, <1>5, <2>2 DEF Conserved
<1>6. CASE 0 \in started'
  <2>1. HasPlace(SysToken)'
    <3>1. CASE 0 \in started
      BY <1>2, <3>1 DEF Conserved
    <3>2. CASE 0 \notin started
      <4>1. SysToken \in owned'[0]
        BY <1>6, <3>2, NextStarted
      <4> QED
        BY <1>4, <4>1 DEF HasPlace
    <3> QED
      BY <3>1, <3>2
  <2>2. ASSUME NEW m \in Monitor, Listed(m) \/ Founded(m) PROVE HasPlace(m)
    <3>1. CASE 0 \in started
      BY <2>2, <3>1 DEF Conserved, Founded
    <3>2. CASE 0 \notin started
      <4>1. ~Listed(m)
        BY <3>2 DEF IInv, OneCarrier, BeforeStart, Carried, Held, Listed
      <4> QED
        BY <2>2, <3>2, <4>1 DEF Conserved, Founded
    <3> QED
      BY <3>1, <3>2
  <2>3. ASSUME NEW m \in Monitor, Listed(m)' PROVE HasPlace(m)'
    BY <1>1, <1>2, <2>2, <2>3, NextListed
  <2> QED
    BY <1>3, <1>6, <2>1, <2>3 DEF Conserved
<1> QED
  BY <1>5, <1>6

LEMMA InitConserved == Init => Conserved
<1> SUFFICES ASSUME Init PROVE Conserved
  OBVIOUS
<1>1. cut = {} /\ dead = {} /\ 0 \in Node
  BY NAssumption DEF Init, Node
<1>2. ~\E m : Listed(m)
  <2>1. ASSUME NEW m, NEW k \in Node PROVE m \notin known[k]
    BY DEF Init
  <2>2. ASSUME NEW a \in Node, NEW b \in Node, NEW i \in Nat PROVE ~Carries(net, a, b, i, SysToken)
    BY DEF Init, Carries, Gives, EdgeHandshakeMsg
  <2> QED
    BY <2>1, <2>2 DEF Listed
<1>3. CASE N = 1
  <2>1. SysToken \in owned[0] /\ 0 \in started
    BY <1>1, <1>3 DEF Init
  <2> QED
    BY <1>1, <1>2, <2>1 DEF Conserved, HasPlace
<1>4. CASE N # 1
  <2>1. private[0] = {} /\ 0 \notin started
    BY <1>1, <1>4 DEF Init
  <2> QED
    BY <1>1, <2>1 DEF Conserved
<1> QED
  BY <1>3, <1>4

LEMMA IInvTokenConserved ==
    ASSUME IInv, Conserved
    PROVE  TokenConserved
<1> SUFFICES ASSUME 0 \in started, NEW t \in Registered \cup {SysToken}
             PROVE  Flights(t) # {} \/ \E n \in Node : t \in owned[n]
  BY DEF TokenConserved
<1>1. HasPlace(t)
  <2>1. CASE t = SysToken
    BY <2>1 DEF Conserved
  <2>2. CASE t \in Registered
    <3>1. \/ \E k \in Node : SysToken \in owned[k] /\ t \in known[k]
          \/ \E f \in Flights(SysToken) : t \in net[f[1]][f[2]][f[3]].monitors
      <4>1. PICK S \in {known[n] : n \in {k \in Node : SysToken \in owned[k]}}
                      \cup {net[f[1]][f[2]][f[3]].monitors : f \in Flights(SysToken)} : t \in S
        BY <2>2 DEF Registered
      <4>2. CASE S \in {known[n] : n \in {k \in Node : SysToken \in owned[k]}}
        BY <4>1, <4>2
      <4>3. CASE S \in {net[f[1]][f[2]][f[3]].monitors : f \in Flights(SysToken)}
        BY <4>1, <4>3
      <4> QED
        BY <4>1, <4>2, <4>3
    <3>2. ASSUME NEW f \in Flights(SysToken), t \in net[f[1]][f[2]][f[3]].monitors
          PROVE  Listed(t) /\ t \in Monitor
      <4>1. PICK a \in Node, b \in Node :
               f \in {<<a, b, i>> : i \in {j \in DOMAIN net[a][b] : Gives(net[a][b][j], SysToken)}}
        BY DEF Flights
      <4>2. PICK i \in DOMAIN net[a][b] : Gives(net[a][b][i], SysToken) /\ f = <<a, b, i>>
        BY <4>1
      <4>3. net[a][b] \in Seq(Message) /\ t \in net[a][b][i].monitors
        BY <3>2, <4>2 DEF IInv, TypeOK
      <4>4. i \in Nat /\ net[a][b][i] \in Message
        BY <4>3
      <4>5. net[a][b][i].monitors \in SUBSET Monitor
        BY <4>2, <4>4, MessageFields DEF Gives
      <4> QED
        BY <4>2, <4>3, <4>4, <4>5 DEF Listed, Carries
    <3>3. ASSUME NEW k \in Node, SysToken \in owned[k], t \in known[k]
          PROVE  Listed(t) /\ t \in Monitor
      BY <3>3 DEF Listed, IInv, TypeOK
    <3> QED
      BY <3>1, <3>2, <3>3 DEF Conserved
  <2> QED
    BY <2>1, <2>2
<1>2. CASE UnderWay(net, t)
  <2>1. PICK a \in Node, b \in Node : \E i \in DOMAIN net[a][b] : Gives(net[a][b][i], t)
    BY <1>2 DEF UnderWay
  <2>2. PICK i \in DOMAIN net[a][b] : Gives(net[a][b][i], t)
    BY <2>1
  <2>3. <<a, b, i>> \in Flights(t)
    <3> DEFINE places(c, d) ==
                 {<<c, d, j>> : j \in {l \in DOMAIN net[c][d] : Gives(net[c][d][l], t)}}
    <3>1. <<a, b, i>> \in places(a, b)
      BY <2>2
    <3>2. Flights(t) = UNION {places(c, d) : c \in Node, d \in Node}
      BY DEF Flights
    <3> HIDE DEF places
    <3> QED
      BY <3>1, <3>2
  <2> QED
    BY <2>3
<1> QED
  BY <1>1, <1>2 DEF HasPlace

\* No token is lost: once node 0 has started, the system token and the token of every
\* monitor it lists are owned by a node or under way, if connections hold, the loop of
\* packetClusterHandshake does not crash, and applications do not lock a monitor while
\* it is being created.
THEOREM TokenConservedHolds == ASSUME Patient, Reliable PROVE Spec => []TokenConserved
<1> DEFINE All == IInv /\ Meeting /\ Asking /\ Settles /\ Conserved
<1>1. Init => All
  BY InitIInv, InitMeeting, InitAsking, InitSettles, InitConserved
<1>2. All /\ [Next]_vars => All'
  <2> SUFFICES ASSUME IInv, Meeting, Asking, Settles, Conserved, [Next]_vars PROVE All'
    OBVIOUS
  <2>1. IInv' /\ Meeting' /\ TypeOK /\ NoPacketDiscarded
    BY NextIInv, NextMeeting, NothingDiscarded DEF IInv
  <2>2. Asking'
    BY NextAsking DEF IInv
  <2>3. Settles'
    BY NextSettles
  <2>4. Conserved'
    BY <2>1, NextConserved
  <2> QED
    BY <2>1, <2>2, <2>3, <2>4
<1>3. All => TokenConserved
  BY IInvTokenConserved
<1> HIDE DEF All
<1> QED
  BY <1>1, <1>2, <1>3, PTL DEF Spec

-----------------------------------------------------------------------------
(* Whoever waits for a monitor has asked for it.                            *)

\* Applications lock only when the handshakes are over; or nobody's request can
\* come before them, for there is only one other node, and the undefined loop
\* leaves nobody out.
Prompt == "booting" \notin LockWindows \/ (N <= 2 /\ "skip" \notin EraseOutcomes)

Requests(msg) == msg.type = "RequestToken"

\* A request follows the ClusterHandshake of its sender.
Greeted(c) == \A i \in DOMAIN c : Requests(c[i]) => \E j \in DOMAIN c : j < i /\ Cluster(c[j])

\* What the nodes outside S are sent, as long as they have heard of nobody.
Polite(w, S) ==
    \A a, b \in Node : a # b /\ b \notin S =>
        /\ Greeted(w[a][b])
        /\ a \in started /\ {a, b} \notin cut => Hello(w[a][b])

\* A node that has not met everybody has the monitors it created and no others: each
\* is its own, or waits for the system token.
EarlyAt(n) ==
    /\ created[n] \subseteq private[n] /\ known[n] \subseteq private[n]
    /\ private[n] \subseteq public[n] \cup {SysToken}
    /\ locked[n] = {}
    /\ \A m \in public[n] :
          m \in owned[n] \/ (SysToken \in pendingRequests[n] /\ m \notin created[n])

Early == Polite(net, startedCluster) /\ \A n \in Node \ startedCluster : EarlyAt(n)

\* What n waits for was asked for, or the system token will ask for it.
Eager(n) ==
    \A m \in pendingGrants[n] :
        \/ m \in pendingRequests[n]
        \/ SysToken \in pendingRequests[n] /\ m \notin created[n]

Timely ==
    /\ \A n \in startedCluster : Eager(n)
    /\ "booting" \in LockWindows \/ \A n \in Node \ startedCluster : pendingGrants[n] = {}

-----------------------------------------------------------------------------
(* Requests come after the handshake.                                       *)

LEMMA GreetedTail ==
    ASSUME NEW c \in Seq(Message), c # <<>>, Greeted(c), ~Cluster(Head(c))
    PROVE  /\ Greeted(Tail(c)) /\ ~Requests(Head(c))
           /\ Hello(c) => Hello(Tail(c))
<1>1. /\ Tail(c) \in Seq(Message) /\ Head(c) = c[1] /\ 1 \in DOMAIN c
      /\ \A i \in DOMAIN Tail(c) : i + 1 \in DOMAIN c /\ Tail(c)[i] = c[i + 1] /\ i \in Nat \ {0}
      /\ \A i \in DOMAIN c : i \in Nat \ {0}
      /\ \A i \in DOMAIN c \ {1} : i - 1 \in DOMAIN Tail(c) /\ Tail(c)[i - 1] = c[i]
  OBVIOUS
<1>2. Hello(c) => Hello(Tail(c))
  BY <1>1 DEF Hello
<1>3. ~Requests(Head(c))
  BY <1>1 DEF Greeted
<1>4. ASSUME NEW i \in DOMAIN Tail(c), Requests(Tail(c)[i])
      PROVE  \E j \in DOMAIN Tail(c) : j < i /\ Cluster(Tail(c)[j])
  <2>1. i + 1 \in DOMAIN c /\ Requests(c[i + 1]) /\ i \in Nat
    BY <1>1, <1>4
  <2>2. PICK j \in DOMAIN c : j < i + 1 /\ Cluster(c[j])
    BY <2>1 DEF Greeted
  <2>3. j \in DOMAIN c \ {1} /\ j \in Nat
    BY <1>1, <2>2
  <2>4. j - 1 \in DOMAIN Tail(c) /\ Cluster(Tail(c)[j - 1]) /\ j - 1 < i
    BY <1>1, <2>1, <2>2, <2>3
  <2> QED
    BY <2>4
<1> QED
  BY <1>2, <1>3, <1>4 DEF Greeted

LEMMA GreetedConcat ==
    ASSUME NEW c \in Seq(Message), NEW msgs \in Seq(Message), Greeted(c),
           Hello(c) \/ \A j \in DOMAIN msgs : ~Requests(msgs[j])
    PROVE  Greeted(c \o msgs) /\ (Hello(c) => Hello(c \o msgs))
<1> DEFINE d == c \o msgs
<1>1. /\ \A i \in DOMAIN d :
            \/ i \in DOMAIN c /\ d[i] = c[i]
            \/ i - Len(c) \in DOMAIN msgs /\ d[i] = msgs[i - Len(c)]
      /\ \A i \in DOMAIN c : i \in DOMAIN d
  BY ConcatChannel
<1>2. /\ \A i \in DOMAIN c : d[i] = c[i] /\ i \in Nat /\ i <= Len(c)
      /\ \A i \in DOMAIN msgs : i \in Nat \ {0}
      /\ \A i \in DOMAIN d : i \in Nat
      /\ Len(c) \in Nat
  OBVIOUS
<1> HIDE DEF d
<1>3. Hello(c) => Hello(d)
  BY <1>1, <1>2 DEF Hello
<1>4. ASSUME NEW i \in DOMAIN d, Requests(d[i])
      PROVE  \E j \in DOMAIN d : j < i /\ Cluster(d[j])
  <2>1. CASE i \in DOMAIN c
    <3>1. PICK j \in DOMAIN c : j < i /\ Cluster(c[j])
      BY <1>2, <1>4, <2>1 DEF Greeted
    <3> QED
      BY <1>1, <1>2, <3>1
  <2>2. CASE i \notin DOMAIN c
    <3>1. i - Len(c) \in DOMAIN msgs /\ Requests(msgs[i - Len(c)])
      BY <1>1, <1>4, <2>2
    <3>2. PICK j \in DOMAIN c : Cluster(c[j])
      BY <3>1 DEF Hello
    <3>3. j < i
      <4>1. i - Len(c) \in Nat \ {0} /\ i \in Nat /\ Len(c) \in Nat /\ j \in Nat /\ j <= Len(c)
        BY <1>2, <3>1
      <4> QED
        BY <4>1
    <3> QED
      BY <1>1, <1>2, <3>2, <3>3
  <2> QED
    BY <2>1, <2>2
<1> QED
  BY <1>3, <1>4 DEF Greeted, d

LEMMA PoliteReceived ==
    ASSUME net \in Channels, NEW S, Polite(net, S), NEW n \in Node, NEW p \in Node, n \in S
    PROVE  Polite(Received(n, p), S)
<1>1. ASSUME NEW a \in Node, NEW b \in Node, b \notin S
      PROVE  Received(n, p)[a][b] = net[a][b]
  BY <1>1 DEF Received, Channels
<1> QED
  BY <1>1 DEF Polite

LEMMA PolitePost ==
    ASSUME NEW w \in Channels, NEW S, Polite(w, S), NEW n \in Node, NEW peers,
           NEW msgs \in Seq(Message), n \in started \/ \A j \in DOMAIN msgs : ~Requests(msgs[j])
    PROVE  Polite(Post(w, n, peers, msgs), S)
<1> DEFINE v == Post(w, n, peers, msgs)
<1> SUFFICES ASSUME NEW a \in Node, NEW b \in Node, a # b, b \notin S
             PROVE  /\ Greeted(v[a][b])
                    /\ a \in started /\ {a, b} \notin cut => Hello(v[a][b])
  BY DEF Polite
<1>1. \/ v[a][b] = w[a][b]
      \/ a = n /\ {a, b} \notin cut /\ v[a][b] = w[a][b] \o msgs
  BY DEF Post, Channels
<1>2. /\ w[a][b] \in Seq(Message) /\ Greeted(w[a][b])
      /\ a \in started /\ {a, b} \notin cut => Hello(w[a][b])
  BY DEF Polite, Channels
<1> HIDE DEF v
<1>3. CASE a = n /\ {a, b} \notin cut /\ v[a][b] = w[a][b] \o msgs
  BY <1>2, <1>3, GreetedConcat
<1> QED
  BY <1>1, <1>2, <1>3

\* Requests are sent by nodes that have met everybody.
LEMMA PoliteRequests ==
    ASSUME NEW w \in Channels, NEW S, Polite(w, S), NEW n \in Node, NEW peers, n \in started,
           NEW a \in [Token -> Alg], NEW T \in SUBSET Token, NEW order \in Orderings(T)
    PROVE  /\ Post(w, n, peers, RequestMsgs(a, n, order)) \in Channels
           /\ Polite(Post(w, n, peers, RequestMsgs(a, n, order)), S)
  BY RequestMsgsType, PolitePost, PostType

LEMMA PoliteRequestTokens ==
    ASSUME TypeOK, Meeting, Polite(net, startedCluster), NEW n \in Node,
           NEW T \in SUBSET Token, RequestTokens(n, T)
    PROVE  Polite(net', startedCluster)
<1> DEFINE new == T \ pendingRequests[n]
           numbered == Numbered(alg[n], n, new)
<1>1. CASE n \in startedCluster
  <2>1. PICK order \in Orderings(new) :
           net' = Post(net, n, links[n], RequestMsgs(numbered, n, order))
    BY <1>1 DEF RequestTokens
  <2>2. numbered \in [Token -> Alg] /\ new \in SUBSET Token
    BY NumberedType DEF TypeOK
  <2>3. n \in started /\ net \in Channels
    BY <1>1 DEF Meeting, TypeOK, Channels
  <2> HIDE DEF numbered, new
  <2> QED
    BY <2>1, <2>2, <2>3, PoliteRequests
<1>2. CASE n \notin startedCluster
  BY <1>2 DEF RequestTokens
<1> QED
  BY <1>1, <1>2

LEMMA PoliteGive ==
    ASSUME NEW w \in Channels, NEW S, Polite(w, S), NEW n \in Node, NEW peers,
           NEW msg \in Message, ~Requests(msg)
    PROVE  Polite(Post(w, n, peers, <<msg>>), S)
<1> DEFINE msgs == <<msg>>
<1>1. msgs \in Seq(Message) /\ \A j \in DOMAIN msgs : ~Requests(msgs[j])
  OBVIOUS
<1> HIDE DEF msgs
<1>2. Polite(Post(w, n, peers, msgs), S)
  BY <1>1, PolitePost
<1> QED
  BY <1>2 DEF msgs

\* The handshake is sent to everybody when the node starts.
LEMMA HandleConnectPolite ==
    ASSUME TypeOK, Meeting, Polite(net, startedCluster), NEW n \in Node, NEW p \in Node,
           HandleConnect(n, p)
    PROVE  Polite(net, startedCluster)'
<1> DEFINE peers == links[n] \cup {p}
           starts == Cardinality(peers) >= N - 1 /\ n \notin started
           first == Received(n, p)
           hello == <<ClusterHandshakeMsg>>
<1>1. /\ net \in Channels /\ net[p][n] # <<>> /\ net[p][n] \in Seq(Message)
      /\ Edge(Head(net[p][n])) /\ Head(net[p][n]) = net[p][n][1] /\ 1 \in DOMAIN net[p][n]
  BY DEF HandleConnect, Arrives, TypeOK, Channels, Edge
<1>2. p # n /\ peers \subseteq Node \ {n}
  <2>1. p # n
    BY <1>1 DEF Meeting, Met
  <2>2. links[n] \subseteq Node \ {n}
    BY DEF Meeting
  <2> QED
    BY <2>1, <2>2
<1>3. /\ startedCluster' = startedCluster /\ cut' = cut
      /\ started' = IF starts THEN started \cup {n} ELSE started
      /\ net' = IF starts THEN Post(first, n, peers, hello) ELSE first
  BY DEF HandleConnect, faultVars
<1>4. starts => peers = Node \ {n}
  <2>1. peers \in SUBSET (Node \ {n})
    BY <1>2
  <2> HIDE DEF peers
  <2> QED
    BY <2>1, OthersCount
<1>5. /\ first \in Channels /\ first[p][n] = Tail(net[p][n])
      /\ \A a, b \in Node : ~(a = p /\ b = n) => first[a][b] = net[a][b]
  <2>1. first \in Channels
    BY <1>1, ReceivedType
  <2> QED
    BY <1>1, <2>1 DEF Received, Channels
<1> HIDE DEF first, peers
<1>6. Polite(first, startedCluster)
  <2>1. ~Cluster(Head(net[p][n]))
    BY <1>1 DEF Edge, Cluster
  <2>2. Greeted(net[p][n]) => /\ Greeted(first[p][n])
                              /\ Hello(net[p][n]) => Hello(first[p][n])
    BY <1>1, <1>5, <2>1, GreetedTail
  <2> QED
    BY <1>5, <2>2 DEF Polite
<1>7. CASE ~starts
  BY <1>3, <1>6, <1>7 DEF Polite
<1>8. CASE starts
  <2>1. /\ hello \in Seq(Message) /\ 1 \in DOMAIN hello /\ Cluster(hello[1])
        /\ \A j \in DOMAIN hello : ~Requests(hello[j])
    BY MessageTypes DEF ClusterHandshakeMsg, Cluster, Requests
  <2>2. Polite(net', startedCluster)
    <3> HIDE DEF hello
    <3> QED
      BY <1>3, <1>5, <1>6, <1>8, <2>1, PolitePost
  <2>3. ASSUME NEW b \in Node, b # n, {n, b} \notin cut PROVE Hello(net'[n][b])
    <3>1. net'[n][b] = first[n][b] \o hello /\ first[n][b] \in Seq(Message)
      BY <1>3, <1>4, <1>5, <1>8, <2>3 DEF Post, Channels
    <3>2. /\ Len(first[n][b]) + 1 \in DOMAIN (first[n][b] \o hello)
          /\ (first[n][b] \o hello)[Len(first[n][b]) + 1] = ClusterHandshakeMsg
      BY <3>1
    <3>3. Cluster(ClusterHandshakeMsg)
      BY DEF Cluster, ClusterHandshakeMsg
    <3> HIDE DEF hello
    <3> QED
      BY <3>1, <3>2, <3>3 DEF Hello
  <2> HIDE DEF hello, starts
  <2>4. started' = started \cup {n}
    BY <1>3, <1>8
  <2>5. ASSUME NEW a \in Node, NEW b \in Node, a # b, b \notin startedCluster
        PROVE  /\ Greeted(net'[a][b])
               /\ a \in started' /\ {a, b} \notin cut => Hello(net'[a][b])
    BY <2>2, <2>3, <2>4, <2>5 DEF Polite
  <2> QED
    BY <1>3, <2>5 DEF Polite
<1> QED
  BY <1>7, <1>8

\* In a cluster of two a node has met everybody with the first handshake.
LEMMA OneIsAll ==
    ASSUME TypeOK, N <= 2, NEW n \in Node, NEW p \in Node, PacketClusterHandshake(n, p)
    PROVE  n \in startedCluster'
<1>1. AllIntroduced(handshakes[n] + 1)
  BY NAssumption DEF TypeOK, AllIntroduced
<1> QED
  BY <1>1 DEF PacketClusterHandshake

LEMMA PacketClusterHandshakePolite ==
    ASSUME TypeOK, Meeting, Polite(net, startedCluster), N <= 2, NEW n \in Node, NEW p \in Node,
           PacketClusterHandshake(n, p)
    PROVE  Polite(net, startedCluster)'
<1> DEFINE numbered == Numbered(alg[n], n, pendingRequests[n])
           first == Received(n, p)
           met == startedCluster \cup {n}
<1>1. /\ net \in Channels /\ net[p][n] # <<>> /\ net[p][n] \in Seq(Message)
      /\ 1 \in DOMAIN net[p][n] /\ net[p][n][1] = Head(net[p][n])
      /\ Cluster(net[p][n][1])
  BY DEF PacketClusterHandshake, Arrives, TypeOK, Channels, Cluster
<1>2. first \in Channels /\ started' = started /\ cut' = cut
  BY <1>1, ReceivedType DEF PacketClusterHandshake, faultVars
<1>3. startedCluster \subseteq met /\ met \subseteq startedCluster'
  BY OneIsAll DEF PacketClusterHandshake
<1>4. Polite(net, met)
  BY <1>3 DEF Polite
<1>5. Polite(first, met)
  BY <1>1, <1>4, PoliteReceived
<1>6. Polite(net', met)
  <2>1. CASE net' = first
    BY <1>5, <2>1
  <2>2. CASE net' # first
    <3>1. PICK order \in Orderings(pendingRequests[n]) :
             net' = Post(first, n, links[n], RequestMsgs(numbered, n, order))
      BY <2>2 DEF PacketClusterHandshake
    <3>2. numbered \in [Token -> Alg] /\ pendingRequests[n] \in SUBSET Token
      BY NumberedType DEF TypeOK
    <3>3. n \in started
      <4>1. Meeting' /\ n \in startedCluster'
        BY PacketClusterHandshakeMeeting, OneIsAll
      <4> QED
        BY <1>2, <4>1 DEF Meeting
    <3> HIDE DEF numbered, first, met
    <3> QED
      BY <1>2, <1>5, <3>1, <3>2, <3>3, PoliteRequests
  <2> QED
    BY <2>1, <2>2
<1> QED
  BY <1>2, <1>3, <1>6 DEF Polite

\* Who is sent a request or a token has met everybody.
LEMMA TokenReceiverMet ==
    ASSUME TypeOK, Asking, NEW n \in Node, NEW p \in Node, Arrives(n, p, "GiveToken")
    PROVE  n \in startedCluster
<1> DEFINE msg == Head(net[p][n])
<1>1. /\ net[p][n] \in Seq(Message) /\ net[p][n] # <<>> /\ msg.type = "GiveToken"
      /\ 1 \in DOMAIN net[p][n] /\ net[p][n][1] = msg /\ msg \in Message
  BY DEF Arrives, TypeOK
<1>2. msg.token \in Token
  BY <1>1, MessageFields
<1>3. ~Unasked(n, msg.token)
  BY <1>1 DEF Unasked, Silent, Harmless, Gives
<1> QED
  BY <1>2, <1>3 DEF Asking, May

LEMMA RequestReceiverMet ==
    ASSUME TypeOK, Asking, Polite(net, startedCluster), NEW n \in Node, NEW p \in Node,
           Arrives(n, p, "RequestToken")
    PROVE  n \in startedCluster
<1> DEFINE msg == Head(net[p][n])
<1>1. /\ net[p][n] \in Seq(Message) /\ net[p][n] # <<>> /\ Requests(msg)
      /\ 1 \in DOMAIN net[p][n] /\ net[p][n][1] = msg /\ msg \in Message
      /\ \A i \in DOMAIN net[p][n] : ~(i < 1)
  BY DEF Arrives, TypeOK, Requests
<1>2. CASE p # n
  BY <1>1, <1>2 DEF Polite, Greeted
<1>3. CASE p = n
  <2>1. msg.token \in Token
    BY <1>1, MessageFields DEF Requests
  <2>2. ~Unasked(p, msg.token)
    BY <1>1 DEF Unasked, Silent, Harmless, Asks, Requests
  <2> QED
    BY <1>3, <2>1, <2>2 DEF Asking, May
<1> QED
  BY <1>2, <1>3

LEMMA PacketGiveTokenPolite ==
    ASSUME TypeOK, SysEntryCreated, Meeting, Asking, Polite(net, startedCluster),
           NEW n \in Node, NEW p \in Node, PacketGiveToken(n, p)
    PROVE  Polite(net', startedCluster)
<1> DEFINE msg == Head(net[p][n])
           fresh == private[n] \ created[n]
           found == fresh \cap msg.monitors
           adopted == fresh \ msg.monitors
           new == (found \cap pendingGrants[n]) \ pendingRequests[n]
           registered == msg.monitors \cup adopted
           loaded == [alg[n] EXCEPT ![SysToken] = LoadProperties(@, msg.ln, msg.queue)]
           numbered == IF n \in startedCluster THEN Numbered(loaded, n, new) ELSE loaded
           asks == IF n \in startedCluster THEN new ELSE {}
           first == Received(n, p)
<1>1. /\ net \in Channels /\ net[p][n] # <<>> /\ msg.type = "GiveToken" /\ msg \in Message
      /\ Arrives(n, p, "GiveToken")
  BY ReceivedType DEF PacketGiveToken, Arrives, TypeOK, Channels
<1>2. n \in startedCluster /\ n \in started
  BY <1>1, TokenReceiverMet DEF Meeting
<1>3. Polite(first, startedCluster) /\ first \in Channels
  BY <1>1, <1>2, PoliteReceived, ReceivedType
<1>4. CASE msg.token = SysToken /\ TakeSystemToken(n, p, msg)
  <2>1. /\ msg.ln \in [Node -> RequestNumber] /\ msg.queue \in Seq(Node)
        /\ msg.monitors \in SUBSET Monitor /\ SysToken \in Token
    BY <1>1, MessageFields DEF Token
  <2>2. asks \in SUBSET Token /\ new \in SUBSET Token /\ adopted \in SUBSET Monitor
    <3>1. private[n] \ {SysToken} \in SUBSET Monitor
      BY DEF TypeOK, Token
    <3>2. SysToken \notin fresh
      BY DEF SysEntryCreated
    <3> QED
      BY <3>1, <3>2 DEF TypeOK
  <2>3. numbered \in [Token -> Alg]
    <3>1. alg[n] \in [Token -> Alg] /\ alg[n][SysToken] \in Alg
      BY <2>1 DEF TypeOK
    <3>2. loaded \in [Token -> Alg]
      BY <2>1, <3>1, LoadType
    <3> HIDE DEF loaded
    <3> QED
      BY <3>2, NumberedType
  <2>4. PICK after \in Released(numbered[SysToken], n), order \in Orderings(asks) :
           LET asked == Post(first, n, links[n], RequestMsgs(numbered, n, order))
           IN  IF after.queue = <<>>
               THEN net' = asked
               ELSE net' = Post(asked, n, {Head(after.queue)},
                                <<GiveTokenMsg(SysToken, Popped(after), registered, 0)>>)
    BY ZenonT(60), <1>4 DEF TakeSystemToken
  <2> DEFINE asked == Post(first, n, links[n], RequestMsgs(numbered, n, order))
             give == GiveTokenMsg(SysToken, Popped(after), registered, 0)
  <2>5. Polite(asked, startedCluster) /\ asked \in Channels
    <3> HIDE DEF numbered, asks, first
    <3> QED
      BY <1>2, <1>3, <2>2, <2>3, <2>4, PoliteRequests
  <2>6. CASE after.queue = <<>>
    BY <2>4, <2>5, <2>6
  <2>7. CASE after.queue # <<>>
    <3>1. after \in Alg
      <4>1. numbered[SysToken] \in Alg
        BY <2>1, <2>3
      <4> HIDE DEF numbered
      <4> QED
        BY <2>4, <4>1, ReleasedType
    <3>2. Popped(after) \in Alg
      BY <2>7, <3>1, PoppedType
    <3>3. registered \in SUBSET Monitor
      BY <2>1, <2>2
    <3>4. give \in Message /\ ~Requests(give)
      <4> HIDE DEF registered
      <4> QED
        BY <2>1, <3>2, <3>3, MessageTypes DEF GiveTokenMsg, Requests
    <3>5. net' = Post(asked, n, {Head(after.queue)}, <<give>>)
      BY <2>4, <2>7
    <3> HIDE DEF asked, give
    <3> QED
      BY <2>5, <3>4, <3>5, PoliteGive
  <2> QED
    BY <2>6, <2>7
<1>5. CASE Unexpected(n, msg.token) \/ msg.token # SysToken
  <2>1. net' = first
    BY <1>5 DEF PacketGiveToken, TakeMonitorToken
  <2> QED
    BY <1>3, <2>1
<1> QED
  BY <1>4, <1>5 DEF PacketGiveToken

LEMMA PacketRequestTokenPolite ==
    ASSUME TypeOK, Asking, Polite(net, startedCluster), NEW n \in Node, NEW p \in Node,
           PacketRequestToken(n, p)
    PROVE  Polite(net', startedCluster)
<1> DEFINE msg == Head(net[p][n])
           t == msg.token
           updated == UpdateRequestNumber(alg[n][t], p, msg.number)
           give == TokenMsg(n, t, updated)
<1>1. /\ net \in Channels /\ net[p][n] # <<>> /\ msg.type = "RequestToken"
      /\ msg \in Message /\ Arrives(n, p, "RequestToken")
  BY ReceivedType DEF PacketRequestToken, Arrives, TypeOK, Channels
<1>2. Polite(Received(n, p), startedCluster) /\ Received(n, p) \in Channels
  BY <1>1, RequestReceiverMet, PoliteReceived, ReceivedType
<1>3. net' = Received(n, p) \/ net' = Post(Received(n, p), n, {p}, <<give>>)
  BY DEF PacketRequestToken
<1>4. give \in Message /\ ~Requests(give)
  <2>1. t \in Token /\ msg.number \in RequestNumber
    BY <1>1, MessageFields
  <2>2. updated \in Alg
    BY <2>1, UpdateType DEF TypeOK
  <2>3. known[n] \in SUBSET Monitor /\ (t # SysToken => data[n][t] \in Nat)
    BY <2>1 DEF TypeOK, Token
  <2>4. give \in Message
    <3> HIDE DEF updated, t
    <3> QED
      BY <2>1, <2>2, <2>3, TokenMsgType
  <2>5. ~Requests(give)
    BY DEF TokenMsg, GiveTokenMsg, Requests
  <2> QED
    BY <2>4, <2>5
<1> HIDE DEF give
<1> QED
  BY <1>2, <1>3, <1>4, PoliteGive

LEMMA RequestUnlockPolite ==
    ASSUME TypeOK, Polite(net, startedCluster), NEW n \in Node, NEW m \in Monitor,
           RequestUnlock(n, m)
    PROVE  Polite(net', startedCluster)
<1>1. CASE UNCHANGED net
  BY <1>1
<1>2. CASE \E after \in Released(alg[n][m], n) :
              /\ after.queue # <<>>
              /\ net' = Post(net, n, {Head(after.queue)}, <<TokenMsg(n, m, Popped(after))>>)
  <2>1. PICK after \in Released(alg[n][m], n) :
           /\ after.queue # <<>>
           /\ net' = Post(net, n, {Head(after.queue)}, <<TokenMsg(n, m, Popped(after))>>)
    BY <1>2
  <2> DEFINE give == TokenMsg(n, m, Popped(after))
  <2>2. /\ m \in Token /\ alg[n][m] \in Alg /\ known[n] \in SUBSET Monitor /\ data[n][m] \in Nat
        /\ net \in Channels
    BY DEF TypeOK, Token, Channels
  <2>3. Popped(after) \in Alg
    BY <2>1, <2>2, ReleasedType, PoppedType
  <2>4. give \in Message
    BY <2>2, <2>3, TokenMsgType
  <2>5. ~Requests(give)
    BY DEF TokenMsg, GiveTokenMsg, Requests
  <2> HIDE DEF give
  <2> QED
    BY <2>1, <2>2, <2>4, <2>5, PoliteGive DEF give
<1> QED
  BY <1>1, <1>2 DEF RequestUnlock

LEMMA DisconnectPolite ==
    ASSUME TypeOK, Polite(net, startedCluster), NEW n \in Node, NEW p \in Node, Disconnect(n, p)
    PROVE  Polite(net, startedCluster)'
<1>1. /\ cut' = cut \cup {{n, p}} /\ {p, n} = {n, p}
      /\ started' = started /\ startedCluster' = startedCluster
  BY DEF Disconnect, nodeVars
<1>2. ASSUME NEW a \in Node, NEW b \in Node
      PROVE  \/ net'[a][b] = net[a][b]
             \/ {b, a} \in cut' /\ KeepsFront(a, b)
  <2>1. net \in Channels
    BY DEF TypeOK, Channels
  <2> QED
    BY <1>1, <2>1, DisconnectFront
<1>3. ASSUME NEW a \in Node, NEW b \in Node, KeepsFront(a, b), Greeted(net[a][b])
      PROVE  Greeted(net'[a][b])
  <2>0. TypeOK'
    BY DisconnectType
  <2>1. net'[a][b] \in Seq(Message) /\ net[a][b] \in Seq(Message)
    BY <2>0 DEF TypeOK
  <2>2. /\ \A i \in DOMAIN net'[a][b] : \A j \in Nat \ {0} : j < i => j \in DOMAIN net'[a][b]
        /\ DOMAIN net[a][b] \subseteq Nat \ {0}
    BY <2>1
  <2> QED
    BY <1>3, <2>2 DEF KeepsFront, Greeted
<1>4. ASSUME NEW a \in Node, NEW b \in Node, a # b, b \notin startedCluster
      PROVE  /\ Greeted(net'[a][b])
             /\ a \in started /\ {a, b} \notin cut' => Hello(net'[a][b])
  <2>1. {a, b} = {b, a} /\ cut \subseteq cut'
    BY <1>1
  <2>2. /\ Greeted(net[a][b])
        /\ a \in started /\ {a, b} \notin cut => Hello(net[a][b])
    BY <1>4 DEF Polite
  <2> QED
    BY <1>2, <1>3, <2>1, <2>2
<1> QED
  BY <1>1, <1>4 DEF Polite

LEMMA NextPolite ==
    ASSUME TypeOK, SysEntryCreated, Meeting, Asking, N <= 2, Polite(net, startedCluster),
           [Next]_vars
    PROVE  Polite(net, startedCluster)'
<1>1. ASSUME UNCHANGED <<nodeVars, cut>>, Polite(net', startedCluster)
      PROVE  Polite(net, startedCluster)'
  BY <1>1 DEF Polite, nodeVars
<1>2. ASSUME NEW n \in Node, NEW p \in Node, PacketGiveToken(n, p)
      PROVE  Polite(net, startedCluster)'
  <2>1. UNCHANGED <<nodeVars, cut>>
    BY <1>2 DEF PacketGiveToken, TakeSystemToken, TakeMonitorToken, nodeVars, faultVars
  <2> QED
    BY <1>1, <1>2, <2>1, PacketGiveTokenPolite
<1>3. ASSUME NEW n \in Node, NEW p \in Node, PacketRequestToken(n, p)
      PROVE  Polite(net, startedCluster)'
  BY <1>1, <1>3, PacketRequestTokenPolite DEF PacketRequestToken, faultVars
<1>4. ASSUME NEW n \in Node, NEW p \in Node, CrashInHandshake(n, p)
      PROVE  Polite(net, startedCluster)'
  <2>1. net' = net /\ UNCHANGED <<nodeVars, cut>>
    BY <1>4 DEF CrashInHandshake
  <2> QED
    BY <1>1, <2>1
<1>5. ASSUME NEW n \in Node, NEW m \in Monitor, HandleNew(n, m)
      PROVE  Polite(net, startedCluster)'
  <2>1. net' = net \/ RequestTokens(n, {SysToken})
    BY <1>5 DEF HandleNew
  <2>2. {SysToken} \in SUBSET Token
    BY DEF Token
  <2>3. Polite(net', startedCluster)
    BY <2>1, <2>2, PoliteRequestTokens
  <2> QED
    BY <1>1, <1>5, <2>3 DEF HandleNew, faultVars
<1>6. ASSUME NEW n \in Node, NEW m \in Monitor, RequestLock(n, m)
      PROVE  Polite(net, startedCluster)'
  <2>1. net' = net \/ RequestTokens(n, {m})
    BY <1>6 DEF RequestLock
  <2>2. {m} \in SUBSET Token
    BY DEF Token
  <2>3. Polite(net', startedCluster)
    BY <2>1, <2>2, PoliteRequestTokens
  <2> QED
    BY <1>1, <1>6, <2>3 DEF RequestLock, faultVars
<1>7. ASSUME NEW n \in Node, NEW m \in Monitor, TakeGrant(n, m)
      PROVE  Polite(net, startedCluster)'
  <2>1. net' = net /\ UNCHANGED <<nodeVars, cut>>
    BY <1>7 DEF TakeGrant, faultVars
  <2> QED
    BY <1>1, <2>1
<1>8. ASSUME NEW n \in Node, NEW m \in Monitor, RequestUnlock(n, m)
      PROVE  Polite(net, startedCluster)'
  <2>1. UNCHANGED <<nodeVars, cut>>
    BY <1>8 DEF RequestUnlock, faultVars
  <2> QED
    BY <1>1, <1>8, <2>1, RequestUnlockPolite
<1>9. CASE UNCHANGED vars
  <2>1. net' = net /\ UNCHANGED <<nodeVars, cut>>
    BY <1>9 DEF vars, faultVars
  <2> QED
    BY <1>1, <2>1
<1> QED
  BY <1>2, <1>3, <1>4, <1>5, <1>6, <1>7, <1>8, <1>9, HandleConnectPolite,
     PacketClusterHandshakePolite, DisconnectPolite DEF Next, Handle

-----------------------------------------------------------------------------
(* What a node of a cluster of two has before it has met the other.         *)

LEMMA NextEarlyAt ==
    ASSUME TypeOK, Asking, N <= 2, Polite(net, startedCluster), [Next]_vars,
           NEW k \in Node \ startedCluster', k \notin startedCluster, EarlyAt(k)
    PROVE  EarlyAt(k)'
<1>1. /\ public \in [Node -> SUBSET Monitor] /\ private \in [Node -> SUBSET Token]
      /\ created \in [Node -> SUBSET Token] /\ owned \in [Node -> SUBSET Token]
      /\ locked \in [Node -> SUBSET Token] /\ known \in [Node -> SUBSET Monitor]
      /\ pendingRequests \in [Node -> SUBSET Token] /\ SysToken \notin Monitor
      /\ SysToken \in Token /\ Monitor \subseteq Token
  BY MonitorAssumption DEF TypeOK, Token
<1>2. ASSUME /\ created'[k] = created[k] /\ private'[k] = private[k] /\ known'[k] = known[k]
             /\ public'[k] = public[k] /\ locked'[k] = locked[k] /\ owned'[k] = owned[k]
             /\ pendingRequests'[k] = pendingRequests[k]
      PROVE  EarlyAt(k)'
  BY <1>2 DEF EarlyAt
<1>3. ASSUME NEW n \in Node, NEW p \in Node, HandleConnect(n, p) PROVE EarlyAt(k)'
  <2>1. /\ public' = public /\ locked' = locked /\ pendingRequests' = pendingRequests
        /\ \/ UNCHANGED <<created, private, known, owned>>
           \/ /\ private' = [private EXCEPT ![n] = @ \cup {SysToken}]
              /\ created' = [created EXCEPT ![n] = @ \cup {SysToken}]
              /\ owned' = [owned EXCEPT ![n] = IF n = 0 THEN @ \cup {SysToken} ELSE @]
              /\ known' = [known EXCEPT ![n] = IF n = 0 THEN private[n] \ {SysToken} ELSE @]
    BY <1>3 DEF HandleConnect, pendingVars
  <2>2. CASE k # n
    BY <1>1, <1>2, <2>1, <2>2
  <2>3. CASE k = n
    BY <1>1, <2>1, <2>3 DEF EarlyAt
  <2> QED
    BY <2>2, <2>3
<1>4. ASSUME NEW n \in Node, NEW p \in Node, PacketClusterHandshake(n, p) PROVE EarlyAt(k)'
  <2>1. k # n
    BY <1>4, OneIsAll
  <2>2. /\ UNCHANGED <<public, private, created, known, owned, pendingRequests>>
        /\ \/ locked' = locked
           \/ \E G : locked' = [locked EXCEPT ![n] = @ \cup G]
    BY <1>4 DEF PacketClusterHandshake, Grant
  <2> QED
    BY <1>1, <1>2, <2>1, <2>2
<1>5. ASSUME NEW n \in Node, NEW p \in Node, PacketGiveToken(n, p) PROVE EarlyAt(k)'
  <2> DEFINE msg == Head(net[p][n])
  <2>1. k # n
    BY <1>5, TokenReceiverMet DEF PacketGiveToken
  <2>2. CASE TakeSystemToken(n, p, msg)
    <3>1. /\ public' = public /\ private' = private
          /\ \E T : created' = [created EXCEPT ![n] = T]
          /\ \E T : known' = [known EXCEPT ![n] = T]
          /\ \E T : owned' = [owned EXCEPT ![n] = T]
          /\ \E T : locked' = [locked EXCEPT ![n] = T]
          /\ \E T : pendingRequests' = [pendingRequests EXCEPT ![n] = T]
      <4>1. \E T : owned' = [owned EXCEPT ![n] = T]
        BY <2>2 DEF TakeSystemToken
      <4>2. \E T : locked' = [locked EXCEPT ![n] = T]
        BY <2>2 DEF TakeSystemToken, Grant
      <4>3. /\ public' = public /\ private' = private
            /\ \E T : created' = [created EXCEPT ![n] = T]
            /\ \E T : known' = [known EXCEPT ![n] = T]
            /\ \E T : pendingRequests' = [pendingRequests EXCEPT ![n] = T]
        BY <2>2 DEF TakeSystemToken
      <4> QED
        BY <4>1, <4>2, <4>3
    <3> QED
      BY <1>1, <1>2, <2>1, <3>1
  <2>3. CASE TakeMonitorToken(n, p, msg)
    <3>1. /\ UNCHANGED <<public, private, created, known>>
          /\ \E T : owned' = [owned EXCEPT ![n] = T]
          /\ \E T : locked' = [locked EXCEPT ![n] = T]
          /\ \E T : pendingRequests' = [pendingRequests EXCEPT ![n] = T]
      BY <2>3 DEF TakeMonitorToken, Grant
    <3> QED
      BY <1>1, <1>2, <2>1, <3>1
  <2>4. CASE UNCHANGED <<tokenVars, pendingVars>>
    BY <1>2, <2>4 DEF tokenVars, pendingVars
  <2> QED
    BY <1>5, <2>2, <2>3, <2>4 DEF PacketGiveToken
<1>6. ASSUME NEW n \in Node, NEW p \in Node, PacketRequestToken(n, p) PROVE EarlyAt(k)'
  <2>1. k # n
    BY <1>6, RequestReceiverMet DEF PacketRequestToken
  <2>2. /\ UNCHANGED <<public, locked, known, pendingRequests>>
        /\ private' = private \/ \E T : private' = [private EXCEPT ![n] = T]
        /\ created' = created \/ \E T : created' = [created EXCEPT ![n] = T]
        /\ owned' = owned \/ \E T : owned' = [owned EXCEPT ![n] = T]
    BY <1>6 DEF PacketRequestToken, pendingVars
  <2> QED
    BY <1>1, <1>2, <2>1, <2>2
<1>7. ASSUME NEW n \in Node, NEW m \in Monitor, HandleNew(n, m) PROVE EarlyAt(k)'
  <2>1. /\ public' = [public EXCEPT ![n] = @ \cup {m}] /\ locked' = locked
        /\ m \notin public[n]
    BY <1>7 DEF HandleNew
  <2>2. CASE k # n
    <3>1. /\ private' = private \/ \E T : private' = [private EXCEPT ![n] = T]
          /\ created' = created \/ \E T : created' = [created EXCEPT ![n] = T]
          /\ owned' = owned \/ \E T : owned' = [owned EXCEPT ![n] = T]
          /\ known' = known \/ \E T : known' = [known EXCEPT ![n] = T]
          /\ \/ pendingRequests' = pendingRequests
             \/ \E T : pendingRequests' = [pendingRequests EXCEPT ![n] = T]
      BY <1>7 DEF HandleNew, RequestTokens
    <3> QED
      BY <1>1, <1>2, <2>1, <2>2, <3>1
  <2>3. CASE k = n
    <3>1. m \notin private[n] /\ m \notin known[n] /\ m \notin created[n] /\ m # SysToken
      BY <1>1, <2>1, <2>3 DEF EarlyAt
    <3>2. private' = [private EXCEPT ![n] = @ \cup {m}]
      BY <1>7, <3>1 DEF HandleNew
    <3>3. CASE Adopts(n, m)
      <4>1. /\ created' = [created EXCEPT ![n] = @ \cup {m}]
            /\ owned' = [owned EXCEPT ![n] = @ \cup {m}]
            /\ pendingRequests' = pendingRequests
            /\ \/ known' = [known EXCEPT ![n] = @]
               \/ known' = [known EXCEPT ![n] = @ \cup {m}]
        BY <1>7, <3>1, <3>3 DEF HandleNew
      <4> QED
        BY <1>1, <2>1, <2>3, <3>1, <3>2, <4>1 DEF EarlyAt
    <3>4. CASE ~Adopts(n, m)
      <4>1. /\ created' = [created EXCEPT ![n] = @] /\ owned' = [owned EXCEPT ![n] = @]
            /\ known' = [known EXCEPT ![n] = @]
            /\ RequestTokens(n, {SysToken})
        BY <1>7, <3>1, <3>4 DEF HandleNew, Exists
      <4>2. /\ \E T : pendingRequests' = [pendingRequests EXCEPT ![n] = @ \cup T]
            /\ SysToken \in pendingRequests'[n]
        BY <1>1, <4>1 DEF RequestTokens
      <4> QED
        BY <1>1, <2>1, <2>3, <3>1, <3>2, <4>1, <4>2 DEF EarlyAt
    <3> QED
      BY <3>3, <3>4
  <2> QED
    BY <2>2, <2>3
<1>8. ASSUME NEW n \in Node, NEW m \in Monitor, RequestLock(n, m) PROVE EarlyAt(k)'
  <2>1. /\ UNCHANGED <<public, private, created, known, owned>>
        /\ locked' = locked \/ (n \in startedCluster /\ \E T : locked' = [locked EXCEPT ![n] = T])
        /\ \/ pendingRequests' = pendingRequests
           \/ n \in startedCluster /\ \E T : pendingRequests' = [pendingRequests EXCEPT ![n] = T]
    BY <1>8 DEF RequestLock, RequestTokens, pendingVars
  <2> QED
    BY <1>1, <1>2, <2>1
<1>9. ASSUME NEW n \in Node, NEW m \in Monitor, RequestUnlock(n, m) PROVE EarlyAt(k)'
  <2>1. /\ UNCHANGED <<public, private, created, known, pendingRequests>>
        /\ \/ UNCHANGED <<locked, owned>>
           \/ /\ m \in locked[n]
              /\ \E T : locked' = [locked EXCEPT ![n] = T]
              /\ owned' = owned \/ \E T : owned' = [owned EXCEPT ![n] = T]
    BY <1>9 DEF RequestUnlock, pendingVars
  <2>2. m \in locked[n] => k # n
    BY DEF EarlyAt
  <2> QED
    BY <1>1, <1>2, <2>1, <2>2
<1>10. ASSUME NEW n \in Node, NEW p \in Node, CrashInHandshake(n, p) \/ Disconnect(n, p)
       PROVE  EarlyAt(k)'
  BY <1>2, <1>10 DEF CrashInHandshake, Disconnect, tokenVars, pendingVars
<1>11. ASSUME NEW n \in Node, NEW m \in Monitor, TakeGrant(n, m) PROVE EarlyAt(k)'
  BY <1>2, <1>11 DEF TakeGrant, tokenVars, pendingVars
<1>12. CASE UNCHANGED vars
  BY <1>2, <1>12 DEF vars, tokenVars, pendingVars
<1> QED
  BY <1>3, <1>4, <1>5, <1>6, <1>7, <1>8, <1>9, <1>10, <1>11, <1>12 DEF Next, Handle

\* m_startedCluster is never reset.
LEMMA MeetsForEver ==
    ASSUME [Next]_vars
    PROVE  startedCluster \subseteq startedCluster'
<1>1. ASSUME NEW n \in Node, NEW p \in Node, Handle(n, p)
      PROVE  startedCluster \subseteq startedCluster'
  BY <1>1 DEF Handle, HandleConnect, PacketClusterHandshake, PacketGiveToken,
              TakeSystemToken, TakeMonitorToken, PacketRequestToken, nodeVars
<1>2. ASSUME NEW n \in Node, NEW p \in Node, CrashInHandshake(n, p) \/ Disconnect(n, p)
      PROVE  startedCluster' = startedCluster
  BY <1>2 DEF CrashInHandshake, Disconnect, nodeVars
<1>3. ASSUME NEW n \in Node, NEW m \in Monitor,
             HandleNew(n, m) \/ RequestLock(n, m) \/ TakeGrant(n, m) \/ RequestUnlock(n, m)
      PROVE  startedCluster' = startedCluster
  BY <1>3 DEF HandleNew, RequestLock, TakeGrant, RequestUnlock, nodeVars
<1>4. UNCHANGED vars => startedCluster' = startedCluster
  BY DEF vars, nodeVars
<1> QED
  BY <1>1, <1>2, <1>3, <1>4 DEF Next

LEMMA NextEarly ==
    ASSUME TypeOK, SysEntryCreated, Meeting, Asking, N <= 2, Early, [Next]_vars
    PROVE  Early'
<1>1. Polite(net, startedCluster)'
  BY NextPolite DEF Early
<1>2. ASSUME NEW k \in Node, k \notin startedCluster' PROVE EarlyAt(k)'
  BY <1>2, MeetsForEver, NextEarlyAt DEF Early
<1> QED
  BY <1>1, <1>2 DEF Early

-----------------------------------------------------------------------------
(* Whoever waits has asked.                                                 *)

\* When n has met everybody it lets in whoever it can and asks for the rest.
LEMMA MeetingAllEager ==
    ASSUME TypeOK, Prompt, Wants, Timely, N <= 2 => Early,
           NEW n \in Node, NEW p \in Node, PacketClusterHandshake(n, p), n \notin startedCluster
    PROVE  Eager(n)'
<1> DEFINE due == pendingGrants[n] \cap public[n] \cap owned[n]
<1>1. UNCHANGED <<pendingRequests, created>> /\ pendingGrants \in [Node -> SUBSET Monitor]
  BY DEF PacketClusterHandshake, TypeOK
<1>2. PICK G : /\ pendingGrants' = [pendingGrants EXCEPT ![n] = @ \ G]
               /\ G \in GrantOutcomes(due) \/ pendingGrants' = pendingGrants
  <2>1. \/ pendingGrants' = pendingGrants
        \/ \E G \in GrantOutcomes(due) : pendingGrants' = [pendingGrants EXCEPT ![n] = @ \ G]
    BY DEF PacketClusterHandshake, Grant
  <2>2. pendingGrants' = pendingGrants => pendingGrants' = [pendingGrants EXCEPT ![n] = @ \ {}]
    BY <1>1
  <2> QED
    BY <2>1, <2>2
<1>3. CASE pendingGrants[n] = {}
  BY <1>1, <1>2, <1>3 DEF Eager
<1>4. CASE pendingGrants[n] # {}
  <2>1. "booting" \in LockWindows /\ N <= 2 /\ "skip" \notin EraseOutcomes
    BY <1>4 DEF Timely, Prompt
  <2>2. EarlyAt(n) /\ pendingGrants[n] \subseteq public[n]
    BY <2>1 DEF Early, Wants
  <2>3. n \in startedCluster' /\ GrantOutcomes(due) \subseteq {due}
    BY <2>1, OneIsAll DEF GrantOutcomes
  <2>4. \E H \in GrantOutcomes(due) : pendingGrants' = [pendingGrants EXCEPT ![n] = @ \ H]
    BY <2>3 DEF PacketClusterHandshake, Grant
  <2>5. pendingGrants'[n] = pendingGrants[n] \ due
    BY <1>1, <2>3, <2>4
  <2>6. \A m \in pendingGrants'[n] : m \in public[n] /\ m \notin owned[n]
    BY <2>2, <2>5
  <2> QED
    BY <1>1, <2>2, <2>6 DEF Eager, EarlyAt
<1> QED
  BY <1>3, <1>4

\* The system token has an answer for everybody: what is not new is asked for.
LEMMA TakeSystemTokenEager ==
    ASSUME TypeOK, SysEntryCreated, Wants, NEW n \in Node, NEW p \in Node,
           TakeSystemToken(n, p, Head(net[p][n])), Eager(n)
    PROVE  Eager(n)'
<1> DEFINE msg == Head(net[p][n])
           fresh == private[n] \ created[n]
           found == fresh \cap msg.monitors
           adopted == fresh \ msg.monitors
           new == (found \cap pendingGrants[n]) \ pendingRequests[n]
<1>1. /\ pendingGrants \in [Node -> SUBSET Monitor] /\ pendingRequests \in [Node -> SUBSET Token]
      /\ SysToken \notin Monitor
  BY MonitorAssumption DEF TypeOK
<1>2. /\ pendingRequests' = [pendingRequests EXCEPT ![n] = (@ \ {SysToken}) \cup new]
      /\ pendingGrants' = [pendingGrants EXCEPT ![n] = @ \ Grantable(n, adopted)]
  BY DEF TakeSystemToken, Grant
<1>3. /\ pendingRequests'[n] = (pendingRequests[n] \ {SysToken}) \cup new
      /\ pendingGrants'[n] = pendingGrants[n] \ Grantable(n, adopted)
  BY <1>1, <1>2
<1>4. ASSUME NEW m \in pendingGrants'[n] PROVE m \in pendingRequests'[n]
  <2>1. m \in pendingGrants[n] /\ m \notin Grantable(n, adopted) /\ m # SysToken
    BY <1>1, <1>3
  <2>2. m \in public[n] /\ m \in private[n] /\ m \notin adopted
    BY <2>1 DEF Wants, Grantable
  <2>3. CASE m \in pendingRequests[n]
    BY <1>3, <2>1, <2>3
  <2>4. CASE m \notin pendingRequests[n]
    <3>1. m \notin created[n]
      BY <2>1, <2>4 DEF Eager
    <3>2. m \in new
      BY <2>1, <2>2, <2>4, <3>1
    <3> QED
      BY <1>3, <3>2
  <2> QED
    BY <2>3, <2>4
<1> QED
  BY <1>4 DEF Eager

LEMMA NextEager ==
    ASSUME TypeOK, SysEntryCreated, Prompt, Wants, Timely, N <= 2 => Early, [Next]_vars,
           NEW k \in startedCluster'
    PROVE  Eager(k)'
<1>1. /\ public \in [Node -> SUBSET Monitor] /\ private \in [Node -> SUBSET Token]
      /\ created \in [Node -> SUBSET Token] /\ pendingGrants \in [Node -> SUBSET Monitor]
      /\ pendingRequests \in [Node -> SUBSET Token] /\ SysToken \notin Monitor
      /\ SysToken \in Token /\ Monitor \subseteq Token
  BY MonitorAssumption DEF TypeOK, Token
<1>2. ASSUME k \in startedCluster, k \in Node, pendingGrants'[k] \subseteq pendingGrants[k],
             pendingRequests[k] \subseteq pendingRequests'[k],
             created'[k] \cap pendingGrants[k] \subseteq created[k]
      PROVE  Eager(k)'
  BY <1>2 DEF Eager, Timely
<1>3. ASSUME NEW n \in Node, NEW p \in Node, HandleConnect(n, p) PROVE Eager(k)'
  <2>1. /\ k \in startedCluster /\ UNCHANGED <<pendingGrants, pendingRequests>>
        /\ \/ created' = created
           \/ created' = [created EXCEPT ![n] = @ \cup {SysToken}]
    BY <1>3 DEF HandleConnect, pendingVars
  <2>2. k \in Node /\ pendingGrants[k] \subseteq Monitor
    BY <1>1, <2>1 DEF TypeOK
  <2>3. created'[k] \subseteq created[k] \cup {SysToken}
    BY <1>1, <2>1, <2>2
  <2>4. created'[k] \cap pendingGrants[k] \subseteq created[k]
    BY <1>1, <2>2, <2>3
  <2> QED
    BY <1>2, <2>1, <2>2, <2>4
<1>4. ASSUME NEW n \in Node, NEW p \in Node, PacketClusterHandshake(n, p) PROVE Eager(k)'
  <2>1. /\ UNCHANGED <<created, pendingRequests>>
        /\ startedCluster' = startedCluster \/ startedCluster' = startedCluster \cup {n}
        /\ \/ pendingGrants' = pendingGrants
           \/ \E G : pendingGrants' = [pendingGrants EXCEPT ![n] = @ \ G]
    BY <1>4 DEF PacketClusterHandshake, Grant
  <2>2. CASE k \in startedCluster
    <3>1. k \in Node
      BY <2>2 DEF TypeOK
    <3>2. pendingGrants'[k] \subseteq pendingGrants[k]
      BY <1>1, <2>1, <3>1
    <3> QED
      BY <1>2, <2>1, <2>2, <3>1, <3>2
  <2>3. CASE k \notin startedCluster
    BY <1>4, <2>1, <2>3, MeetingAllEager
  <2> QED
    BY <2>2, <2>3
<1>5. ASSUME NEW n \in Node, NEW p \in Node, PacketGiveToken(n, p) PROVE Eager(k)'
  <2> DEFINE msg == Head(net[p][n])
  <2>1. startedCluster' = startedCluster /\ k \in Node
    BY <1>5 DEF PacketGiveToken, TakeSystemToken, TakeMonitorToken, nodeVars, TypeOK
  <2>2. CASE TakeSystemToken(n, p, msg)
    <3>1. CASE k = n
      BY <2>1, <2>2, <3>1, TakeSystemTokenEager DEF Timely
    <3>2. CASE k # n
      <4>1. /\ \E T : created' = [created EXCEPT ![n] = T]
            /\ \E T : pendingRequests' = [pendingRequests EXCEPT ![n] = T]
            /\ \E T : pendingGrants' = [pendingGrants EXCEPT ![n] = T]
        BY <2>2 DEF TakeSystemToken, Grant
      <4> QED
        BY <1>1, <1>2, <2>1, <3>2, <4>1
    <3> QED
      BY <3>1, <3>2
  <2>3. CASE msg.token # SysToken /\ TakeMonitorToken(n, p, msg)
    <3>1. /\ created' = created
          /\ pendingRequests' = [pendingRequests EXCEPT ![n] = @ \ {msg.token}]
          /\ pendingGrants' = [pendingGrants EXCEPT ![n] = @ \ Grantable(n, {msg.token})]
      BY <2>3 DEF TakeMonitorToken, Grant
    <3>2. CASE k # n
      BY <1>1, <1>2, <2>1, <3>1, <3>2
    <3>3. CASE k = n
      <4>1. ASSUME NEW m \in pendingGrants'[n]
            PROVE  \/ m \in pendingRequests'[n]
                   \/ SysToken \in pendingRequests'[n] /\ m \notin created'[n]
        <5>1. m \in pendingGrants[n] /\ m \notin Grantable(n, {msg.token})
          BY <1>1, <3>1
        <5>2. m # msg.token
          BY <5>1 DEF Wants, Grantable
        <5>3. \/ m \in pendingRequests[n]
              \/ SysToken \in pendingRequests[n] /\ m \notin created[n]
          BY <2>1, <3>3, <5>1 DEF Timely, Eager
        <5>4. msg.token # SysToken
          BY <2>3
        <5> QED
          BY <1>1, <3>1, <5>2, <5>3, <5>4
      <4> QED
        BY <3>3, <4>1 DEF Eager
    <3> QED
      BY <3>2, <3>3
  <2>4. CASE UNCHANGED <<tokenVars, pendingVars>>
    BY <1>2, <2>1, <2>4 DEF tokenVars, pendingVars
  <2> QED
    BY <1>5, <2>2, <2>3, <2>4 DEF PacketGiveToken
<1>6. ASSUME NEW n \in Node, NEW p \in Node, PacketRequestToken(n, p) PROVE Eager(k)'
  <2> DEFINE t == Head(net[p][n]).token
  <2>1. /\ UNCHANGED <<startedCluster, pendingGrants, pendingRequests>>
        /\ \/ created' = created
           \/ created' = [created EXCEPT ![n] = IF t \in private[n] THEN @ ELSE @ \cup {t}]
    BY <1>6 DEF PacketRequestToken, nodeVars, pendingVars
  <2>2. k \in Node /\ pendingGrants[k] \subseteq private[k]
    BY <2>1 DEF Wants, TypeOK
  <2> HIDE DEF t
  <2>3. created'[k] \cap pendingGrants[k] \subseteq created[k]
    BY <1>1, <2>1, <2>2
  <2> QED
    BY <1>2, <2>1, <2>2, <2>3
<1>7. ASSUME NEW n \in Node, NEW m \in Monitor, HandleNew(n, m) PROVE Eager(k)'
  <2>1. /\ UNCHANGED <<startedCluster, pendingGrants>>
        /\ \/ created' = created
           \/ m \notin private[n] /\ created' = [created EXCEPT ![n] = @ \cup {m}]
           \/ created' = [created EXCEPT ![n] = @]
        /\ \/ pendingRequests' = pendingRequests
           \/ \E T : pendingRequests' = [pendingRequests EXCEPT ![n] = @ \cup T]
    BY <1>7 DEF HandleNew, RequestTokens, nodeVars
  <2>2. k \in Node /\ pendingGrants[k] \subseteq private[k]
    BY <2>1 DEF Wants, TypeOK
  <2>3. created'[k] \cap pendingGrants[k] \subseteq created[k]
    BY <1>1, <2>1, <2>2
  <2> QED
    BY <1>1, <1>2, <2>1, <2>2, <2>3
<1>8. ASSUME NEW n \in Node, NEW m \in Monitor, RequestLock(n, m) PROVE Eager(k)'
  <2>1. /\ UNCHANGED <<startedCluster, created>> /\ k \in Node
        /\ \/ pendingRequests' = pendingRequests
           \/ \E T : pendingRequests' = [pendingRequests EXCEPT ![n] = @ \cup T]
        /\ \/ pendingGrants' = pendingGrants
           \/ pendingGrants' = [pendingGrants EXCEPT ![n] = @ \ {m}]
           \/ /\ pendingGrants' = [pendingGrants EXCEPT ![n] = @ \cup {m}]
              /\ n \in startedCluster => RequestTokens(n, {m})
    BY <1>8 DEF RequestLock, RequestTokens, nodeVars, pendingVars, TypeOK
  <2>2. CASE pendingGrants'[k] \subseteq pendingGrants[k]
    BY <1>1, <1>2, <2>1, <2>2
  <2>3. CASE ~(pendingGrants'[k] \subseteq pendingGrants[k])
    <3>1. n = k /\ pendingGrants'[k] = pendingGrants[k] \cup {m} /\ RequestTokens(n, {m})
      BY <1>1, <2>1, <2>3
    <3>2. m \in pendingRequests'[k]
      BY <1>1, <3>1 DEF RequestTokens
    <3>3. pendingRequests[k] \subseteq pendingRequests'[k]
      BY <1>1, <2>1
    <3>4. Eager(k) /\ created' = created
      BY <2>1 DEF Timely
    <3> QED
      BY <3>1, <3>2, <3>3, <3>4 DEF Eager
  <2> QED
    BY <2>2, <2>3
<1>9. ASSUME UNCHANGED <<startedCluster, created, pendingGrants, pendingRequests>>
      PROVE  Eager(k)'
  BY <1>9 DEF Timely, Eager
<1>10. ASSUME NEW n \in Node, NEW p \in Node, CrashInHandshake(n, p) \/ Disconnect(n, p)
       PROVE  Eager(k)'
  BY <1>9, <1>10 DEF CrashInHandshake, Disconnect, nodeVars, tokenVars, pendingVars
<1>11. ASSUME NEW n \in Node, NEW m \in Monitor, TakeGrant(n, m) \/ RequestUnlock(n, m)
       PROVE  Eager(k)'
  BY <1>9, <1>11 DEF TakeGrant, RequestUnlock, nodeVars, tokenVars, pendingVars
<1>12. CASE UNCHANGED vars
  BY <1>9, <1>12 DEF vars, nodeVars, tokenVars, pendingVars
<1> QED
  BY <1>3, <1>4, <1>5, <1>6, <1>7, <1>8, <1>10, <1>11, <1>12 DEF Next, Handle

LEMMA NextTimely ==
    ASSUME TypeOK, SysEntryCreated, Prompt, Wants, Timely, N <= 2 => Early, [Next]_vars
    PROVE  Timely'
<1>1. ASSUME NEW k \in startedCluster' PROVE Eager(k)'
  BY NextEager
<1>2. ASSUME "booting" \notin LockWindows, NEW k \in Node, k \notin startedCluster'
      PROVE  pendingGrants'[k] = {}
  <2>1. pendingGrants[k] = {} /\ pendingGrants \in [Node -> SUBSET Monitor]
    BY <1>2, MeetsForEver DEF Timely, TypeOK
  <2>2. ASSUME NEW n \in Node, NEW p \in Node,
               Handle(n, p) \/ CrashInHandshake(n, p) \/ Disconnect(n, p)
        PROVE  \/ pendingGrants' = pendingGrants
               \/ \E G : pendingGrants' = [pendingGrants EXCEPT ![n] = @ \ G]
    BY <2>2 DEF Handle, HandleConnect, PacketClusterHandshake, PacketGiveToken, TakeSystemToken,
       TakeMonitorToken, PacketRequestToken, CrashInHandshake, Disconnect, Grant, pendingVars
  <2>3. ASSUME NEW n \in Node, NEW m \in Monitor, HandleNew(n, m)
        PROVE  pendingGrants' = pendingGrants
    BY <2>3 DEF HandleNew
  <2>4. ASSUME NEW n \in Node, NEW m \in Monitor, RequestLock(n, m)
        PROVE  /\ n \in startedCluster
               /\ \/ pendingGrants' = pendingGrants
                  \/ \E G : pendingGrants' = [pendingGrants EXCEPT ![n] = G]
    BY <1>2, <2>4 DEF RequestLock, Window, pendingVars
  <2>5. startedCluster \subseteq startedCluster'
    BY MeetsForEver
  <2>6. ASSUME NEW n \in Node, NEW m \in Monitor, TakeGrant(n, m) \/ RequestUnlock(n, m)
        PROVE  pendingGrants' = pendingGrants
    BY <2>6 DEF TakeGrant, RequestUnlock, pendingVars
  <2>7. UNCHANGED vars => pendingGrants' = pendingGrants
    BY DEF vars, pendingVars
  <2> QED
    BY <1>2, <2>1, <2>2, <2>3, <2>4, <2>5, <2>6, <2>7 DEF Next
<1> QED
  BY <1>1, <1>2 DEF Timely

LEMMA InitEarly == Init => Early
<1> SUFFICES ASSUME Init PROVE Early
  OBVIOUS
<1>1. CASE N = 1
  <2>1. startedCluster = Node
    BY <1>1 DEF Init
  <2> QED
    BY <2>1 DEF Early, Polite
<1>2. CASE N # 1
  <2>1. started = {}
    BY <1>2 DEF Init
  <2>2. ASSUME NEW a \in Node, NEW b \in Node PROVE Greeted(net[a][b])
    <3>1. net[a][b] = IF a = b THEN <<>> ELSE <<EdgeHandshakeMsg>>
      BY DEF Init
    <3>2. ~Requests(EdgeHandshakeMsg)
      BY DEF Requests, EdgeHandshakeMsg
    <3> QED
      BY <3>1, <3>2 DEF Greeted
  <2>3. ASSUME NEW n \in Node PROVE EarlyAt(n)
    <3>1. /\ created[n] = {} /\ known[n] = {} /\ private[n] = {}
          /\ locked[n] = {} /\ public[n] = {}
      BY <1>2 DEF Init
    <3> QED
      BY <3>1 DEF EarlyAt
  <2> QED
    BY <2>1, <2>2, <2>3 DEF Early, Polite
<1> QED
  BY <1>1, <1>2

LEMMA InitTimely == Init => Timely
  BY DEF Init, Timely, Eager

\* Once a node has met everybody, whoever waits there for a monitor has asked for its
\* token or for the system token: nobody is left waiting without a request. It holds if
\* applications do not lock a monitor before the handshakes are over; or if they do,
\* among at most two nodes, and the loop of packetClusterHandshake, which the language
\* leaves undefined, passes over nobody it should let in.
THEOREM AccessRequestedHolds == ASSUME Prompt PROVE Spec => []AccessRequested
<1> DEFINE All == IInv /\ Meeting /\ Asking /\ (N <= 2 => Early) /\ Timely
<1>1. Init => All
  BY InitIInv, InitMeeting, InitAsking, InitEarly, InitTimely
<1>2. All /\ [Next]_vars => All'
  <2> SUFFICES ASSUME All, [Next]_vars PROVE All'
    OBVIOUS
  <2>1. IInv' /\ TypeOK /\ SysEntryCreated /\ Wants
    BY NextIInv DEF IInv, Asking
  <2>2. Meeting' /\ Asking'
    BY <2>1, NextMeeting, NextAsking
  <2>3. (N <= 2 => Early)'
    BY <2>1, NextEarly
  <2>4. Timely'
    BY <2>1, NextTimely
  <2> QED
    BY <2>1, <2>2, <2>3, <2>4
<1>3. All => AccessRequested
  BY DEF Timely, Eager, AccessRequested
<1> QED
  BY <1>1, <1>2, <1>3, PTL DEF Spec

=============================================================================
