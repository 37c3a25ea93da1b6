------------------------------ MODULE ClusterLoop ------------------------------
(***************************************************************************)
(* The event loop of every node of a tdmonitor cluster: class ClusterLoop  *)
(* (src/lib/cluster_loop.cpp) over TokenPrivateData, SystemToken and Token *)
(* (src/lib/token.cpp), with the application threads that call             *)
(* Monitor::create, lock and unlock and the TCP connections in between.    *)
(*                                                                         *)
(* A node has one event-loop thread, so a handler is one atomic action.    *)
(* Packets wait in net[p][n], the packets of p for n in the order sent:    *)
(* p's send queue, the socket and the part of n's event queue that came    *)
(* from p, which are all FIFO.  The events of different sources reach the  *)
(* loop in any order.  A lock, unlock or create call posts one event and   *)
(* its effect is visible only once the event is handled, so the call and   *)
(* its handler are one action too.                                         *)
(***************************************************************************)
EXTENDS TokenPrivateData

CONSTANTS
    Monitor,        \* the ids of the application's monitors
    SysToken,       \* "___system_token", whose token knows which monitors exist
    LockWindows,    \* when applications ask for a lock, see Window
    EraseOutcomes,  \* outcomes of a loop that erases its own iterator: "next",
                    \* "skip", "crash"
    MaxLocks,       \* bound: lock calls of each node, per monitor
    MaxDisconnects  \* bound: connections that break

ASSUME MonitorAssumption == IsFiniteSet(Monitor) /\ SysToken \notin Monitor
ASSUME WindowAssumption == LockWindows \subseteq {"booting", "creating", "settled"}
ASSUME EraseAssumption == EraseOutcomes \subseteq {"next", "skip", "crash"}
ASSUME BoundAssumption == MaxLocks \in [Node -> Nat] /\ MaxDisconnects \in Nat

Token == Monitor \cup {SysToken}

VARIABLES
    links,           \* m_nodes: the nodes that introduced themselves
    started,         \* m_started, as the set of nodes where it is true
    startedCluster,  \* m_startedCluster, likewise
    handshakes,      \* m_clusterHandshakes
    public,          \* keys of m_tokens: the monitors this node created
    private,         \* keys of m_tokenPrivate
    created,         \* tokens with m_created
    owned,           \* tokens with m_owned
    locked,          \* tokens with m_locked
    alg,             \* m_rn, m_ln and m_queue; NewAlg while there is no entry
    known,           \* SystemToken::m_monitors
    pendingGrants,   \* m_pendingGrants
    pendingRequests, \* m_pendingRequests
    granted,         \* monitors whose Token::m_granted is set
    data,            \* the shared properties, as the number of updates they contain
    app,             \* what the thread that uses the monitor does
    locks,           \* lock calls so far (for MaxLocks)
    net,             \* net[p][n]: packets from p to n
    cut,             \* broken connections, as sets {p, n}
    dead             \* processes that crashed

nodeVars == <<links, started, startedCluster, handshakes>>
tokenVars == <<public, private, created, owned, locked, alg, known>>
pendingVars == <<pendingGrants, pendingRequests>>
appVars == <<granted, data, app, locks>>
faultVars == <<cut, dead>>
vars == <<nodeVars, tokenVars, pendingVars, appVars, net, faultVars>>

-----------------------------------------------------------------------------
(* Packets of src/lib/packets/core.cpp.                                     *)

EdgeHandshakeMsg == [type |-> "EdgeHandshake"]
ClusterHandshakeMsg == [type |-> "ClusterHandshake"]

RequestTokenMsg(t, number) == [type |-> "RequestToken", token |-> t, number |-> number]

\* The property map of a token: LN and queue (saveProperties), the monitors for
\* the system token, the application's properties (the save delegate) for others.
GiveTokenMsg(t, a, monitors, value) ==
    [type |-> "GiveToken", token |-> t, ln |-> a.ln, queue |-> a.queue,
     monitors |-> monitors, value |-> value]

Message ==
    {EdgeHandshakeMsg, ClusterHandshakeMsg}
    \cup [type : {"RequestToken"}, token : Token, number : RequestNumber]
    \cup [type : {"GiveToken"}, token : Token, ln : [Node -> RequestNumber],
          queue : Seq(Node), monitors : SUBSET Monitor, value : Nat]

AppState == {"outside", "waiting", "inside"}

TypeOK ==
    /\ links \in [Node -> SUBSET Node]
    /\ started \in SUBSET Node
    /\ startedCluster \in SUBSET Node
    /\ handshakes \in [Node -> Nat]
    /\ public \in [Node -> SUBSET Monitor]
    /\ private \in [Node -> SUBSET Token]
    /\ created \in [Node -> SUBSET Token]
    /\ owned \in [Node -> SUBSET Token]
    /\ locked \in [Node -> SUBSET Token]
    /\ alg \in [Node -> [Token -> Alg]]
    /\ known \in [Node -> SUBSET Monitor]
    /\ pendingGrants \in [Node -> SUBSET Monitor]
    /\ pendingRequests \in [Node -> SUBSET Token]
    /\ granted \in [Node -> SUBSET Monitor]
    /\ data \in [Node -> [Monitor -> Nat]]
    /\ app \in [Node -> [Monitor -> AppState]]
    /\ locks \in [Node -> [Monitor -> Nat]]
    /\ net \in [Node -> [Node -> Seq(Message)]]
    /\ cut \in SUBSET SUBSET Node
    /\ dead \in SUBSET Node

-----------------------------------------------------------------------------
(* A cluster of one node is started by the constructor, any other one by    *)
(* handshakes.  Each end of a connection begins with its EdgeHandshake      *)
(* (Cluster::tcpNew, tcpState).                                             *)

Init ==
    /\ links = [n \in Node |-> {}]
    /\ started = IF N = 1 THEN Node ELSE {}
    /\ startedCluster = started
    /\ handshakes = [n \in Node |-> 0]
    /\ public = [n \in Node |-> {}]
    /\ private = [n \in Node |-> IF N = 1 THEN {SysToken} ELSE {}]
    /\ created = private
    /\ owned = private
    /\ locked = [n \in Node |-> {}]
    /\ alg = [n \in Node |-> [t \in Token |-> NewAlg]]
    /\ known = [n \in Node |-> {}]
    /\ pendingGrants = [n \in Node |-> {}]
    /\ pendingRequests = [n \in Node |-> {}]
    /\ granted = [n \in Node |-> {}]
    /\ data = [n \in Node |-> [m \in Monitor |-> 0]]
    /\ app = [n \in Node |-> [m \in Monitor |-> "outside"]]
    /\ locks = [n \in Node |-> [m \in Monitor |-> 0]]
    /\ net = [p \in Node |-> [n \in Node |->
                  IF p = n THEN <<>> ELSE <<EdgeHandshakeMsg>>]]
    /\ cut = {}
    /\ dead = {}

-----------------------------------------------------------------------------
(* Helpers of the handlers.                                                 *)

Alive(n) == n \notin dead

Arrives(n, p, type) ==
    /\ Alive(n)
    /\ net[p][n] # <<>>
    /\ Head(net[p][n]).type = type

\* The network once n has taken the first packet of p.
Received(n, p) == [net EXCEPT ![p][n] = Tail(@)]

\* TcpManager::sendTo: n's packets msgs are queued for every node of peers.
\* A client object whose connection is gone swallows them.
Post(w, n, peers, msgs) ==
    [w EXCEPT ![n] = [d \in Node |->
        IF d \in peers /\ {n, d} \notin cut THEN w[n][d] \o msgs ELSE w[n][d]]]

\* incrementRequestNumber for every token of T.
Numbered(a, n, T) ==
    [t \in Token |-> IF t \in T THEN IncrementRequestNumber(a[t], n) ELSE a[t]]

\* The requests for the tokens of a sequence, with the numbers in a.
RequestMsgs(a, n, order) ==
    [i \in DOMAIN order |-> RequestTokenMsg(order[i], a[order[i]].rn[n])]

\* requestToken for every token of T, in any order of its keys.
RequestTokens(n, T) ==
    LET new == T \ pendingRequests[n]
        numbered == Numbered(alg[n], n, new)
    IN  /\ pendingRequests' = [pendingRequests EXCEPT ![n] = @ \cup new]
        /\ IF n \in startedCluster
           THEN /\ alg' = [alg EXCEPT ![n] = numbered]
                /\ \E order \in Orderings(new) :
                      net' = Post(net, n, links[n], RequestMsgs(numbered, n, order))
           ELSE UNCHANGED <<alg, net>>

\* Mutant of Grantable: it asks for m_owned before setOwned(true).
GrantableIfOwned(n, T) == T \cap pendingGrants[n] \cap public[n] \cap owned[n]

\* The tokens of T a call of grant would let the application have.
Grantable(n, T) == T \cap pendingGrants[n] \cap public[n]

\* Mutant of Grant: setLocked(true) is missing.
GrantUnlocked(n, G) ==
    /\ pendingGrants' = [pendingGrants EXCEPT ![n] = @ \ G]
    /\ granted' = [granted EXCEPT ![n] = @ \cup G]
    /\ UNCHANGED locked

Grant(n, G) ==
    /\ pendingGrants' = [pendingGrants EXCEPT ![n] = @ \ G]
    /\ locked' = [locked EXCEPT ![n] = @ \cup G]
    /\ granted' = [granted EXCEPT ![n] = @ \cup G]

\* Mutant of TokenMsg: callSaveProperties is missing.
TokenMsgUnsaved(n, t, a) ==
    GiveTokenMsg(t, a, IF t = SysToken THEN known[n] ELSE {}, 0)

\* The packet sendToken builds for token t of node n from the record a.
TokenMsg(n, t, a) ==
    IF t = SysToken THEN GiveTokenMsg(t, a, known[n], 0)
                    ELSE GiveTokenMsg(t, a, {}, data[n][t])

-----------------------------------------------------------------------------
(* Connecting and creating monitors.                                        *)

\* EventConnected: when everybody is connected the node starts, says so, and
\* makes its half of the system token; node 0 registers what it created so far.
HandleConnect(n, p) ==
    LET peers == links[n] \cup {p}
        starts == Cardinality(peers) >= N - 1 /\ n \notin started
    IN  /\ Arrives(n, p, "EdgeHandshake")
        /\ links' = [links EXCEPT ![n] = peers]
        /\ IF starts
           THEN /\ started' = started \cup {n}
                /\ private' = [private EXCEPT ![n] = @ \cup {SysToken}]
                /\ created' = [created EXCEPT ![n] = @ \cup {SysToken}]
                /\ owned' = [owned EXCEPT ![n] = IF n = 0 THEN @ \cup {SysToken} ELSE @]
                /\ known' = [known EXCEPT ![n] = IF n = 0 THEN private[n] \ {SysToken} ELSE @]
                /\ net' = Post(Received(n, p), n, peers, <<ClusterHandshakeMsg>>)
           ELSE /\ net' = Received(n, p)
                /\ UNCHANGED <<started, private, created, owned, known>>
        /\ UNCHANGED <<startedCluster, handshakes, public, locked, alg,
                       pendingVars, appVars, faultVars>>

\* The system token's set is consulted: the monitor exists elsewhere.
Exists(n, m) == n \in started /\ m \in known[n]

\* Mutant of Adopts: the node does not ask whether it holds the system token.
AdoptsAlways(n, m) == IF n \in started THEN ~Exists(n, m) ELSE n = 0

\* The node may decide that the monitor is new.
Adopts(n, m) ==
    IF n \in started THEN ~Exists(n, m) /\ SysToken \in owned[n] ELSE n = 0

\* Monitor::create and handleNew.  Before the start only node 0 may decide that
\* the monitor is new; afterwards whoever holds the system token.
HandleNew(n, m) ==
    LET entry == m \in private[n]
        exists == Exists(n, m)
        adopts == Adopts(n, m)
    IN  /\ Alive(n)
        /\ m \notin public[n]
        /\ public' = [public EXCEPT ![n] = @ \cup {m}]
        /\ IF entry
           THEN UNCHANGED <<private, created, owned, known, alg, pendingRequests, net>>
           ELSE /\ private' = [private EXCEPT ![n] = @ \cup {m}]
                /\ created' = [created EXCEPT ![n] = IF exists \/ adopts THEN @ \cup {m} ELSE @]
                /\ owned' = [owned EXCEPT ![n] = IF adopts THEN @ \cup {m} ELSE @]
                /\ known' = [known EXCEPT ![n] = IF adopts /\ n \in started
                                                 THEN @ \cup {m} ELSE @]
                /\ IF exists \/ adopts
                   THEN UNCHANGED <<alg, pendingRequests, net>>
                   ELSE RequestTokens(n, {SysToken})
        /\ UNCHANGED <<nodeVars, locked, pendingGrants, appVars, faultVars>>

-----------------------------------------------------------------------------
(* Packets.                                                                 *)

\* What the loop over m_pendingGrants grants.  grant erases the element the
\* loop stands on, so what happens after the first grant is undefined: "next"
\* is the intended iteration, "skip" loses some of the remaining elements and
\* "crash" ends the process.
GrantOutcomes(due) ==
    (IF "next" \in EraseOutcomes \/ due = {} THEN {due} ELSE {})
    \cup (IF "skip" \in EraseOutcomes THEN SUBSET due \ {{}} ELSE {})

\* Mutant of AllIntroduced: one handshake too few.
AllButOneIntroduced(count) == count >= N - 2

AllIntroduced(count) == count >= N - 1

PacketClusterHandshake(n, p) ==
    LET completes == AllIntroduced(handshakes[n] + 1) /\ n \notin startedCluster
        due == pendingGrants[n] \cap public[n] \cap owned[n]
        numbered == Numbered(alg[n], n, pendingRequests[n])
    IN  /\ Arrives(n, p, "ClusterHandshake")
        /\ handshakes' = [handshakes EXCEPT ![n] = @ + 1]
        /\ IF completes
           THEN /\ startedCluster' = startedCluster \cup {n}
                /\ \E G \in GrantOutcomes(due) : Grant(n, G)
                /\ alg' = [alg EXCEPT ![n] = numbered]
                /\ \E order \in Orderings(pendingRequests[n]) :
                      net' = Post(Received(n, p), n, links[n],
                                  RequestMsgs(numbered, n, order))
           ELSE /\ net' = Received(n, p)
                /\ UNCHANGED <<startedCluster, alg, pendingGrants, locked, granted>>
        /\ UNCHANGED <<links, started, public, private, created, owned, known,
                       pendingRequests, data, app, locks, faultVars>>

\* The undefined iteration ends the process.
CrashInHandshake(n, p) ==
    /\ "crash" \in EraseOutcomes
    /\ Arrives(n, p, "ClusterHandshake")
    /\ AllIntroduced(handshakes[n] + 1) /\ n \notin startedCluster
    /\ pendingGrants[n] \cap public[n] \cap owned[n] # {}
    /\ dead' = dead \cup {n}
    /\ UNCHANGED <<nodeVars, tokenVars, pendingVars, appVars, net, cut>>

\* The system token arrives: every monitor waiting to be created is either
\* found in it, and requested if somebody waits, or registered and granted.
\* Then the token moves on if another node asked for it.
TakeSystemToken(n, p, msg) ==
    LET fresh == private[n] \ created[n]
        found == fresh \cap msg.monitors
        adopted == fresh \ msg.monitors
        new == (found \cap pendingGrants[n]) \ pendingRequests[n]
        holds == (owned[n] \ found) \cup adopted \cup {SysToken}
        registered == msg.monitors \cup adopted
        loaded == [alg[n] EXCEPT ![SysToken] = LoadProperties(@, msg.ln, msg.queue)]
        numbered == IF n \in startedCluster THEN Numbered(loaded, n, new) ELSE loaded
    IN  /\ created' = [created EXCEPT ![n] = @ \cup fresh]
        /\ known' = [known EXCEPT ![n] = registered]
        /\ pendingRequests' = [pendingRequests EXCEPT ![n] = (@ \ {SysToken}) \cup new]
        /\ Grant(n, Grantable(n, adopted))
        /\ \E after \in Released(numbered[SysToken], n),
              order \in Orderings(IF n \in startedCluster THEN new ELSE {}) :
              LET asked == Post(Received(n, p), n, links[n], RequestMsgs(numbered, n, order))
              IN  IF after.queue = <<>>
                  THEN /\ owned' = [owned EXCEPT ![n] = holds]
                       /\ alg' = [alg EXCEPT ![n] = [numbered EXCEPT ![SysToken] = after]]
                       /\ net' = asked
                  ELSE /\ owned' = [owned EXCEPT ![n] = holds \ {SysToken}]
                       /\ alg' = [alg EXCEPT ![n] = [numbered EXCEPT ![SysToken] = Popped(after)]]
                       /\ net' = Post(asked, n, {Head(after.queue)},
                                      <<GiveTokenMsg(SysToken, Popped(after), registered, 0)>>)
        /\ UNCHANGED <<nodeVars, public, private, data, app, locks, faultVars>>

\* The token of a monitor arrives: the application's properties are loaded and
\* the thread that waits for the lock is let in.
TakeMonitorToken(n, p, msg) ==
    LET m == msg.token
    IN  /\ owned' = [owned EXCEPT ![n] = @ \cup {m}]
        /\ pendingRequests' = [pendingRequests EXCEPT ![n] = @ \ {m}]
        /\ alg' = [alg EXCEPT ![n][m] = LoadProperties(@, msg.ln, msg.queue)]
        /\ data' = IF m \in public[n] THEN [data EXCEPT ![n][m] = msg.value] ELSE data
        /\ Grant(n, Grantable(n, {m}))
        /\ net' = Received(n, p)
        /\ UNCHANGED <<nodeVars, public, private, created, known, app, locks, faultVars>>

\* Mutant of Unexpected: the token is looked up in m_tokens.
UnexpectedUnlessPublic(n, t) ==
    n \notin started \/ t \notin public[n] \/ t \in owned[n]

\* The early returns of packetGiveToken.
Unexpected(n, t) == n \notin started \/ t \notin private[n] \/ t \in owned[n]

PacketGiveToken(n, p) ==
    LET msg == Head(net[p][n])
    IN  /\ Arrives(n, p, "GiveToken")
        /\ IF Unexpected(n, msg.token)
           THEN /\ net' = Received(n, p)
                /\ UNCHANGED <<nodeVars, tokenVars, pendingVars, appVars, faultVars>>
           ELSE IF msg.token = SysToken
                THEN TakeSystemToken(n, p, msg)
                ELSE TakeMonitorToken(n, p, msg)

\* Mutant of Serves: a locked token is given away.
ServesLocked(n, t, p, a) == t \in owned[n] /\ Outstanding(a, p)

\* The owner gives t to p at once: nobody is inside, and the request is new.
Serves(n, t, p, a) == t \in owned[n] /\ t \notin locked[n] /\ Outstanding(a, p)

\* A request is recorded, and served at once by an owner that is not inside.
\* A node that never heard of the token makes a private entry for it.
PacketRequestToken(n, p) ==
    LET msg == Head(net[p][n])
        t == msg.token
        updated == UpdateRequestNumber(alg[n][t], p, msg.number)
    IN  /\ Arrives(n, p, "RequestToken")
        /\ IF n \notin started
           THEN /\ net' = Received(n, p)
                /\ UNCHANGED <<private, created, owned, alg>>
           ELSE /\ private' = [private EXCEPT ![n] = @ \cup {t}]
                /\ created' = [created EXCEPT ![n] =
                                  IF t \in private[n] THEN @ ELSE @ \cup {t}]
                /\ alg' = [alg EXCEPT ![n][t] = updated]
                /\ IF Serves(n, t, p, updated)
                   THEN /\ owned' = [owned EXCEPT ![n] = @ \ {t}]
                        /\ net' = Post(Received(n, p), n, {p}, <<TokenMsg(n, t, updated)>>)
                   ELSE /\ net' = Received(n, p)
                        /\ owned' = owned
        /\ UNCHANGED <<nodeVars, public, locked, known, pendingVars, appVars, faultVars>>

-----------------------------------------------------------------------------
(* Applications.                                                            *)

\* Where node n stands with monitor m when the application asks for the lock.
\* Nothing in the API restrains the application: LockWindows does, so that a
\* run can tell which of the windows a property depends on.
Window(n, m) ==
    IF n \notin startedCluster THEN "booting"
    ELSE IF m \notin created[n] THEN "creating" ELSE "settled"

\* Monitor::lock up to takeGrant, and requestLock.
RequestLock(n, m) ==
    /\ Alive(n)
    /\ m \in public[n]
    /\ app[n][m] = "outside"
    /\ locks[n][m] < MaxLocks[n]
    /\ Window(n, m) \in LockWindows
    /\ app' = [app EXCEPT ![n][m] = "waiting"]
    /\ locks' = [locks EXCEPT ![n][m] = @ + 1]
    /\ IF m \in locked[n]
       THEN UNCHANGED <<pendingVars, locked, granted, alg, net>>
       ELSE IF n \in startedCluster /\ m \in owned[n]
       THEN /\ pendingGrants' = [pendingGrants EXCEPT ![n] = @ \ {m}]
            /\ locked' = [locked EXCEPT ![n] = @ \cup {m}]
            /\ granted' = [granted EXCEPT ![n] = @ \cup {m}]
            /\ UNCHANGED <<pendingRequests, alg, net>>
       ELSE /\ pendingGrants' = [pendingGrants EXCEPT ![n] = @ \cup {m}]
            /\ IF n \in startedCluster
               THEN RequestTokens(n, {m})
               ELSE UNCHANGED <<pendingRequests, alg, net>>
            /\ UNCHANGED <<locked, granted>>
    /\ UNCHANGED <<nodeVars, public, private, created, owned, known, data, faultVars>>

\* Token::takeGrant returns; the thread enters and updates the properties.
TakeGrant(n, m) ==
    /\ Alive(n)
    /\ app[n][m] = "waiting"
    /\ m \in granted[n]
    /\ granted' = [granted EXCEPT ![n] = @ \ {m}]
    /\ app' = [app EXCEPT ![n][m] = "inside"]
    /\ data' = [data EXCEPT ![n][m] = @ + 1]
    /\ UNCHANGED <<nodeVars, tokenVars, pendingVars, locks, net, faultVars>>

\* Monitor::unlock and requestUnlock.
RequestUnlock(n, m) ==
    /\ Alive(n)
    /\ app[n][m] = "inside"
    /\ app' = [app EXCEPT ![n][m] = "outside"]
    /\ IF m \notin private[n] \/ m \notin locked[n]
       THEN UNCHANGED <<locked, owned, alg, net>>
       ELSE /\ locked' = [locked EXCEPT ![n] = @ \ {m}]
            /\ \E after \in Released(alg[n][m], n) :
                  IF after.queue = <<>>
                  THEN /\ alg' = [alg EXCEPT ![n][m] = after]
                       /\ UNCHANGED <<owned, net>>
                  ELSE /\ alg' = [alg EXCEPT ![n][m] = Popped(after)]
                       /\ owned' = [owned EXCEPT ![n] = @ \ {m}]
                       /\ net' = Post(net, n, {Head(after.queue)},
                                      <<TokenMsg(n, m, Popped(after))>>)
    /\ UNCHANGED <<nodeVars, public, private, created, known, pendingVars,
                   granted, data, locks, faultVars>>

-----------------------------------------------------------------------------
(* A connection breaks: any suffix of what is under way is lost, and the    *)
(* nodes only log the EventDisconnected (handleDisconnect).                 *)

Disconnect(n, p) ==
    /\ n < p
    /\ {n, p} \notin cut
    /\ Cardinality(cut) < MaxDisconnects \/ {n, p} \cap dead # {}
    /\ cut' = cut \cup {{n, p}}
    /\ \E i \in 0 .. Len(net[n][p]), j \in 0 .. Len(net[p][n]) :
          net' = [net EXCEPT ![n][p] = SubSeq(@, 1, i), ![p][n] = SubSeq(@, 1, j)]
    /\ UNCHANGED <<nodeVars, tokenVars, pendingVars, appVars, dead>>

-----------------------------------------------------------------------------
\* The loop of n handles the next packet of p.
Handle(n, p) ==
    \/ HandleConnect(n, p)
    \/ PacketClusterHandshake(n, p)
    \/ PacketGiveToken(n, p)
    \/ PacketRequestToken(n, p)

Next ==
    \/ \E n, p \in Node : Handle(n, p)
    \/ \E n, p \in Node : CrashInHandshake(n, p)
    \/ \E n, p \in Node : Disconnect(n, p)
    \/ \E n \in Node, m \in Monitor : HandleNew(n, m)
    \/ \E n \in Node, m \in Monitor : RequestLock(n, m)
    \/ \E n \in Node, m \in Monitor : TakeGrant(n, m)
    \/ \E n \in Node, m \in Monitor : RequestUnlock(n, m)

Spec == Init /\ [][Next]_vars

\* Threads run: the TCP and the event-loop thread handle what has arrived, a
\* granted thread wakes up, and applications leave their critical sections.
\* Nothing makes an application create a monitor or ask for a lock.
Fairness ==
    /\ \A n, p \in Node : WF_vars(Handle(n, p))
    /\ \A n \in Node, m \in Monitor : WF_vars(TakeGrant(n, m)) /\ WF_vars(RequestUnlock(n, m))

FairSpec == Spec /\ Fairness

-----------------------------------------------------------------------------
(* Where a token is.                                                        *)

Gives(msg, t) == msg.type = "GiveToken" /\ msg.token = t

\* The nodes that hold t, or are still inside with it.
Holders(t) == {n \in Node : t \in owned[n] \cup locked[n]}

\* The places in the network, <<from, to, position>>, where t is under way.
Flights(t) ==
    UNION {{<<p, n, i>> : i \in {j \in DOMAIN net[p][n] : Gives(net[p][n][j], t)}} :
               p \in Node, n \in Node}

\* What travels with a token: LN and the queue, wherever the token is.
Travelling(t) ==
    {[at |-> n, ln |-> alg[n][t].ln, queue |-> alg[n][t].queue] :
        n \in {k \in Node : t \in owned[k]}}
    \cup {[at |-> f[2], ln |-> net[f[1]][f[2]][f[3]].ln,
           queue |-> net[f[1]][f[2]][f[3]].queue] : f \in Flights(t)}

\* The monitors the system token knows, wherever it is.
Registered ==
    UNION ({known[n] : n \in {k \in Node : SysToken \in owned[k]}}
           \cup {net[f[1]][f[2]][f[3]].monitors : f \in Flights(SysToken)})

-----------------------------------------------------------------------------
(* Safety, whatever fails and whenever applications ask for locks.          *)

\* At most one thread of the whole cluster is between lock and unlock of a
\* monitor (takeGrant returning, requestUnlock): what a monitor is for.
MutualExclusion ==
    \A m \in Monitor : \A j, k \in Node :
        app[j][m] = "inside" /\ app[k][m] = "inside" => j = k

\* A token is never in two places, where a place is a node that owns or uses it
\* (m_owned, m_locked) or a GiveToken packet: creating a monitor, losing packets
\* and crossing requests never duplicate it.
TokenUnique ==
    \A t \in Token : Cardinality(Holders(t)) + Cardinality(Flights(t)) <= 1

\* A thread that is inside sees the updates of everybody who was inside before:
\* its copy of the properties is strictly newer than any other node's
\* (callSaveProperties and callLoadProperties along the token's way).
Freshness ==
    \A m \in Monitor : \A n, k \in Node :
        app[n][m] = "inside" /\ k # n => data[n][m] > data[k][m]

\* A grant (Token::m_granted) is there only for a thread that waits for it, and
\* whoever was granted or is inside has the lock bit that keeps
\* packetRequestToken from giving the token away: no grant survives to let a
\* later lock call in.
GrantHoldsLock ==
    \A n \in Node, m \in Monitor :
        /\ m \in granted[n] => app[n][m] = "waiting"
        /\ m \in locked[n] <=> m \in granted[n] \/ app[n][m] = "inside"

\* A packet that a handler would throw away never arrives: requests and tokens
\* reach only started nodes, and a token reaches only a node that has an entry
\* for it and does not own it (the early returns of packetGiveToken would lose
\* the token for good).
NoPacketDiscarded ==
    \A p, n \in Node : \A i \in DOMAIN net[p][n] :
        LET msg == net[p][n][i]
        IN  /\ msg.type \in {"RequestToken", "GiveToken"} => n \in started
            /\ msg.type = "GiveToken" =>
                  msg.token \in private[n] /\ msg.token \notin owned[n]

\* The queue that travels with a token lists nobody twice and never the node
\* the token is at or on its way to: sendTo(m_nodes[own id]) would dereference
\* a missing connection.
QueueSane ==
    \A t \in Token : \A r \in Travelling(t) :
        /\ \A i, j \in DOMAIN r.queue : r.queue[i] = r.queue[j] => i = j
        /\ r.at \notin QueueRange(r.queue)

\* Nobody believes in a request that was never made, and a node has at most one
\* request the token has not served: rn = ln + 1 is then the right test for
\* "k waits" (release, packetRequestToken).
RequestWindow ==
    \A t \in Token : \A r \in Travelling(t) : \A j, k \in Node :
        /\ alg[j][t].rn[k] <= alg[k][t].rn[k]
        /\ alg[k][t].rn[k] \in {r.ln[k], r.ln[k] + 1}

-----------------------------------------------------------------------------
(* The cluster implements DistributedMonitor.                               *)

\* The properties of m are those of the newest copy.
Newest(m) ==
    CHOOSE v \in {data[n][m] : n \in Node} : \A n \in Node : data[n][m] <= v

Promise == INSTANCE DistributedMonitor
    WITH Process <- Node, state <- app, value <- [m \in Monitor |-> Newest(m)]

\* A thread enters (takeGrant returns) only while nobody else in the cluster is
\* inside, and the copy it then updates is the newest one: every lock call of
\* the program is an Ask, every return of it an Enter, every unlock a Leave, and
\* no other handler changes what applications see.
ImplementsPromise == Promise!Spec

-----------------------------------------------------------------------------
(* Safety that needs a cluster where no connection breaks, or applications  *)
(* that do not lock a monitor while it is being created.                    *)

\* m_locked is "are we in the section", m_owned "do we have the token now"
\* (token.h:52-56): the section is never entered or kept without the token.
LockedImpliesOwned == \A n \in Node : locked[n] \subseteq owned[n]

\* No token is lost: the system token exists once node 0 has started, and the
\* token of every monitor it knows is owned by a node or under way.
TokenConserved ==
    0 \in started =>
        \A t \in Registered \cup {SysToken} :
            Flights(t) # {} \/ \E n \in Node : t \in owned[n]

\* A node that has a request pending (m_pendingRequests) will be served: its
\* number is the next the token serves, and every other node has it or is sent it.
RequestKept ==
    \A n \in startedCluster : \A t \in pendingRequests[n] :
        LET number == alg[n][t].rn[n]
        IN  /\ \A r \in Travelling(t) : number = Inc32(r.ln[n])
            /\ \A k \in Node \ {n} :
                  \/ alg[k][t].rn[n] = number
                  \/ RequestTokenMsg(t, number) \in QueueRange(net[n][k])

\* "ClusterHandshake finished, sending token requests and granting access if
\* possible" (cluster_loop.cpp:192): from then on whoever waits for a monitor has
\* asked for its token or for the system token.
AccessRequested ==
    \A n \in startedCluster : \A m \in pendingGrants[n] :
        pendingRequests[n] \cap {m, SysToken} # {}

-----------------------------------------------------------------------------
(* Liveness.                                                                *)

\* A thread that waits in lock() gets in.
LockGranted ==
    \A n \in Node, m \in Monitor : app[n][m] = "waiting" ~> app[n][m] = "inside"

=============================================================================
