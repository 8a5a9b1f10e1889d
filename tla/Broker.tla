--------------------------------- MODULE Broker ---------------------------------
(* One broker, as its own thread sees it: client sessions, subscriptions, the  *)
(* interest it shows its peers, and the routing of messages.  The thread       *)
(* handles one message, one sweep or one statistics report at a time, and each *)
(* is one action here.  What the other threads do to the peer links between    *)
(* the locks of an action is left to a model of the links.                     *)
(* Models src/server/broker.cpp over SubscriptionMap and DedupWindow.          *)
EXTENDS SubscriptionMap, DedupWindow

CONSTANTS Links,                         \* clients that are links of peer brokers
          Payloads,                      \* payload frames a SUBSCRIBE may carry
          Clusters,                      \* valid cluster names, 1 to 64 characters
          MaxInterestTopics, MAX_SUBSCRIPTIONS_PER_CLIENT,
          MaxRemovalsPerSweep

ASSUME BrokerAssumption ==
    /\ Links \subseteq Clients
    /\ WILDCARD_TOPIC \in Topics
    /\ SYS_STATS \in Topics
    /\ MaxInterestTopics \in Nat
    /\ MAX_SUBSCRIPTIONS_PER_CLIENT \in Nat \ {0}
    /\ MaxRemovalsPerSweep \in Nat \ {0}

ASSUME ClusterAssumption == "" \notin Clusters

VARIABLES
    m_clients,            \* sessions the broker knows
    expired,              \* those of them silent for longer than m_clientTimeout
    subs,                 \* the registry, as a SubscriptionMap
    m_interest, m_interestSaturated, m_interestWildcard,
    linkSubs,             \* what a dialed link that heard every update holds remotely
    m_clusterName,        \* "" while discovery is off
    sent,                 \* <<client, key>> for each control frame of the last step
    got                   \* got[u][c]: copies of u that c published or was sent

sessionVars == <<m_clients, expired>>
interestVars == <<m_interest, m_interestSaturated, m_interestWildcard, linkSubs>>
routeVars == <<windowVars, got>>
vars == <<sessionVars, subs, interestVars, m_clusterName, routeVars, sent>>

(* Names a SUBSCRIBE is refused for, whoever sends it.                         *)
RefusedTopics == {"", "over MAX_TOPIC_LENGTH_BYTES"}

isPropagatableTopic(topic) ==
    topic # "" /\ topic # WILDCARD_TOPIC /\ ~ isReservedKey(topic)

canSubscribe(client, topic) ==
    \/ topic \in SubscriptionsOf(subs, client)
    \/ Cardinality(SubscriptionsOf(subs, client)) < MAX_SUBSCRIPTIONS_PER_CLIENT
--------------------------------------------------------------------------------
(* Interest.  Each of the two takes the topics that have just gained, or lost, *)
(* their mesh subscribers, and updates the links with what it changed.         *)
noteTopicSubscribed(topic) ==
    \/ /\ topic = WILDCARD_TOPIC
       /\ m_interestWildcard' = TRUE
       /\ linkSubs' = IF m_interestWildcard THEN linkSubs ELSE linkSubs \cup {WILDCARD_TOPIC}
       /\ UNCHANGED <<m_interest, m_interestSaturated>>
    \/ /\ isPropagatableTopic(topic)
       /\ ~ m_interestSaturated
       /\ topic \notin m_interest
       /\ m_interest' = m_interest \cup {topic}
       /\ m_interestSaturated' = (Cardinality(m_interest') > MaxInterestTopics)
       /\ linkSubs' = linkSubs \cup {IF m_interestSaturated' THEN WILDCARD_TOPIC ELSE topic}
       /\ UNCHANGED m_interestWildcard
    \/ /\ topic # WILDCARD_TOPIC
       /\ isPropagatableTopic(topic) => m_interestSaturated \/ topic \in m_interest
       /\ UNCHANGED interestVars

(* The links after a topic is withdrawn, and after the wildcard is.            *)
NarrowedAlways == (linkSubs \ {WILDCARD_TOPIC}) \cup m_interest
Narrowed ==
    IF m_interestSaturated THEN linkSubs
    ELSE (linkSubs \ {WILDCARD_TOPIC}) \cup m_interest

noteTopicUnsubscribed(topics) ==
    LET gone == IF m_interestSaturated THEN {}
                ELSE {t \in topics : isPropagatableTopic(t)} \cap m_interest
        narrows == WILDCARD_TOPIC \in topics /\ m_interestWildcard
    IN  /\ m_interest' = m_interest \ gone
        /\ m_interestWildcard' = (m_interestWildcard /\ ~ narrows)
        /\ linkSubs' = (IF narrows THEN Narrowed ELSE linkSubs) \ gone
        /\ UNCHANGED m_interestSaturated

(* Asked of a topic whose subscriptions the step changed.                      *)
noteMeshInterestOnlyGrows(topic) ==
    LET before == HasMeshSubscriber(subs, topic)
        now == HasMeshSubscriber(subs', topic)
    IN  IF now /\ ~ before THEN noteTopicSubscribed(topic) ELSE UNCHANGED interestVars
noteMeshInterestChange(topic) ==
    LET before == HasMeshSubscriber(subs, topic)
        now == HasMeshSubscriber(subs', topic)
    IN  \/ now = before /\ UNCHANGED interestVars
        \/ now /\ ~ before /\ noteTopicSubscribed(topic)
        \/ before /\ ~ now /\ noteTopicUnsubscribed({topic})

(* removeClient, for every client of a set: the registry first, then the       *)
(* interest in what the clients were the last to want from the mesh.           *)
removeSessionsOnly(clients) == subs' = subs /\ UNCHANGED interestVars
removeClient(clients) ==
    /\ subs' = Without(subs, clients)
    /\ noteTopicUnsubscribed({t \in Topics : HasMeshSubscriber(subs, t)
                                             /\ ~ HasMeshSubscriber(subs', t)})
--------------------------------------------------------------------------------
Init ==
    /\ m_clients = {} /\ expired = {}
    /\ subs = NoSubscriptions
    /\ m_interest = {} /\ m_interestSaturated = FALSE /\ m_interestWildcard = FALSE
    /\ linkSubs = {}
    /\ m_clusterName \in Clusters \cup {""}
    /\ WindowInit
    /\ sent = {}
    /\ got = [u \in Ids |-> [c \in Clients |-> 0]]

(* Any message but DISCONNECT makes its sender a session and renews it; one    *)
(* from an unknown sender that did not lead with CONNECT draws a RESET.        *)
Renew(client) ==
    /\ m_clients' = m_clients \cup {client}
    /\ expired' = expired \ {client}
Asked(client) == IF client \in m_clients THEN {} ELSE {<<client, "RESET">>}

(* CONNECT, HEARTBEAT, and reserved keys this broker does not know.            *)
Connect(client) ==
    /\ Renew(client)
    /\ sent' = {}
    /\ UNCHANGED <<subs, interestVars, m_clusterName, routeVars>>

Heartbeat(client) ==
    /\ Renew(client)
    /\ sent' = Asked(client) \cup {<<client, "HEARTBEAT_ACK">>}
    /\ UNCHANGED <<subs, interestVars, m_clusterName, routeVars>>

UnknownControl(client) ==
    /\ Renew(client)
    /\ sent' = Asked(client)
    /\ UNCHANGED <<subs, interestVars, m_clusterName, routeVars>>

Disconnect(client) ==
    /\ removeClient({client})
    /\ m_clients' = m_clients \ {client}
    /\ expired' = expired \ {client}
    /\ sent' = {}
    /\ UNCHANGED <<m_clusterName, routeVars>>

(* A link of a peer broker subscribes with no payload, and only to what that   *)
(* broker propagates: topics of applications and the wildcard.                 *)
SubscribeIsSent(client, topic, payload) ==
    client \in Links => payload = <<>> /\ topic \notin RefusedTopics
                        /\ ~ isReservedKey(topic)

SubscribeRefused(client, topic) ==
    /\ \/ topic \in RefusedTopics
       \/ topic \notin RefusedTopics /\ ~ canSubscribe(client, topic)
    /\ Renew(client)
    /\ sent' = Asked(client)
    /\ UNCHANGED <<subs, interestVars, m_clusterName, routeVars>>

SubscribeAccepted(client, topic, payload) ==
    /\ topic \notin RefusedTopics
    /\ canSubscribe(client, topic)
    /\ Renew(client)
    /\ sent' = Asked(client)
    /\ subs' = WithScope(subs, client, topic, decodeSubscribeScope(payload))
    /\ noteMeshInterestChange(topic)
    /\ UNCHANGED <<m_clusterName, routeVars>>

Unsubscribe(client, topic) ==
    /\ Renew(client)
    /\ sent' = Asked(client)
    /\ subs' = WithScope(subs, client, topic, NoScope)
    /\ noteMeshInterestChange(topic)
    /\ UNCHANGED <<m_clusterName, routeVars>>

(* A swap forgets the links of the old mesh and tells each of them.  A name    *)
(* that is not valid, or the one in use, changes nothing, and neither does any *)
(* name while discovery is off.                                                *)
Swaps(name) == name \in Clusters \ {m_clusterName} /\ m_clusterName # ""

SetCluster(client, name) ==
    LET inbound == Links \cap m_clients IN
    \/ /\ Swaps(name)
       /\ m_clusterName' = name
       /\ removeClient(inbound)
       /\ m_clients' = (m_clients \cup {client}) \ inbound
       /\ expired' = (expired \ {client}) \ inbound
       /\ sent' = Asked(client) \cup {<<l, "UNLINK">> : l \in inbound}
       /\ UNCHANGED routeVars
    \/ /\ ~ Swaps(name)
       /\ Renew(client)
       /\ sent' = Asked(client)
       /\ UNCHANGED <<subs, interestVars, m_clusterName, routeVars>>
--------------------------------------------------------------------------------
(* How many copies of a message on a topic the delivery loops send a client:   *)
(* one by its subscription to the topic, and one by its wildcard unless the    *)
(* former accepted the message.  A refused send is a drop, not a retry.        *)
Accepts(client, topic, isLocal) == scopeAccepts(subs[client][topic], isLocal)

CopiesUnlessHeld(client, topic, isLocal) ==
    LET exact == Accepts(client, topic, isLocal)
        wildcard == /\ topic # WILDCARD_TOPIC
                    /\ Accepts(client, WILDCARD_TOPIC, isLocal)
                    /\ subs[client][topic] = NoScope
    IN  (IF exact THEN 1 ELSE 0) + (IF wildcard THEN 1 ELSE 0)
CopiesOfBoth(client, topic, isLocal) ==
    LET exact == Accepts(client, topic, isLocal)
        wildcard == Accepts(client, WILDCARD_TOPIC, isLocal)
    IN  (IF exact THEN 1 ELSE 0) + (IF wildcard THEN 1 ELSE 0)
Copies(client, topic, isLocal) ==
    LET exact == Accepts(client, topic, isLocal)
        wildcard == /\ topic # WILDCARD_TOPIC
                    /\ Accepts(client, WILDCARD_TOPIC, isLocal)
                    /\ ~ exact
    IN  (IF exact THEN 1 ELSE 0) + (IF wildcard THEN 1 ELSE 0)

(* deliverToSubscribers.  The history got starts again when a message is       *)
(* accepted that the windows need not remember any more; the sender of a       *)
(* message holds a copy of it.                                                 *)
deliverToSubscribers(uuid, topic, sender, isLocal) ==
    LET old(c) == IF age[uuid] < MaxHistorySize THEN got[uuid][c] ELSE 0
        new(c) == IF c = sender THEN 1
                  ELSE IF c \in m_clients' THEN Copies(c, topic, isLocal) ELSE 0
        total(c) == IF old(c) + new(c) > 2 THEN 2 ELSE old(c) + new(c)
    IN  got' = [got EXCEPT ![uuid] = [c \in Clients |-> total(c)]]

(* A message of an application from a client's socket, and one that a dialed   *)
(* link brought in.  A repeat is dropped before the session is renewed.        *)
Publish(client, uuid, topic) ==
    \/ /\ Refuse(uuid)
       /\ sent' = {}
       /\ UNCHANGED <<sessionVars, subs, interestVars, m_clusterName, got>>
    \/ /\ Accept(uuid)
       /\ Renew(client)
       /\ sent' = Asked(client)
       /\ deliverToSubscribers(uuid, topic, client, TRUE)
       /\ UNCHANGED <<subs, interestVars, m_clusterName>>

NoClient == "PEER"

FromPeer(uuid, topic) ==
    /\ \/ Refuse(uuid) /\ UNCHANGED <<sessionVars, got>>
       \/ /\ Accept(uuid)
          /\ UNCHANGED sessionVars
          /\ deliverToSubscribers(uuid, topic, NoClient, FALSE)
    /\ sent' = {}
    /\ UNCHANGED <<subs, interestVars, m_clusterName>>
--------------------------------------------------------------------------------
(* Time passes: a session has been silent for longer than m_clientTimeout.     *)
Expire(client) ==
    /\ client \in m_clients \ expired
    /\ expired' = expired \cup {client}
    /\ sent' = {}
    /\ UNCHANGED <<m_clients, subs, interestVars, m_clusterName, routeVars>>

(* The zombie sweep: it visits the sessions in no particular order and stops   *)
(* after MaxRemovalsPerSweep removals.                                         *)
SweepAllOrNone(zombies) ==
    Cardinality(zombies) <= MaxRemovalsPerSweep /\ zombies = expired
SweepSize(zombies) ==
    \/ Cardinality(zombies) = MaxRemovalsPerSweep
    \/ Cardinality(zombies) < MaxRemovalsPerSweep /\ zombies = expired

Sweep ==
    \E zombies \in SUBSET expired :
        /\ zombies # {}
        /\ SweepSize(zombies)
        /\ removeClient(zombies)
        /\ m_clients' = m_clients \ zombies
        /\ expired' = expired \ zombies
        /\ sent' = {}
        /\ UNCHANGED <<m_clusterName, routeVars>>

(* The statistics go to the subscribers of their own topic, with no look at    *)
(* m_clients.                                                                  *)
StatsReaders == {c \in Clients : Accepts(c, SYS_STATS, TRUE)}

BroadcastStats ==
    /\ sent' = {<<c, SYS_STATS>> : c \in StatsReaders}
    /\ UNCHANGED <<sessionVars, subs, interestVars, m_clusterName, routeVars>>
--------------------------------------------------------------------------------
Speaks(client) ==
    \/ Connect(client)
    \/ Heartbeat(client)
    \/ UnknownControl(client)
    \/ Disconnect(client)
    \/ \E t \in Topics \cup RefusedTopics, p \in Payloads :
          /\ SubscribeIsSent(client, t, p)
          /\ SubscribeRefused(client, t) \/ SubscribeAccepted(client, t, p)
    \/ \E t \in Topics : Unsubscribe(client, t)
    \/ client \notin Links /\ \E name \in Clusters \cup {""} : SetCluster(client, name)
    \/ \E u \in Ids, t \in Topics : Publish(client, u, t)

Next ==
    \/ \E c \in Clients : Speaks(c) \/ Expire(c)
    \/ \E u \in Ids, t \in Topics : FromPeer(u, t)
    \/ Sweep
    \/ BroadcastStats

Spec == Init /\ [][Next]_vars

(* The broker loop comes round to its sweep again and again.                   *)
FairSpec == Spec /\ WF_vars(Sweep)
--------------------------------------------------------------------------------
(* Every variable holds what the code's member can hold.                       *)
TypeOK ==
    /\ m_clients \subseteq Clients
    /\ expired \subseteq m_clients
    /\ subs \in SubscriptionMaps
    /\ m_interest \subseteq Topics
    /\ linkSubs \subseteq Topics
    /\ m_interestSaturated \in BOOLEAN
    /\ m_interestWildcard \in BOOLEAN
    /\ m_clusterName \in Clusters \cup {""}
    /\ got \in [Ids -> [Clients -> 0 .. 2]]

(* A subscription belongs to a session: whatever order a client disconnects,   *)
(* times out, is unlinked and speaks again in, nothing of it stays in the      *)
(* registry without an entry in m_clients, where no sweep would find it.       *)
NoGhostSubscriptions ==
    \A c \in Clients : SubscriptionsOf(subs, c) # {} => c \in m_clients

(* The interest the broker tracks topic by topic is what its registry says: a  *)
(* topic is in m_interest exactly when some client, or inbound link, wants it  *)
(* from the mesh, and the wildcard flag likewise.  A saturated set is frozen.  *)
InterestMatchesSubscriptions ==
    /\ ~ m_interestSaturated =>
          m_interest = {t \in Topics : isPropagatableTopic(t) /\ HasMeshSubscriber(subs, t)}
    /\ m_interestWildcard <=> HasMeshSubscriber(subs, WILDCARD_TOPIC)

(* The updates alone keep a link right: one that has heard every SUBSCRIBE and *)
(* UNSUBSCRIBE holds exactly the interest, plus the wildcard while a client    *)
(* here does; once the set is saturated it holds the wildcard for good.        *)
UpdatesCarryInterest ==
    /\ m_interestSaturated => WILDCARD_TOPIC \in linkSubs
    /\ ~ m_interestSaturated =>
          linkSubs = m_interest \cup (IF m_interestWildcard THEN {WILDCARD_TOPIC} ELSE {})

(* The two limits hold at every step: a client never holds more than           *)
(* MAX_SUBSCRIPTIONS_PER_CLIENT, and the interest set saturates on its first   *)
(* topic past MaxInterestTopics and takes no other.                            *)
LimitsHold ==
    /\ \A c \in Clients :
          Cardinality(SubscriptionsOf(subs, c)) <= MAX_SUBSCRIPTIONS_PER_CLIENT
    /\ Cardinality(m_interest) <= MaxInterestTopics + 1
    /\ m_interestSaturated <=> Cardinality(m_interest) > MaxInterestTopics

(* Per-broker statistics stay off the mesh and go only to sessions the broker  *)
(* knows, although the broadcast looks up neither.                             *)
StatsStayLocal ==
    \A f \in sent : f[2] = SYS_STATS => f[1] \in m_clients \ Links

(* Nothing is subscribed without a session or beyond a limit, and statistics   *)
(* go to sessions of this broker only.                                         *)
SessionsAreSound == NoGhostSubscriptions /\ LimitsHold /\ StatsStayLocal

(* A client never holds two copies of one message, its own publications        *)
(* included, however many links bring it back, until at least MaxHistorySize   *)
(* others have been routed after it.                                           *)
AtMostOnce == got \in [Ids -> [Clients -> 0 .. 1]]

(* A message that is routed is sent to every client with a subscription that   *)
(* accepts it, on the topic or by wildcard: neither the skip of clients served *)
(* already nor the look at m_clients loses one.                                *)
Wants(client, topic, isLocal) ==
    \E t \in {topic, WILDCARD_TOPIC} : scopeAccepts(subs[client][t], isLocal)

EveryoneServed ==
    [][\A u \in Ids, t \in Topics :
         Accept(u) =>
           /\ FromPeer(u, t) => \A c \in Clients : Wants(c, t, FALSE) => got'[u][c] > 0
           /\ \A p \in Clients :
                 Publish(p, u, t) => \A c \in Clients : Wants(c, t, TRUE) => got'[u][c] > 0]_vars

(* When a partition silences every client, the bounded sweeps still get to     *)
(* each session that has timed out.                                            *)
SilenceIsSwept ==
    <>[][\A c \in Clients : ~ Speaks(c)]_vars => <>[](expired = {})

(* The inductive invariant behind the interest properties: what they say, the  *)
(* finiteness of the set whose size saturation counts, and its contents.       *)
InterestInv ==
    /\ InterestMatchesSubscriptions
    /\ UpdatesCarryInterest
    /\ m_interest \subseteq {t \in Topics : isPropagatableTopic(t)}
    /\ linkSubs \subseteq Topics
    /\ m_interestSaturated \in BOOLEAN
    /\ m_interestWildcard \in BOOLEAN
    /\ IsFiniteSet(m_interest)
    /\ Cardinality(m_interest) <= MaxInterestTopics + 1
    /\ m_interestSaturated <=> Cardinality(m_interest) > MaxInterestTopics

(* The inductive invariant behind the session properties.  A link never holds  *)
(* the statistics topic, because no broker propagates it.                      *)
SessionInv ==
    /\ m_clients \subseteq Clients
    /\ expired \subseteq m_clients
    /\ subs \in SubscriptionMaps
    /\ NoGhostSubscriptions
    /\ \A c \in Clients :
          /\ IsFiniteSet(SubscriptionsOf(subs, c))
          /\ Cardinality(SubscriptionsOf(subs, c)) <= MAX_SUBSCRIPTIONS_PER_CLIENT
    /\ \A l \in Links : subs[l][SYS_STATS] = NoScope
    /\ StatsStayLocal

ControlInv == InterestInv /\ SessionInv

(* The broker's windows are a DedupWindow, whatever else it does in between.   *)
WindowsAreDedup == WindowSpec
================================================================================
