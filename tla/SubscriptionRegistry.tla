-------------------------- MODULE SubscriptionRegistry --------------------------
(* The broker's bidirectional client <-> topic mapping: a map of maps keyed by *)
(* client and a map of lists keyed by topic, kept in step by every operation.  *)
(* Models src/server/subscriptionregistry.h.  The broker thread owns it, so    *)
(* every operation is one step.                                                *)
EXTENDS MessageKeys

CONSTANTS Clients, Topics

VARIABLES m_clientTopics,      \* client -> (topic -> scope), both maps partial
          m_topicSubscribers,  \* topic -> list of subscribers, partial
          result               \* what the last call returned

vars == <<m_clientTopics, m_topicSubscribers, result>>

Subscriber == [clientId : Clients, scope : Origin]

(* A map with an entry set, and with an entry erased.                          *)
PutIfAbsent(map, key, value) ==
    [k \in DOMAIN map \cup {key} |-> IF k \in DOMAIN map THEN map[k] ELSE value]
Put(map, key, value) ==
    [k \in DOMAIN map \cup {key} |-> IF k = key THEN value ELSE map[k]]
Erase(map, key) == [k \in DOMAIN map \ {key} |-> map[k]]

EmptyMap == [k \in {} |-> NoScope]

(* Where find_if stops: the first entry of the client.                         *)
IsFirst(list, client, i) ==
    /\ i \in 1 .. Len(list)
    /\ list[i].clientId = client
    /\ \A j \in 1 .. i - 1 : list[j].clientId # client

Found(list, client) == \E i \in 1 .. Len(list) : list[i].clientId = client

FirstOf(list, client) == CHOOSE i \in 1 .. Len(list) : IsFirst(list, client, i)

subscribersOf(topic) ==
    IF topic \in DOMAIN m_topicSubscribers THEN m_topicSubscribers[topic] ELSE <<>>

subscriptionsOf(client) ==
    IF client \in DOMAIN m_clientTopics THEN m_clientTopics[client] ELSE EmptyMap

hasMeshSubscriber(topic) ==
    LET list == subscribersOf(topic)
    IN  \E i \in 1 .. Len(list) : scopeAccepts(list[i].scope, FALSE)

(* The list of a topic with the client's entry rescoped, if it has one.        *)
RescopedNowhere(list, client, scope) == list
Rescoped(list, client, scope) ==
    IF Found(list, client)
    THEN [list EXCEPT ![FirstOf(list, client)] = [clientId |-> client, scope |-> scope]]
    ELSE list

(* The list without the client's entry: the last entry takes its place.        *)
Dropped(list, client) ==
    IF Found(list, client)
    THEN [i \in 1 .. Len(list) - 1 |->
            IF i = FirstOf(list, client) THEN list[Len(list)] ELSE list[i]]
    ELSE list

(* dropSubscriber on every topic of a set.  A list that ends up empty loses    *)
(* its entry in the map.                                                       *)
dropSubscriber(topics, client) ==
    LET left == [t \in DOMAIN m_topicSubscribers |->
                    IF t \in topics THEN Dropped(m_topicSubscribers[t], client)
                                    ELSE m_topicSubscribers[t]]
    IN  [t \in {u \in DOMAIN left : u \notin topics \/ left[u] # <<>>} |-> left[t]]
--------------------------------------------------------------------------------
Init ==
    /\ m_clientTopics = EmptyMap
    /\ m_topicSubscribers = EmptyMap
    /\ result = FALSE

subscribe(client, topic, scope) ==
    LET held == subscriptionsOf(client) IN
    \/ /\ topic \notin DOMAIN held
       /\ m_clientTopics' = Put(m_clientTopics, client, Put(held, topic, scope))
       /\ m_topicSubscribers' =
            Put(m_topicSubscribers, topic,
                Append(subscribersOf(topic), [clientId |-> client, scope |-> scope]))
       /\ result' = TRUE
    \/ /\ topic \in DOMAIN held
       /\ held[topic] = scope
       /\ result' = FALSE
       /\ UNCHANGED <<m_clientTopics, m_topicSubscribers>>
    \/ /\ topic \in DOMAIN held
       /\ held[topic] # scope
       /\ m_clientTopics' = Put(m_clientTopics, client, Put(held, topic, scope))
       /\ m_topicSubscribers' =
            [t \in DOMAIN m_topicSubscribers |->
                IF t = topic THEN Rescoped(m_topicSubscribers[t], client, scope)
                             ELSE m_topicSubscribers[t]]
       /\ result' = TRUE

unsubscribe(client, topic) ==
    LET held == subscriptionsOf(client) IN
    \/ /\ topic \notin DOMAIN held
       /\ result' = FALSE
       /\ UNCHANGED <<m_clientTopics, m_topicSubscribers>>
    \/ /\ topic \in DOMAIN held
       /\ m_clientTopics' = IF DOMAIN held = {topic}
                            THEN Erase(m_clientTopics, client)
                            ELSE Put(m_clientTopics, client, Erase(held, topic))
       /\ m_topicSubscribers' = dropSubscriber({topic}, client)
       /\ result' = TRUE

removeClient(client) ==
    /\ m_topicSubscribers' = dropSubscriber(DOMAIN subscriptionsOf(client), client)
    /\ m_clientTopics' = Erase(m_clientTopics, client)
    /\ UNCHANGED result

Next ==
    \E c \in Clients :
        \/ \E t \in Topics, s \in Origin : subscribe(c, t, s)
        \/ \E t \in Topics : unsubscribe(c, t)
        \/ removeClient(c)

Spec == Init /\ [][Next]_vars
--------------------------------------------------------------------------------
(* The two maps hold only clients, topics and scopes: partial maps of lists of *)
(* Subscriber and of maps to Origin.                                           *)
TypeOK ==
    /\ m_clientTopics = [c \in DOMAIN m_clientTopics |-> m_clientTopics[c]]
    /\ DOMAIN m_clientTopics \subseteq Clients
    /\ \A c \in DOMAIN m_clientTopics :
          /\ DOMAIN m_clientTopics[c] \subseteq Topics
          /\ m_clientTopics[c] \in [DOMAIN m_clientTopics[c] -> Origin]
    /\ m_topicSubscribers = [t \in DOMAIN m_topicSubscribers |-> m_topicSubscribers[t]]
    /\ DOMAIN m_topicSubscribers \subseteq Topics
    /\ \A t \in DOMAIN m_topicSubscribers : m_topicSubscribers[t] \in Seq(Subscriber)
    /\ result \in BOOLEAN

(* The scope the client side of the registry holds for a (client, topic).      *)
Held(client, topic) ==
    IF topic \in DOMAIN subscriptionsOf(client)
    THEN subscriptionsOf(client)[topic] ELSE NoScope

(* The two sides never drift apart, as the class comment promises: a topic's   *)
(* list has an entry (client, scope) exactly when the client's map has that    *)
(* scope for the topic, whatever order clients came, rescoped and left in.     *)
SidesAgree ==
    \A c \in Clients, t \in Topics, s \in Origin :
        Held(c, t) = s <=> \E i \in 1 .. Len(subscribersOf(t)) :
                              subscribersOf(t)[i] = [clientId |-> c, scope |-> s]

(* A client is listed at most once per topic, so a delivery loop over the list *)
(* serves it once and dropping its first entry drops it.                       *)
ListedOnce ==
    \A t \in DOMAIN m_topicSubscribers : \A i, j \in 1 .. Len(m_topicSubscribers[t]) :
        m_topicSubscribers[t][i].clientId = m_topicSubscribers[t][j].clientId => i = j

(* Neither map keeps an entry that stands for nothing: what clients have       *)
(* unsubscribed from, and the clients that left, cost the broker no memory.    *)
NothingLeftBehind ==
    /\ \A c \in DOMAIN m_clientTopics : DOMAIN m_clientTopics[c] # {}
    /\ \A t \in DOMAIN m_topicSubscribers : m_topicSubscribers[t] # <<>>

(* The inductive invariant: the four above together.                           *)
RegistryInv == TypeOK /\ SidesAgree /\ ListedOnce /\ NothingLeftBehind

(* The registry implements Subscriptions: read through the client side, every  *)
(* call has the abstract effect and returns whether it changed anything.       *)
Abstract == INSTANCE Subscriptions WITH
    subs <- [c \in Clients |-> [t \in Topics |-> Held(c, t)]], changed <- result

ImplementsSubscriptions == Abstract!Spec

(* The scan hasMeshSubscriber makes over the list answers the abstract         *)
(* question, which is asked of the client side.                                *)
MeshAnswerIsRight ==
    \A t \in Topics :
        hasMeshSubscriber(t) <=>
            Abstract!HasMeshSubscriber([c \in Clients |-> [u \in Topics |-> Held(c, u)]], t)

(* The two maps of SubscriptionRegistry stay two views of one relation with    *)
(* nothing left behind, and the scan over one of them answers for both.        *)
RegistryIsSound == RegistryInv /\ MeshAnswerIsRight
================================================================================
