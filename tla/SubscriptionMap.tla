---------------------------- MODULE SubscriptionMap -----------------------------
(* Subscriptions as a value: one scope per (client, topic), the empty scope    *)
(* meaning no subscription.  What the registry is asked (subscribersOf,        *)
(* subscriptionsOf, hasMeshSubscriber) and what its calls do, on that value.   *)
EXTENDS MessageKeys

CONSTANTS Clients,  \* routing ids a client socket may present
          Topics    \* names a SUBSCRIBE may carry

NoSubscriptions == [c \in Clients |-> [t \in Topics |-> NoScope]]

SubscriptionMaps == [Clients -> [Topics -> Origin \cup {NoScope}]]

SubscriptionsOf(s, client) == {t \in Topics : s[client][t] # NoScope}
HasMeshSubscriber(s, topic) == \E c \in Clients : scopeAccepts(s[c][topic], FALSE)

WithScope(s, client, topic, scope) == [s EXCEPT ![client][topic] = scope]
Without(s, clients) ==
    [c \in Clients |-> IF c \in clients THEN [t \in Topics |-> NoScope] ELSE s[c]]
================================================================================
