----------------------------- MODULE Subscriptions -----------------------------
(* What a registry of subscriptions promises its broker, and nothing of how:   *)
(* it keeps a SubscriptionMap and answers whether a call changed anything.     *)
(* SubscriptionRegistry implements it with two maps; Broker is built on the    *)
(* same SubscriptionMap.                                                       *)
EXTENDS SubscriptionMap

VARIABLES subs,     \* subs[c][t]: the scope c holds on t
          changed   \* what the last call answered

Init == subs = NoSubscriptions /\ changed = FALSE

Subscribe(client, topic, scope) ==
    /\ subs' = WithScope(subs, client, topic, scope)
    /\ changed' = (subs[client][topic] # scope)

Unsubscribe(client, topic) ==
    /\ subs' = WithScope(subs, client, topic, NoScope)
    /\ changed' = (subs[client][topic] # NoScope)

RemoveClient(client) ==
    /\ subs' = Without(subs, {client})
    /\ UNCHANGED changed

Next ==
    \E c \in Clients :
        \/ \E t \in Topics, s \in Origin : Subscribe(c, t, s)
        \/ \E t \in Topics : Unsubscribe(c, t)
        \/ RemoveClient(c)

Spec == Init /\ [][Next]_<<subs, changed>>
================================================================================
