----------------------------- MODULE RoutingProofs -----------------------------
(* The broker's tables and the mesh.  The registry's invariant and its         *)
(* refinement of Subscriptions, for any clients and topics; the open-addressed *)
(* set, which answers like the set of the ids inserted into it, for any number *)
(* of slots and any hash; and for any number of brokers, any links and any     *)
(* loss and order of the copies: a client is given a message at most once,     *)
(* interest crosses the mesh and messages take every route there is.           *)
EXTENDS SubscriptionRegistry, MessageIdSet, Mesh, SequenceTheorems, FiniteSetTheorems,
        WellFoundedInduction, TLAPS

(* What the lemmas say of one topic's list.                                    *)
Distinct(list) ==
    \A i, j \in 1 .. Len(list) : list[i].clientId = list[j].clientId => i = j
Listed(list, e) == \E i \in 1 .. Len(list) : list[i] = e

(* In a list that names each client once, find_if stops at the client's entry. *)
LEMMA FirstOfFound ==
    ASSUME NEW list \in Seq(Subscriber), NEW client, Distinct(list), Found(list, client)
    PROVE  /\ FirstOf(list, client) \in 1 .. Len(list)
           /\ list[FirstOf(list, client)].clientId = client
<1>1. PICK i \in 1 .. Len(list) : list[i].clientId = client
  BY DEF Found
<1>2. IsFirst(list, client, i)
  BY <1>1 DEF IsFirst, Distinct
<1>3. QED
  BY <1>2 DEF FirstOf, IsFirst

(* Appending a client that is not listed adds that one entry.                  *)
LEMMA AppendLists ==
    ASSUME NEW list \in Seq(Subscriber), NEW e \in Subscriber, Distinct(list),
           ~ Found(list, e.clientId)
    PROVE  /\ Append(list, e) \in Seq(Subscriber)
           /\ Append(list, e) # <<>>
           /\ Distinct(Append(list, e))
           /\ \A x : Listed(Append(list, e), x) <=> Listed(list, x) \/ x = e
<1> DEFINE new == Append(list, e)
<1>1. /\ new \in Seq(Subscriber)
      /\ Len(new) = Len(list) + 1
      /\ \A i \in 1 .. Len(list) : new[i] = list[i]
      /\ new[Len(list) + 1] = e
      /\ Len(list) \in Nat
  OBVIOUS
<1>2. Distinct(new)
  BY <1>1 DEF Distinct, Found
<1>3. \A x : Listed(new, x) <=> Listed(list, x) \/ x = e
  BY <1>1 DEF Listed
<1>4. new # <<>>
  BY <1>1
<1>5. QED
  BY <1>1, <1>2, <1>3, <1>4

(* Rescoping touches the client's own entry only.                              *)
LEMMA RescopedLists ==
    ASSUME NEW list \in Seq(Subscriber), NEW client \in Clients, NEW scope \in Origin,
           Distinct(list), Found(list, client)
    PROVE  /\ Rescoped(list, client, scope) \in Seq(Subscriber)
           /\ Rescoped(list, client, scope) # <<>>
           /\ Distinct(Rescoped(list, client, scope))
           /\ \A x \in Subscriber : Listed(Rescoped(list, client, scope), x) <=>
                 IF x.clientId = client THEN x.scope = scope ELSE Listed(list, x)
<1> DEFINE e == [clientId |-> client, scope |-> scope]
           new == Rescoped(list, client, scope)
           f == FirstOf(list, client)
<1>1. f \in 1 .. Len(list) /\ list[f].clientId = client
  BY FirstOfFound
<1>2. new = [list EXCEPT ![f] = e] /\ e \in Subscriber
  BY DEF Rescoped, Subscriber
<1>3. /\ new \in Seq(Subscriber)
      /\ Len(new) = Len(list)
      /\ \A i \in 1 .. Len(list) : new[i] = IF i = f THEN e ELSE list[i]
  BY <1>1, <1>2
<1> HIDE DEF new, f
<1>4. Distinct(new)
  BY <1>1, <1>3 DEF Distinct
<1>5. new # <<>>
  BY <1>1, <1>3
<1>6. ASSUME NEW x \in Subscriber
      PROVE  Listed(new, x) <=> IF x.clientId = client THEN x.scope = scope
                                                       ELSE Listed(list, x)
  <2>1. CASE x.clientId = client
    <3>1. Listed(new, x) => x = e
      BY <1>1, <1>3, <2>1 DEF Listed, Distinct
    <3>2. x = e <=> x.scope = scope
      BY <2>1 DEF Subscriber
    <3>3. x = e => Listed(new, x)
      BY <1>1, <1>3 DEF Listed
    <3>4. QED
      BY <2>1, <3>1, <3>2, <3>3
  <2>2. CASE x.clientId # client
    BY <1>1, <1>3, <2>2 DEF Listed
  <2>3. QED
    BY <2>1, <2>2
<1>7. QED
  BY <1>3, <1>4, <1>5, <1>6 DEF new

(* Filling the gap with the last entry and popping loses the client's entry    *)
(* and no other, wherever in the list it was.                                  *)
LEMMA DroppedLists ==
    ASSUME NEW list \in Seq(Subscriber), NEW client, Distinct(list)
    PROVE  /\ Dropped(list, client) \in Seq(Subscriber)
           /\ Distinct(Dropped(list, client))
           /\ \A x : Listed(Dropped(list, client), x) <=>
                         Listed(list, x) /\ x.clientId # client
<1> DEFINE new == Dropped(list, client)
           n == Len(list)
           f == FirstOf(list, client)
<1>1. CASE ~ Found(list, client)
  BY <1>1 DEF Dropped, Found, Listed
<1>2. CASE Found(list, client)
  <2>1. f \in 1 .. n /\ list[f].clientId = client /\ n \in Nat
    BY <1>2, FirstOfFound
  <2>2. new = [i \in 1 .. n - 1 |-> IF i = f THEN list[n] ELSE list[i]]
    BY <1>2 DEF Dropped
  <2> HIDE DEF new, f
  <2>3. /\ new \in Seq(Subscriber)
        /\ Len(new) = n - 1
        /\ \A i \in 1 .. n - 1 : new[i] = IF i = f THEN list[n] ELSE list[i]
    BY <2>1, <2>2
  <2>4. Distinct(new)
    BY <2>1, <2>3 DEF Distinct
  <2>5. ASSUME NEW x, Listed(new, x)
        PROVE  Listed(list, x) /\ x.clientId # client
    BY <2>1, <2>3, <2>5 DEF Listed, Distinct
  <2>6. ASSUME NEW x, Listed(list, x), x.clientId # client
        PROVE  Listed(new, x)
    <3>1. PICK i \in 1 .. n : list[i] = x
      BY <2>6 DEF Listed
    <3>2. i # f
      BY <2>1, <2>6, <3>1
    <3>3. CASE i = n
      <4>1. f \in 1 .. n - 1 /\ new[f] = x
        BY <2>1, <2>3, <3>1, <3>2, <3>3
      <4>2. QED
        BY <2>3, <4>1 DEF Listed
    <3>4. CASE i # n
      <4>1. i \in 1 .. n - 1 /\ new[i] = x
        BY <2>1, <2>3, <3>1, <3>2, <3>4
      <4>2. QED
        BY <2>3, <4>1 DEF Listed
    <3>5. QED
      BY <3>3, <3>4
  <2>7. QED
    BY <2>3, <2>4, <2>5, <2>6 DEF new
<1>3. QED
  BY <1>1, <1>2
--------------------------------------------------------------------------------
(* What the invariant says of the lists and the maps the operations read.      *)
LEMMA ListFacts ==
    ASSUME RegistryInv, NEW t \in Topics
    PROVE  /\ subscribersOf(t) \in Seq(Subscriber)
           /\ Distinct(subscribersOf(t))
           /\ \A c \in Clients, s \in Origin :
                 Held(c, t) = s <=> Listed(subscribersOf(t), [clientId |-> c, scope |-> s])
<1>1. subscribersOf(t) \in Seq(Subscriber)
  BY DEF RegistryInv, TypeOK, subscribersOf
<1>2. Distinct(subscribersOf(t))
  BY DEF RegistryInv, ListedOnce, subscribersOf, Distinct
<1>3. QED
  BY <1>1, <1>2 DEF RegistryInv, SidesAgree, Listed

(* What the two maps say of one client and one topic is the same.                 *)
LEMMA HeldFacts ==
    ASSUME RegistryInv, NEW c \in Clients, NEW t \in Topics
    PROVE  /\ DOMAIN subscriptionsOf(c) \subseteq Topics
           /\ subscriptionsOf(c) \in [DOMAIN subscriptionsOf(c) -> Origin]
           /\ Held(c, t) \in Origin \cup {NoScope}
           /\ Held(c, t) # NoScope <=> t \in DOMAIN subscriptionsOf(c)
           /\ t \in DOMAIN subscriptionsOf(c) <=> Found(subscribersOf(t), c)
<1>1. /\ DOMAIN subscriptionsOf(c) \subseteq Topics
      /\ subscriptionsOf(c) \in [DOMAIN subscriptionsOf(c) -> Origin]
  BY DEF RegistryInv, TypeOK, subscriptionsOf, EmptyMap
<1>2. NoScope \notin Origin
  BY DEF NoScope, Origin, OriginAny, OriginLocal, OriginMesh
<1>3. /\ Held(c, t) \in Origin \cup {NoScope}
      /\ Held(c, t) # NoScope <=> t \in DOMAIN subscriptionsOf(c)
  BY <1>1, <1>2 DEF Held
<1>4. Held(c, t) \in Origin => Found(subscribersOf(t), c)
  <2>1. SUFFICES ASSUME Held(c, t) \in Origin PROVE Found(subscribersOf(t), c)
    OBVIOUS
  <2>2. Listed(subscribersOf(t), [clientId |-> c, scope |-> Held(c, t)])
    BY <2>1, ListFacts
  <2>3. QED
    BY <2>2 DEF Listed, Found
<1>5. Found(subscribersOf(t), c) => Held(c, t) \in Origin
  <2>1. SUFFICES ASSUME NEW i \in 1 .. Len(subscribersOf(t)),
                        subscribersOf(t)[i].clientId = c
                 PROVE  Held(c, t) \in Origin
    BY DEF Found
  <2> DEFINE e == subscribersOf(t)[i]
  <2>2. e \in Subscriber
    BY ListFacts
  <2>3. e.scope \in Origin /\ e = [clientId |-> c, scope |-> e.scope]
    BY <2>1, <2>2 DEF Subscriber
  <2>4. Listed(subscribersOf(t), [clientId |-> c, scope |-> e.scope])
    BY <2>3 DEF Listed
  <2>5. QED
    BY <2>3, <2>4, ListFacts
<1>6. QED
  BY <1>1, <1>2, <1>3, <1>4, <1>5

(* Dropping a client from one list leaves the others' scopes as they were.     *)
LEMMA DropOne ==
    ASSUME RegistryInv, NEW c \in Clients, NEW t \in Topics
    PROVE  /\ Distinct(Dropped(subscribersOf(t), c))
           /\ \A d \in Clients, s \in Origin :
                 (IF d = c THEN NoScope ELSE Held(d, t)) = s <=>
                     Listed(Dropped(subscribersOf(t), c), [clientId |-> d, scope |-> s])
<1>1. /\ Distinct(Dropped(subscribersOf(t), c))
      /\ \A x : Listed(Dropped(subscribersOf(t), c), x) <=>
                   Listed(subscribersOf(t), x) /\ x.clientId # c
  BY ListFacts, DroppedLists
<1>2. NoScope \notin Origin
  BY DEF NoScope, Origin, OriginAny, OriginLocal, OriginMesh
<1>3. ASSUME NEW d \in Clients, NEW s \in Origin
      PROVE  (IF d = c THEN NoScope ELSE Held(d, t)) = s <=>
                Listed(Dropped(subscribersOf(t), c), [clientId |-> d, scope |-> s])
  <2>1. Listed(Dropped(subscribersOf(t), c), [clientId |-> d, scope |-> s]) <=>
           Listed(subscribersOf(t), [clientId |-> d, scope |-> s]) /\ d # c
    BY <1>1
  <2>2. Held(d, t) = s <=> Listed(subscribersOf(t), [clientId |-> d, scope |-> s])
    BY ListFacts
  <2>3. QED
    BY <1>2, <2>1, <2>2
<1>4. QED
  BY <1>1, <1>3

(* A step that leaves the two maps readable in one consistent way restores the *)
(* relation between the two sides.                                             *)
LEMMA SidesFromViews ==
    ASSUME \A t \in Topics :
             /\ Distinct(subscribersOf(t)')
             /\ \A c \in Clients, s \in Origin :
                   Held(c, t)' = s <=> Listed(subscribersOf(t)', [clientId |-> c, scope |-> s]),
           TypeOK'
    PROVE  SidesAgree' /\ ListedOnce'
<1>1. SidesAgree'
  BY DEF SidesAgree, Listed
<1>2. ListedOnce'
  BY DEF ListedOnce, Distinct, subscribersOf, TypeOK
<1>3. QED
  BY <1>1, <1>2

(* The invariant holds of the empty registry.                                  *)
LEMMA InitInv == Init => RegistryInv
<1>1. SUFFICES ASSUME Init PROVE RegistryInv
  OBVIOUS
<1>2. TypeOK
  BY Zenon, <1>1 DEF Init, EmptyMap, TypeOK
<1>3. NoScope \notin Origin
  BY DEF NoScope, Origin, OriginAny, OriginLocal, OriginMesh
<1>4. \A t \in Topics : subscribersOf(t) = <<>> /\ \A c \in Clients : Held(c, t) = NoScope
  BY <1>1 DEF Init, EmptyMap, subscribersOf, subscriptionsOf, Held
<1>5. SidesAgree
  BY <1>3, <1>4 DEF SidesAgree
<1>6. ListedOnce /\ NothingLeftBehind
  BY <1>1 DEF Init, EmptyMap, ListedOnce, NothingLeftBehind
<1>7. QED
  BY <1>2, <1>5, <1>6 DEF RegistryInv

(* What dropSubscriber leaves of the topic map: each list without the client,  *)
(* for the topics it is applied to, and no empty list.                         *)
LEMMA DropFacts ==
    ASSUME RegistryInv, NEW c \in Clients, NEW T \in SUBSET Topics,
           m_topicSubscribers' = dropSubscriber(T, c)
    PROVE  /\ m_topicSubscribers' =
                  [t \in DOMAIN m_topicSubscribers' |-> m_topicSubscribers'[t]]
           /\ DOMAIN m_topicSubscribers' \subseteq Topics
           /\ \A t \in DOMAIN m_topicSubscribers' :
                 m_topicSubscribers'[t] \in Seq(Subscriber) /\ m_topicSubscribers'[t] # <<>>
           /\ \A t \in Topics : subscribersOf(t)' =
                 IF t \in T THEN Dropped(subscribersOf(t), c) ELSE subscribersOf(t)
<1> DEFINE left == [t \in DOMAIN m_topicSubscribers |->
                      IF t \in T THEN Dropped(m_topicSubscribers[t], c)
                                 ELSE m_topicSubscribers[t]]
           kept == {u \in DOMAIN left : u \notin T \/ left[u] # <<>>}
<1>1. m_topicSubscribers' = [t \in kept |-> left[t]]
  BY DEF dropSubscriber
<1>2. DOMAIN m_topicSubscribers \subseteq Topics
  BY DEF RegistryInv, TypeOK
<1>3. \A t \in DOMAIN m_topicSubscribers : left[t] \in Seq(Subscriber)
  <2>1. \A t \in DOMAIN m_topicSubscribers : subscribersOf(t) = m_topicSubscribers[t]
    BY DEF subscribersOf
  <2>2. QED
    BY <1>2, <2>1, ListFacts, DroppedLists
<1>4. \A t \in kept : left[t] # <<>>
  BY DEF RegistryInv, NothingLeftBehind
<1>5. ASSUME NEW t \in Topics
      PROVE  subscribersOf(t)' = IF t \in T THEN Dropped(subscribersOf(t), c)
                                             ELSE subscribersOf(t)
  <2>1. CASE t \in kept
    BY <1>1, <2>1 DEF subscribersOf
  <2>2. CASE t \notin kept /\ t \in DOMAIN m_topicSubscribers
    BY <1>1, <2>2 DEF subscribersOf
  <2>3. CASE t \notin DOMAIN m_topicSubscribers
    <3>1. subscribersOf(t)' = <<>> /\ subscribersOf(t) = <<>>
      BY <1>1, <2>3 DEF subscribersOf
    <3>2. Dropped(<<>>, c) = <<>>
      BY DEF Dropped, Found
    <3>3. QED
      BY <3>1, <3>2
  <2>4. QED
    BY <2>1, <2>2, <2>3
<1>6. QED
  BY <1>1, <1>2, <1>3, <1>4, <1>5
--------------------------------------------------------------------------------
(* A call that leaves both maps alone keeps the invariant.                     *)
LEMMA SameMaps ==
    ASSUME RegistryInv, UNCHANGED <<m_clientTopics, m_topicSubscribers>>, result' \in BOOLEAN
    PROVE  RegistryInv'
<1>1. TypeOK'
  BY DEF RegistryInv, TypeOK
<1>2. \A c \in Clients, t \in Topics :
         subscribersOf(t)' = subscribersOf(t) /\ Held(c, t)' = Held(c, t)
  BY DEF subscribersOf, subscriptionsOf, Held
<1>3. SidesAgree'
  BY <1>2 DEF RegistryInv, SidesAgree
<1>4. ListedOnce' /\ NothingLeftBehind'
  BY DEF RegistryInv, ListedOnce, NothingLeftBehind
<1>5. QED
  BY <1>1, <1>3, <1>4 DEF RegistryInv

(* A subscribe keeps the invariant, changes the one scope it names and returns *)
(* whether that was a change.                                                  *)
LEMMA SubscribeStep ==
    ASSUME RegistryInv, NEW c \in Clients, NEW t \in Topics, NEW s \in Origin,
           subscribe(c, t, s)
    PROVE  /\ RegistryInv'
           /\ \A d \in Clients, u \in Topics :
                 Held(d, u)' = IF d = c /\ u = t THEN s ELSE Held(d, u)
           /\ result' = (Held(c, t) # s)
<1> DEFINE held == subscriptionsOf(c)
           entry == [clientId |-> c, scope |-> s]
<1>1. entry \in Subscriber
  BY DEF Subscriber
<1>2. CASE t \notin DOMAIN held
  <2>1. /\ m_clientTopics' = Put(m_clientTopics, c, Put(held, t, s))
        /\ m_topicSubscribers' =
              Put(m_topicSubscribers, t, Append(subscribersOf(t), entry))
        /\ result' = TRUE
    BY <1>2 DEF subscribe
  <2>2. ~ Found(subscribersOf(t), c)
    BY <1>2, HeldFacts
  <2>3. /\ Append(subscribersOf(t), entry) \in Seq(Subscriber)
        /\ Append(subscribersOf(t), entry) # <<>>
        /\ Distinct(Append(subscribersOf(t), entry))
        /\ \A x : Listed(Append(subscribersOf(t), entry), x) <=>
                     Listed(subscribersOf(t), x) \/ x = entry
    BY <1>1, <2>2, ListFacts, AppendLists
  <2>4. \A u \in Topics : subscribersOf(u)' =
          IF u = t THEN Append(subscribersOf(t), entry) ELSE subscribersOf(u)
    BY <2>1 DEF subscribersOf, Put
  <2>5. \A d \in Clients : subscriptionsOf(d)' =
          IF d = c THEN Put(held, t, s) ELSE subscriptionsOf(d)
    BY <2>1 DEF subscriptionsOf, Put
  <2>6. \A d \in Clients, u \in Topics :
          Held(d, u)' = IF d = c /\ u = t THEN s ELSE Held(d, u)
    BY <2>5 DEF Held, Put
  <2>7. Put(held, t, s) \in [DOMAIN held \cup {t} -> Origin] /\ DOMAIN held \subseteq Topics
    BY HeldFacts DEF Put
  <2>8. TypeOK'
    BY <2>1, <2>3, <2>7 DEF RegistryInv, TypeOK, Put
  <2>9. NothingLeftBehind'
    BY Zenon, <2>1, <2>3 DEF RegistryInv, NothingLeftBehind, Put
  <2>10. ASSUME NEW u \in Topics
         PROVE  /\ Distinct(subscribersOf(u)')
                /\ \A d \in Clients, r \in Origin : Held(d, u)' = r <=>
                      Listed(subscribersOf(u)', [clientId |-> d, scope |-> r])
    <3>1. CASE u # t
      BY <2>4, <2>6, <3>1, ListFacts
    <3>2. CASE u = t
      <4>1. ASSUME NEW d \in Clients, NEW r \in Origin
            PROVE  Held(d, t)' = r <=>
                      Listed(subscribersOf(t)', [clientId |-> d, scope |-> r])
        <5>1. [clientId |-> d, scope |-> r] = entry <=> d = c /\ r = s
          OBVIOUS
        <5>2. d = c => ~ Listed(subscribersOf(t), [clientId |-> d, scope |-> r])
          BY <2>2 DEF Listed, Found
        <5>3. Listed(subscribersOf(t)', [clientId |-> d, scope |-> r]) <=>
                \/ Listed(subscribersOf(t), [clientId |-> d, scope |-> r])
                \/ [clientId |-> d, scope |-> r] = entry
          BY Zenon, <2>3, <2>4
        <5>4. Held(d, t) = r <=> Listed(subscribersOf(t), [clientId |-> d, scope |-> r])
          BY ListFacts
        <5>5. QED
          BY <2>6, <5>1, <5>2, <5>3, <5>4
      <4>2. QED
        BY Zenon, <2>3, <2>4, <3>2, <4>1
    <3>3. QED
      BY <3>1, <3>2
  <2>11. SidesAgree' /\ ListedOnce'
    BY <2>8, <2>10, SidesFromViews
  <2>12. result' = (Held(c, t) # s)
    BY Zenon, <1>2, <2>1, HeldFacts DEF NoScope, Origin, OriginAny, OriginLocal, OriginMesh
  <2>13. QED
    BY <2>6, <2>8, <2>9, <2>11, <2>12 DEF RegistryInv
<1>3. CASE t \in DOMAIN held /\ held[t] = s
  <2>1. UNCHANGED <<m_clientTopics, m_topicSubscribers>> /\ result' = FALSE
    BY <1>3 DEF subscribe
  <2>2. RegistryInv'
    BY Zenon, <2>1, SameMaps
  <2>3. Held(c, t) = s
    BY <1>3 DEF Held
  <2>4. \A d \in Clients, u \in Topics : Held(d, u)' = Held(d, u)
    BY <2>1 DEF Held, subscriptionsOf
  <2>5. QED
    BY Zenon, <2>1, <2>2, <2>3, <2>4
<1>4. CASE t \in DOMAIN held /\ held[t] # s
  <2>1. /\ m_clientTopics' = Put(m_clientTopics, c, Put(held, t, s))
        /\ m_topicSubscribers' =
              [u \in DOMAIN m_topicSubscribers |->
                 IF u = t THEN Rescoped(m_topicSubscribers[u], c, s)
                          ELSE m_topicSubscribers[u]]
        /\ result' = TRUE
    BY <1>4 DEF subscribe
  <2>2. Found(subscribersOf(t), c)
    BY <1>4, HeldFacts
  <2>3. t \in DOMAIN m_topicSubscribers /\ subscribersOf(t) = m_topicSubscribers[t]
    BY <2>2 DEF subscribersOf, Found
  <2> DEFINE new == Rescoped(subscribersOf(t), c, s)
  <2>4. /\ new \in Seq(Subscriber)
        /\ new # <<>>
        /\ Distinct(new)
        /\ \A x \in Subscriber : Listed(new, x) <=>
              IF x.clientId = c THEN x.scope = s ELSE Listed(subscribersOf(t), x)
    BY <2>2, ListFacts, RescopedLists
  <2>5. \A u \in Topics : subscribersOf(u)' = IF u = t THEN new ELSE subscribersOf(u)
    BY <2>1, <2>3 DEF subscribersOf
  <2> HIDE DEF new
  <2>6. \A d \in Clients : subscriptionsOf(d)' =
          IF d = c THEN Put(held, t, s) ELSE subscriptionsOf(d)
    BY <2>1 DEF subscriptionsOf, Put
  <2>7. \A d \in Clients, u \in Topics :
          Held(d, u)' = IF d = c /\ u = t THEN s ELSE Held(d, u)
    BY <2>6 DEF Held, Put
  <2>8. Put(held, t, s) \in [DOMAIN held \cup {t} -> Origin] /\ DOMAIN held \subseteq Topics
    BY HeldFacts DEF Put
  <2>9. m_topicSubscribers' = [u \in DOMAIN m_topicSubscribers |->
                                 IF u = t THEN new ELSE m_topicSubscribers[u]]
    BY <2>1, <2>3 DEF new
  <2>10. TypeOK'
    BY <2>1, <2>4, <2>8, <2>9 DEF RegistryInv, TypeOK, Put
  <2>11. NothingLeftBehind'
    BY Zenon, <2>1, <2>4, <2>9 DEF RegistryInv, NothingLeftBehind, Put
  <2>12. ASSUME NEW u \in Topics
         PROVE  /\ Distinct(subscribersOf(u)')
                /\ \A d \in Clients, r \in Origin : Held(d, u)' = r <=>
                      Listed(subscribersOf(u)', [clientId |-> d, scope |-> r])
    <3>1. CASE u # t
      BY <2>5, <2>7, <3>1, ListFacts
    <3>2. CASE u = t
      <4>1. ASSUME NEW d \in Clients, NEW r \in Origin
            PROVE  Held(d, t)' = r <=>
                      Listed(subscribersOf(t)', [clientId |-> d, scope |-> r])
        <5>1. [clientId |-> d, scope |-> r] \in Subscriber
          BY DEF Subscriber
        <5>2. QED
          BY <2>4, <2>5, <2>7, <5>1, ListFacts
      <4>2. QED
        BY <2>4, <2>5, <3>2, <4>1
    <3>3. QED
      BY <3>1, <3>2
  <2>13. SidesAgree' /\ ListedOnce'
    BY <2>10, <2>12, SidesFromViews
  <2>14. result' = (Held(c, t) # s)
    BY Zenon, <1>4, <2>1 DEF Held
  <2>15. QED
    BY <2>7, <2>10, <2>11, <2>13, <2>14 DEF RegistryInv
<1>5. QED
  BY <1>2, <1>3, <1>4

(* An unsubscribe keeps the invariant, clears the one scope it names and       *)
(* returns whether there was one.                                              *)
LEMMA UnsubscribeStep ==
    ASSUME RegistryInv, NEW c \in Clients, NEW t \in Topics, unsubscribe(c, t)
    PROVE  /\ RegistryInv'
           /\ \A d \in Clients, u \in Topics :
                 Held(d, u)' = IF d = c /\ u = t THEN NoScope ELSE Held(d, u)
           /\ result' = (Held(c, t) # NoScope)
<1> DEFINE held == subscriptionsOf(c)
<1>1. CASE t \notin DOMAIN held
  <2>1. UNCHANGED <<m_clientTopics, m_topicSubscribers>> /\ result' = FALSE
    BY <1>1 DEF unsubscribe
  <2>2. RegistryInv'
    BY Zenon, <2>1, SameMaps
  <2>3. Held(c, t) = NoScope
    BY <1>1 DEF Held
  <2>4. \A d \in Clients, u \in Topics : Held(d, u)' = Held(d, u)
    BY <2>1 DEF Held, subscriptionsOf
  <2>5. QED
    BY Zenon, <2>1, <2>2, <2>3, <2>4
<1>2. CASE t \in DOMAIN held
  <2>1. /\ m_clientTopics' = IF DOMAIN held = {t} THEN Erase(m_clientTopics, c)
                             ELSE Put(m_clientTopics, c, Erase(held, t))
        /\ m_topicSubscribers' = dropSubscriber({t}, c)
        /\ result' = TRUE
    BY <1>2 DEF unsubscribe
  <2>2. \A d \in Clients, u \in Topics :
          u \in DOMAIN subscriptionsOf(d)' <=>
            u \in DOMAIN subscriptionsOf(d) /\ ~ (d = c /\ u = t)
    BY <2>1 DEF subscriptionsOf, Put, Erase, EmptyMap
  <2>3. \A d \in Clients, u \in Topics :
          Held(d, u)' = IF d = c /\ u = t THEN NoScope ELSE Held(d, u)
    BY <2>1, <2>2 DEF Held, subscriptionsOf, Put, Erase
  <2>4. Erase(held, t) \in [DOMAIN held \ {t} -> Origin] /\ DOMAIN held \subseteq Topics
    BY HeldFacts DEF Erase
  <2>5. /\ m_clientTopics' = [d \in DOMAIN m_clientTopics' |-> m_clientTopics'[d]]
        /\ DOMAIN m_clientTopics' \subseteq Clients
        /\ \A d \in DOMAIN m_clientTopics' :
              /\ DOMAIN m_clientTopics'[d] \subseteq Topics
              /\ DOMAIN m_clientTopics'[d] # {}
              /\ m_clientTopics'[d] \in [DOMAIN m_clientTopics'[d] -> Origin]
    <3>1. CASE DOMAIN held = {t}
      BY <2>1, <3>1 DEF RegistryInv, TypeOK, NothingLeftBehind, Erase
    <3>2. CASE DOMAIN held # {t}
      <4>1. DOMAIN held \ {t} # {}
        BY <1>2, <3>2
      <4>2. QED
        BY <2>1, <2>4, <3>2, <4>1 DEF RegistryInv, TypeOK, NothingLeftBehind, Put
    <3>3. QED
      BY <3>1, <3>2
  <2>. {t} \in SUBSET Topics
    OBVIOUS
  <2>0. /\ m_topicSubscribers' =
             [u \in DOMAIN m_topicSubscribers' |-> m_topicSubscribers'[u]]
        /\ DOMAIN m_topicSubscribers' \subseteq Topics
        /\ \A u \in DOMAIN m_topicSubscribers' :
              m_topicSubscribers'[u] \in Seq(Subscriber) /\ m_topicSubscribers'[u] # <<>>
    BY Zenon, <2>1, DropFacts
  <2>6. TypeOK'
    BY Zenon, <2>0, <2>1, <2>5 DEF TypeOK
  <2>7. NothingLeftBehind'
    BY <2>0, <2>5 DEF NothingLeftBehind
  <2>8. ASSUME NEW u \in Topics
        PROVE  /\ Distinct(subscribersOf(u)')
               /\ \A d \in Clients, r \in Origin : Held(d, u)' = r <=>
                     Listed(subscribersOf(u)', [clientId |-> d, scope |-> r])
    <3>1. subscribersOf(u)' = IF u \in {t} THEN Dropped(subscribersOf(u), c)
                                           ELSE subscribersOf(u)
      BY Zenon, <2>1, DropFacts
    <3>2. CASE u # t
      BY <2>3, <3>1, <3>2, ListFacts
    <3>3. CASE u = t
      BY <2>3, <3>1, <3>3, DropOne
    <3>4. QED
      BY <3>2, <3>3
  <2>9. SidesAgree' /\ ListedOnce'
    BY <2>6, <2>8, SidesFromViews
  <2>10. result' = (Held(c, t) # NoScope)
    BY Zenon, <1>2, <2>1, HeldFacts
  <2>11. QED
    BY <2>3, <2>6, <2>7, <2>9, <2>10 DEF RegistryInv
<1>3. QED
  BY <1>1, <1>2

(* A removal keeps the invariant and clears every scope of the client.         *)
LEMMA RemoveClientStep ==
    ASSUME RegistryInv, NEW c \in Clients, removeClient(c)
    PROVE  /\ RegistryInv'
           /\ \A d \in Clients, u \in Topics :
                 Held(d, u)' = IF d = c THEN NoScope ELSE Held(d, u)
           /\ result' = result
<1> DEFINE T == DOMAIN subscriptionsOf(c)
<1>1. /\ m_topicSubscribers' = dropSubscriber(T, c)
      /\ m_clientTopics' = Erase(m_clientTopics, c)
      /\ result' = result
  BY DEF removeClient
<1>2. T \in SUBSET Topics
  BY DEF RegistryInv, TypeOK, subscriptionsOf, EmptyMap
<1>3. \A d \in Clients, u \in Topics :
        Held(d, u)' = IF d = c THEN NoScope ELSE Held(d, u)
  BY <1>1 DEF Held, subscriptionsOf, Erase, EmptyMap
<1>4. TypeOK'
  BY <1>1, <1>2, DropFacts DEF RegistryInv, TypeOK, Erase
<1>5. NothingLeftBehind'
  BY Zenon, <1>1, <1>2, DropFacts DEF RegistryInv, NothingLeftBehind, Erase
<1>6. ASSUME NEW u \in Topics
      PROVE  /\ Distinct(subscribersOf(u)')
             /\ \A d \in Clients, r \in Origin : Held(d, u)' = r <=>
                   Listed(subscribersOf(u)', [clientId |-> d, scope |-> r])
  <2>1. subscribersOf(u)' = IF u \in T THEN Dropped(subscribersOf(u), c)
                                       ELSE subscribersOf(u)
    BY Zenon, <1>1, <1>2, DropFacts
  <2>2. CASE u \in T
    BY <1>3, <2>1, <2>2, DropOne
  <2>3. CASE u \notin T
    <3>1. Held(c, u) = NoScope
      BY <2>3 DEF Held
    <3>2. QED
      BY <1>3, <2>1, <2>3, <3>1, ListFacts
  <2>4. QED
    BY <2>2, <2>3
<1>7. SidesAgree' /\ ListedOnce'
  BY <1>4, <1>6, SidesFromViews
<1>8. QED
  BY <1>1, <1>3, <1>4, <1>5, <1>7 DEF RegistryInv
--------------------------------------------------------------------------------
(* Whatever sequence of subscribe, unsubscribe and removeClient calls the      *)
(* broker makes, the client map and the topic lists hold the same              *)
(* subscriptions, each client once per topic, and no empty entry.              *)
THEOREM RegistryCorrect == Spec => []RegistryInv
<1>1. RegistryInv /\ [Next]_vars => RegistryInv'
  <2>1. SUFFICES ASSUME RegistryInv, [Next]_vars PROVE RegistryInv'
    OBVIOUS
  <2>2. CASE UNCHANGED vars
    BY <2>1, <2>2, SameMaps DEF vars, RegistryInv, TypeOK
  <2>3. ASSUME NEW c \in Clients, NEW t \in Topics, NEW s \in Origin, subscribe(c, t, s)
        PROVE  RegistryInv'
    BY <2>1, <2>3, SubscribeStep
  <2>4. ASSUME NEW c \in Clients, NEW t \in Topics, unsubscribe(c, t) PROVE RegistryInv'
    BY <2>1, <2>4, UnsubscribeStep
  <2>5. ASSUME NEW c \in Clients, removeClient(c) PROVE RegistryInv'
    BY <2>1, <2>5, RemoveClientStep
  <2>6. QED
    BY <2>1, <2>2, <2>3, <2>4, <2>5 DEF Next
<1>2. QED
  BY <1>1, InitInv, PTL DEF Spec

(* The registry implements Subscriptions: each call on the two maps is the     *)
(* abstract call, with the same answer.                                        *)
THEOREM RegistryImplementsSubscriptions == Spec => ImplementsSubscriptions
<1> DEFINE H == [c \in Clients |-> [t \in Topics |-> Held(c, t)]]
<1>1. Init => Abstract!Init
  BY DEF Init, EmptyMap, Held, subscriptionsOf, Abstract!Init,
         Abstract!NoSubscriptions, NoScope, Abstract!NoScope
<1>2. RegistryInv /\ [Next]_vars => [Abstract!Next]_<<H, result>>
  <2>1. SUFFICES ASSUME RegistryInv, [Next]_vars PROVE [Abstract!Next]_<<H, result>>
    OBVIOUS
  <2>2. CASE UNCHANGED vars
    BY <2>2 DEF vars, Held, subscriptionsOf
  <2>3. ASSUME NEW c \in Clients, NEW t \in Topics, NEW s \in Origin, subscribe(c, t, s)
        PROVE  Abstract!Next
    <3>1. /\ \A d \in Clients, u \in Topics :
                Held(d, u)' = IF d = c /\ u = t THEN s ELSE Held(d, u)
          /\ result' = (Held(c, t) # s)
      BY <2>1, <2>3, SubscribeStep
    <3>2. H' = [H EXCEPT ![c][t] = s]
      BY Zenon, <3>1
    <3>3. Abstract!Subscribe(c, t, s)
      BY <3>1, <3>2 DEF Abstract!Subscribe, Abstract!WithScope
    <3>4. s \in Abstract!Origin
      BY DEF Origin, OriginAny, OriginLocal, OriginMesh, Abstract!Origin,
             Abstract!OriginAny, Abstract!OriginLocal, Abstract!OriginMesh
    <3>5. QED
      BY <3>3, <3>4 DEF Abstract!Next
  <2>4. ASSUME NEW c \in Clients, NEW t \in Topics, unsubscribe(c, t)
        PROVE  Abstract!Next
    <3>1. /\ \A d \in Clients, u \in Topics :
                Held(d, u)' = IF d = c /\ u = t THEN NoScope ELSE Held(d, u)
          /\ result' = (Held(c, t) # NoScope)
      BY <2>1, <2>4, UnsubscribeStep
    <3>2. H' = [H EXCEPT ![c][t] = NoScope]
      BY Zenon, <3>1
    <3>3. Abstract!Unsubscribe(c, t)
      BY <3>1, <3>2 DEF Abstract!Unsubscribe, Abstract!WithScope, NoScope, Abstract!NoScope
    <3>4. QED
      BY <3>3 DEF Abstract!Next
  <2>5. ASSUME NEW c \in Clients, removeClient(c) PROVE Abstract!Next
    <3>1. /\ \A d \in Clients, u \in Topics :
                Held(d, u)' = IF d = c THEN NoScope ELSE Held(d, u)
          /\ result' = result
      BY <2>1, <2>5, RemoveClientStep
    <3>2. H' = [d \in Clients |-> IF d \in {c} THEN [t \in Topics |-> NoScope] ELSE H[d]]
      BY <3>1
    <3>3. Abstract!RemoveClient(c)
      BY Zenon, <3>1, <3>2 DEF Abstract!RemoveClient, Abstract!Without, NoScope, Abstract!NoScope
    <3>4. QED
      BY <3>3 DEF Abstract!Next
  <2>6. QED
    BY <2>1, <2>2, <2>3, <2>4, <2>5 DEF Next
<1>3. QED
  BY <1>1, <1>2, RegistryCorrect, PTL DEF Spec, ImplementsSubscriptions, Abstract!Spec

(* The scan of a topic's list that decides what the broker tells its peers     *)
(* (hasMeshSubscriber) finds a mesh subscriber exactly when some client holds  *)
(* a scope that takes mesh traffic.                                            *)
THEOREM MeshAnswerCorrect == Spec => []MeshAnswerIsRight
<1>1. RegistryInv => MeshAnswerIsRight
  <2>1. SUFFICES ASSUME RegistryInv, NEW t \in Topics
                 PROVE  hasMeshSubscriber(t) <=>
                           \E c \in Clients : scopeAccepts(Held(c, t), FALSE)
    BY DEF MeshAnswerIsRight, Abstract!HasMeshSubscriber, scopeAccepts, Abstract!scopeAccepts
  <2>2. ASSUME NEW i \in 1 .. Len(subscribersOf(t)),
               scopeAccepts(subscribersOf(t)[i].scope, FALSE)
        PROVE  \E c \in Clients : scopeAccepts(Held(c, t), FALSE)
    <3> DEFINE e == subscribersOf(t)[i]
    <3>1. e \in Subscriber
      BY <2>1, ListFacts
    <3>2. e.clientId \in Clients /\ e.scope \in Origin
          /\ e = [clientId |-> e.clientId, scope |-> e.scope]
      BY <3>1 DEF Subscriber
    <3>3. Listed(subscribersOf(t), [clientId |-> e.clientId, scope |-> e.scope])
      BY <3>2 DEF Listed
    <3>4. Held(e.clientId, t) = e.scope
      BY <2>1, <3>2, <3>3, ListFacts
    <3>5. QED
      BY Zenon, <2>2, <3>2, <3>4
  <2>3. ASSUME NEW c \in Clients, scopeAccepts(Held(c, t), FALSE)
        PROVE  hasMeshSubscriber(t)
    <3>1. Held(c, t) \in Origin
      BY <2>1, <2>3, HeldFacts DEF scopeAccepts, NoScope
    <3>2. PICK i \in 1 .. Len(subscribersOf(t)) :
             subscribersOf(t)[i] = [clientId |-> c, scope |-> Held(c, t)]
      BY <2>1, <3>1, ListFacts DEF Listed
    <3>3. subscribersOf(t)[i].scope = Held(c, t)
      BY <3>2
    <3>4. QED
      BY Zenon, <2>3, <3>3 DEF hasMeshSubscriber
  <2>4. QED
    BY Zenon, <2>2, <2>3 DEF hasMeshSubscriber
<1>2. QED
  BY <1>1, RegistryCorrect, PTL

(* Together: the maps agree, and hasMeshSubscriber may ask only one of them.   *)
THEOREM RegistryAnswers == Spec => []RegistryIsSound
BY RegistryCorrect, MeshAnswerCorrect, PTL DEF RegistryIsSound
--------------------------------------------------------------------------------
(* A probe stays within the slots.                                                 *)
LEMMA ProbeType ==
    ASSUME NEW id \in MessageIds, NEW d \in Indices
    PROVE  Probe(id, d) \in Indices
<1>1. Hash[id] \in Nat /\ d \in Nat /\ Slots \in Nat /\ Slots > 0
  BY IdSetAssumption DEF Indices
<1>2. \A a, n \in Nat : n > 0 => a % n \in 0 .. n - 1
  OBVIOUS
<1>3. Hash[id] + d \in Nat
  BY <1>1
<1> QED
  BY <1>1, <1>2, <1>3 DEF Probe, Indices

(* So do the probes before it.                                                     *)
LEMMA EarlierProbes ==
    ASSUME NEW d \in Indices, NEW e \in 0 .. d - 1
    PROVE  e \in Indices
BY IdSetAssumption DEF Indices

(* The empty set satisfies the invariant.                                          *)
LEMMA InitReachable == IdSetInit => IdSetInv
BY IdSetAssumption DEF IdSetInit, IdSetInv, IdSetTypeOK, Reachable, Indices

(* insert stores an id where a probe for it first meets an empty slot.  No other   *)
(* id is overwritten, and no slot that a probe passed becomes empty.               *)
LEMMA InsertReachable ==
    ASSUME IdSetInv, NEW x \in MessageIds, insert(x)
    PROVE  IdSetInv'
<1> USE DEF IdSetInv
<1>1. PICK d \in Indices :
          /\ StopsAt(x, d)
          /\ IF m_slots[Probe(x, d)] = x THEN UNCHANGED <<m_slots, m_count>>
             ELSE m_slots' = [m_slots EXCEPT ![Probe(x, d)] = x] /\ m_count' = m_count + 1
  BY DEF insert
<1>2. inserted' = inserted \cup {x}
  BY DEF insert
<1>3. Probe(x, d) \in Indices
  BY ProbeType
<1>4. CASE m_slots[Probe(x, d)] = x
  <2>1. m_slots' = m_slots /\ m_count' = m_count
    BY <1>1, <1>4
  <2>2. x \in inserted
    BY <1>3, <1>4, IdSetAssumption DEF Reachable
  <2>3. inserted' = inserted
    BY <1>2, <2>2
  <2> QED
    BY <2>1, <2>3 DEF IdSetTypeOK, Reachable
<1>5. CASE m_slots[Probe(x, d)] # x
  <2>1. m_slots' = [m_slots EXCEPT ![Probe(x, d)] = x] /\ m_count' = m_count + 1
    BY <1>1, <1>5
  <2>2. m_slots[Probe(x, d)] = Empty /\ \A e \in 0 .. d - 1 : m_slots[Probe(x, e)] \notin {Empty, x}
    BY <1>1, <1>5 DEF StopsAt, Passed
  <2>3. IdSetTypeOK'
    BY <1>2, <1>3, <2>1 DEF IdSetTypeOK
  <2>4. \A i \in Indices : m_slots'[i] = IF i = Probe(x, d) THEN x ELSE m_slots[i]
    BY <1>3, <2>1 DEF IdSetTypeOK
  <2>5. \A e \in 0 .. d - 1 : m_slots'[Probe(x, e)] \notin {Empty, x}
    <3>1. TAKE e \in 0 .. d - 1
    <3>2. Probe(x, e) \in Indices
      BY ProbeType, EarlierProbes
    <3>3. m_slots[Probe(x, e)] \notin {Empty, x}
      BY <2>2
    <3> QED
      BY <2>2, <2>4, <3>2, <3>3
  <2>6. ASSUME NEW id \in inserted, id # x
        PROVE  \E k \in Indices :
                  m_slots'[Probe(id, k)] = id /\ \A e \in 0 .. k - 1 : m_slots'[Probe(id, e)] \notin {Empty, id}
    <3>1. id \in MessageIds
      BY DEF IdSetTypeOK
    <3>2. PICK k \in Indices :
              m_slots[Probe(id, k)] = id /\ \A e \in 0 .. k - 1 : m_slots[Probe(id, e)] \notin {Empty, id}
      BY DEF Reachable
    <3>3. m_slots'[Probe(id, k)] = id
      BY <2>2, <2>4, <3>1, <3>2, ProbeType, IdSetAssumption
    <3>4. ASSUME NEW e \in 0 .. k - 1
          PROVE  m_slots'[Probe(id, e)] \notin {Empty, id}
      <4>1. Probe(id, e) \in Indices
        BY <3>1, ProbeType, EarlierProbes
      <4> QED
        BY <2>4, <2>6, <3>2, <4>1, IdSetAssumption
    <3> QED
      BY <3>3, <3>4
  <2>7. m_slots'[Probe(x, d)] = x
    BY <1>3, <2>4
  <2>8. \A id \in inserted' : \E k \in Indices :
            m_slots'[Probe(id, k)] = id /\ \A e \in 0 .. k - 1 : m_slots'[Probe(id, e)] \notin {Empty, id}
    BY <1>2, <2>5, <2>6, <2>7
  <2>9. \A i \in Indices : m_slots'[i] # Empty => m_slots'[i] \in inserted'
    BY <1>2, <2>4 DEF Reachable
  <2> QED
    BY <2>3, <2>8, <2>9 DEF Reachable
<1> QED
  BY <1>4, <1>5

(* clear empties everything at once.                                               *)
LEMMA ClearReachable == clear => IdSetInv'
BY IdSetAssumption DEF clear, IdSetInv, IdSetTypeOK, Reachable, Indices

(* The invariant is inductive: it holds of every state of the set.                 *)
THEOREM StoredIdsReachable == IdSetSpec => []IdSetInv
<1>1. IdSetInit => IdSetInv
  BY InitReachable
<1>2. IdSetInv /\ [IdSetNext]_idSetVars => IdSetInv'
  <2>1. CASE UNCHANGED idSetVars
    BY <2>1 DEF idSetVars, IdSetInv, IdSetTypeOK, Reachable
  <2>2. CASE IdSetNext
    BY <2>2, InsertReachable, ClearReachable DEF IdSetNext
  <2> QED
    BY <2>1, <2>2
<1> QED
  BY <1>1, <1>2, PTL DEF IdSetSpec

(* In such a state a probe for an inserted id stops at the id, and one for another *)
(* id cannot stop at it.                                                           *)
LEMMA ReachableFound == IdSetInv => ContainsIsMembership
<1> SUFFICES ASSUME IdSetInv, NEW id \in MessageIds
             PROVE  contains(id) <=> id \in inserted
  BY DEF ContainsIsMembership
<1>1. ASSUME id \in inserted PROVE contains(id)
  <2>1. PICK d \in Indices :
            m_slots[Probe(id, d)] = id /\ \A e \in 0 .. d - 1 : m_slots[Probe(id, e)] \notin {Empty, id}
    BY <1>1 DEF IdSetInv, Reachable
  <2> QED
    BY <2>1 DEF contains, StopsAt, Passed
<1>2. ASSUME contains(id) PROVE id \in inserted
  <2>1. PICK d \in Indices : m_slots[Probe(id, d)] = id
    BY <1>2 DEF contains
  <2>2. Probe(id, d) \in Indices
    BY ProbeType
  <2> QED
    BY <2>1, <2>2, IdSetAssumption DEF IdSetInv, Reachable
<1> QED
  BY <1>1, <1>2

(* MessageIdSet::contains answers whether the id was inserted since the set was    *)
(* cleared, whatever the hash does.                                                *)
THEOREM ContainsCorrect == IdSetSpec => []ContainsIsMembership
BY StoredIdsReachable, ReachableFound, PTL
--------------------------------------------------------------------------------
(* Every non-empty set of naturals has a least element.                            *)
LEMMA LeastNatural ==
    ASSUME NEW T \in SUBSET Nat, T # {}
    PROVE  \E n \in T : \A m \in T : n <= m
<1>1. \E n \in T : \A m \in T : ~ (<<m, n>> \in OpToRel(<, Nat))
  BY WFMin, NatLessThanWellFounded, Zenon
<1>2. \A m, n \in Nat : m < n => <<m, n>> \in OpToRel(<, Nat)
  BY Zenon DEF OpToRel
<1>3. \E n \in T : \A m \in T : ~ (m < n)
  BY <1>1, <1>2, Zenon
<1> HIDE <1>1, <1>2
<1> QED
  BY <1>3

(* Counting on from any number, the remainders of s steps are all those there are. *)
LEMMA RemaindersComeRound ==
    ASSUME NEW a \in Nat, NEW s \in Nat \ {0}, NEW i \in 0 .. s - 1
    PROVE  \E d \in 0 .. s - 1 : (a + d) % s = i
<1> DEFINE q == a \div s
<1> DEFINE h == a % s
<1>1. q \in Nat /\ h \in 0 .. s - 1 /\ a = s * q + h
  OBVIOUS
<1>2. \A p \in Nat, r \in 0 .. s - 1 : (s * p + r) % s = r
  OBVIOUS
<1> HIDE DEF q, h
<1>3. CASE i >= h
  <2>1. i - h \in 0 .. s - 1 /\ a + (i - h) = s * q + i
    BY <1>1, <1>3
  <2> QED
    BY Zenon, <2>1, <1>2, <1>1
<1>4. CASE i < h
  <2>1. i - h + s \in 0 .. s - 1 /\ a + (i - h + s) = s * (q + 1) + i /\ q + 1 \in Nat
    BY <1>1, <1>4
  <2> QED
    BY Zenon, <2>1, <1>2, <1>1
<1> QED
  BY <1>3, <1>4, <1>1

(* So a probe for an id comes to every slot.                                       *)
LEMMA ProbesComeRound ==
    ASSUME NEW id \in MessageIds, NEW i \in Indices
    PROVE  \E d \in Indices : Probe(id, d) = i
<1>1. Hash[id] \in Nat /\ Slots \in Nat \ {0} /\ i \in 0 .. Slots - 1
  BY IdSetAssumption DEF Indices
<1> QED
  BY Zenon, <1>1, RemaindersComeRound DEF Indices, Probe

(* An id that a probe does not find before an empty slot is in no slot at all.     *)
LEMMA StopsOnlyWhereNew ==
    ASSUME IdSetInv, NEW x \in MessageIds, NEW d \in Indices, StopsAt(x, d), m_slots[Probe(x, d)] # x
    PROVE  x \notin inserted
<1>1. m_slots[Probe(x, d)] = Empty /\ \A e \in 0 .. d - 1 : m_slots[Probe(x, e)] \notin {Empty, x}
  BY DEF StopsAt, Passed
<1> SUFFICES ASSUME x \in inserted PROVE FALSE
  OBVIOUS
<1>2. PICK k \in Indices :
          m_slots[Probe(x, k)] = x /\ \A e \in 0 .. k - 1 : m_slots[Probe(x, e)] \notin {Empty, x}
  BY DEF IdSetInv, Reachable
<1>3. d \in Nat /\ k \in Nat
  BY IdSetAssumption DEF Indices
<1>4. d < k \/ k < d \/ k = d
  BY <1>3
<1> QED
  BY <1>1, <1>2, <1>3, <1>4, IdSetAssumption

(* The strengthening: m_count counts the ids, each is in one slot only, and the    *)
(* broker's rotation keeps a slot free.                                            *)
CountInv ==
    /\ IdSetInv
    /\ IsFiniteSet(inserted) /\ m_count = Cardinality(inserted) /\ m_count <= Rotation
    /\ \A i, j \in Indices : m_slots[i] = m_slots[j] /\ m_slots[i] # Empty => i = j

(* insert keeps it: an id that is stored is new, so that no other slot has it.     *)
LEMMA InsertCounts ==
    ASSUME CountInv, NEW x \in MessageIds, insert(x)
    PROVE  CountInv'
<1>1. IdSetInv'
  BY InsertReachable DEF CountInv
<1>2. PICK d \in Indices :
          /\ StopsAt(x, d)
          /\ IF m_slots[Probe(x, d)] = x THEN UNCHANGED <<m_slots, m_count>>
             ELSE m_slots' = [m_slots EXCEPT ![Probe(x, d)] = x] /\ m_count' = m_count + 1
  BY DEF insert
<1>3. Probe(x, d) \in Indices
  BY ProbeType
<1>4. inserted' = inserted \cup {x} /\ m_count < Rotation
  BY DEF insert
<1>5. CASE m_slots[Probe(x, d)] = x
  <2>1. x \in inserted
    BY <1>3, <1>5, IdSetAssumption DEF CountInv, IdSetInv, Reachable
  <2>2. inserted' = inserted /\ m_slots' = m_slots /\ m_count' = m_count
    BY <1>2, <1>4, <1>5, <2>1
  <2> QED
    BY <1>1, <2>2 DEF CountInv
<1>6. CASE m_slots[Probe(x, d)] # x
  <2>1. x \notin inserted
    BY <1>2, <1>6, StopsOnlyWhereNew DEF CountInv
  <2>2. m_slots' = [m_slots EXCEPT ![Probe(x, d)] = x] /\ m_count' = m_count + 1
    BY <1>2, <1>6
  <2>3. IsFiniteSet(inserted') /\ Cardinality(inserted') = Cardinality(inserted) + 1
    BY <1>4, <2>1, FS_AddElement DEF CountInv
  <2>4. m_count' = Cardinality(inserted') /\ m_count' <= Rotation
    BY <1>4, <2>2, <2>3, IdSetAssumption DEF CountInv, IdSetInv, IdSetTypeOK
  <2>5. \A i \in Indices : m_slots'[i] = IF i = Probe(x, d) THEN x ELSE m_slots[i]
    BY <1>3, <2>2 DEF CountInv, IdSetInv, IdSetTypeOK
  <2>6. \A i \in Indices : m_slots[i] # x
    BY <2>1, IdSetAssumption DEF CountInv, IdSetInv, Reachable
  <2>7. \A i, j \in Indices : m_slots'[i] = m_slots'[j] /\ m_slots'[i] # Empty => i = j
    BY <2>5, <2>6 DEF CountInv
  <2> QED
    BY <1>1, <2>3, <2>4, <2>7 DEF CountInv
<1> QED
  BY <1>5, <1>6

(* The strengthening holds of every state of the set.                              *)
THEOREM IdsAreCounted == IdSetSpec => []CountInv
<1>1. IdSetInit => CountInv
  BY InitReachable, FS_EmptySet, IdSetAssumption DEF IdSetInit, CountInv
<1>2. CountInv /\ [IdSetNext]_idSetVars => CountInv'
  <2>1. CASE UNCHANGED idSetVars
    BY <2>1 DEF idSetVars, CountInv, IdSetInv, IdSetTypeOK, Reachable
  <2>2. ASSUME CountInv, clear PROVE CountInv'
    BY <2>2, ClearReachable, FS_EmptySet, IdSetAssumption DEF clear, CountInv
  <2>3. ASSUME CountInv, NEW x \in MessageIds, insert(x) PROVE CountInv'
    BY <2>3, InsertCounts
  <2> QED
    BY <2>1, <2>2, <2>3 DEF IdSetNext
<1> QED
  BY <1>1, <1>2, PTL DEF IdSetSpec

(* With fewer ids than slots, each in one slot, some slot is empty.                *)
LEMMA SomeSlotIsFree == CountInv => \E i \in Indices : m_slots[i] = Empty
<1> SUFFICES ASSUME CountInv, \A i \in Indices : m_slots[i] # Empty
             PROVE  FALSE
  OBVIOUS
<1> DEFINE f == [i \in Indices |-> m_slots[i]]
<1>1. f \in [Indices -> inserted]
  BY DEF CountInv, IdSetInv, Reachable
<1>2. IsFiniteSet(Indices) /\ Cardinality(Indices) = Slots
  BY IdSetAssumption, FS_Interval DEF Indices
<1>3. IsFiniteSet(inserted) /\ Cardinality(inserted) < Cardinality(Indices)
  BY <1>2, IdSetAssumption DEF CountInv, IdSetInv, IdSetTypeOK
<1>4. \A i, j \in Indices : f[i] = f[j] => i = j
  BY DEF CountInv
<1> HIDE DEF f
<1> QED
  BY <1>1, <1>2, <1>3, <1>4, FS_PigeonHole

(* So a probe stops: it comes to the free slot, and before that to the first slot  *)
(* that is free or has the id.                                                     *)
LEMMA CountedProbesEnd == CountInv => ProbesEnd
<1> SUFFICES ASSUME CountInv, NEW id \in MessageIds
             PROVE  \E d \in Indices : StopsAt(id, d)
  BY DEF ProbesEnd, CountInv
<1> DEFINE T == {d \in Indices : m_slots[Probe(id, d)] \in {Empty, id}}
<1>1. PICK i \in Indices : m_slots[i] = Empty
  BY SomeSlotIsFree
<1>2. T # {}
  BY <1>1, ProbesComeRound
<1>3. T \in SUBSET Nat
  BY IdSetAssumption DEF Indices
<1>4. PICK d \in T : \A e \in T : d <= e
  BY Zenon, <1>2, <1>3, LeastNatural
<1>5. d \in Indices /\ m_slots[Probe(id, d)] \in {Empty, id}
  BY <1>4
<1>6. ASSUME NEW e \in 0 .. d - 1 PROVE m_slots[Probe(id, e)] \notin {Empty, id}
  <2>1. e \in Indices /\ ~ (d <= e)
    BY <1>5, EarlierProbes, IdSetAssumption DEF Indices
  <2> QED
    BY <1>4, <2>1
<1> QED
  BY <1>5, <1>6 DEF StopsAt, Passed

(* MessageIdSet answers as the set of the ids inserted since it was cleared would: *)
(* contains is membership, its loop and insert's always end, and m_count, by which *)
(* the broker rotates its windows, is the number of different ids.                 *)
THEOREM IdSetIsASet == IdSetSpec => []AnswersAsSet
<1>1. CountInv => AnswersAsSet
  BY ReachableFound, CountedProbesEnd DEF CountInv, AnswersAsSet
<1> QED
  BY <1>1, IdsAreCounted, PTL
--------------------------------------------------------------------------------
(* What makes the count inductive: a broker remembers every id it has delivered.   *)
MeshInv ==
    /\ seen = [b \in Brokers |-> seen[b]]
    /\ got \in [Brokers -> [Messages -> {0, 1}]]
    /\ \A b \in Brokers, m \in Messages : m \notin seen[b] => got[b][m] = 0

(* Nothing is delivered in the beginning.                                          *)
LEMMA NothingDelivered == MeshInit => MeshInv
BY DEF MeshInit, MeshInv

(* processMessage at any broker, of any message from anywhere, keeps it: a         *)
(* repeated id changes neither record nor count, a new one is recorded as it is    *)
(* delivered.                                                                      *)
LEMMA ProcessingKeepsInv ==
    ASSUME MeshInv, NEW b, NEW m, NEW sender, NEW isFromPeer, NEW out, NEW in, NEW calm,
           processMessage(b, m, sender, isFromPeer, out, in, calm)
    PROVE  MeshInv'
<1>1. CASE Repeats(b, m)
  BY <1>1 DEF processMessage, MeshInv
<1>2. CASE ~ Repeats(b, m)
  <2>1. /\ seen' = [seen EXCEPT ![b] = @ \cup {m}]
        /\ got' = [got EXCEPT ![b][m] = IF Accepts(b, isFromPeer) THEN @ + 1 ELSE @]
    BY <1>2 DEF processMessage
  <2>2. b \in Brokers /\ m \in Messages => got[b][m] = 0
    BY <1>2 DEF Repeats, MeshInv
  <2>3. seen' = [c \in Brokers |-> seen'[c]]
    BY Zenon, <2>1 DEF MeshInv
  <2>4. got' \in [Brokers -> [Messages -> {0, 1}]]
    <3> DEFINE count == IF Accepts(b, isFromPeer) THEN got[b][m] + 1 ELSE got[b][m]
    <3>1. got' = [got EXCEPT ![b] = [got[b] EXCEPT ![m] = count]]
      BY <2>1
    <3>2. b \in Brokers /\ m \in Messages => count \in {0, 1}
      BY <2>2
    <3> HIDE DEF count
    <3>3. b \in Brokers => [got[b] EXCEPT ![m] = count] \in [Messages -> {0, 1}]
      BY Zenon, <3>2 DEF MeshInv
    <3> QED
      BY Zenon, <3>1, <3>3 DEF MeshInv
  <2>5. ASSUME NEW c \in Brokers, NEW n \in Messages, n \notin seen'[c]
        PROVE  got'[c][n] = 0
    <3>1. n \notin seen[c] /\ ~ (c = b /\ n = m)
      BY <2>1, <2>5 DEF MeshInv
    <3>2. got'[c][n] = got[c][n]
      BY <2>1, <3>1 DEF MeshInv
    <3> QED
      BY <3>1, <3>2 DEF MeshInv
  <2> QED
    BY <2>3, <2>4, <2>5 DEF MeshInv
<1> QED
  BY <1>1, <1>2

(* No step of the mesh breaks it.                                                  *)
LEMMA StepsKeepInv == MeshInv /\ [MeshNext]_meshVars => MeshInv'
<1> SUFFICES ASSUME MeshInv, [MeshNext]_meshVars
             PROVE  MeshInv'
  OBVIOUS
<1>1. CASE UNCHANGED meshVars
  BY <1>1 DEF meshVars, MeshInv
<1>2. ASSUME NEW b \in Brokers, NEW scope \in Origin \cup {NoScope}, ClientSubscribes(b, scope)
      PROVE  MeshInv'
  BY <1>2 DEF ClientSubscribes, MeshInv
<1>3. ASSUME NEW b \in Brokers, NEW m \in Messages, Publish(b, m)
      PROVE  MeshInv'
  BY Zenon, <1>3, ProcessingKeepsInv DEF Publish
<1>4. ASSUME NEW l \in dials, LinkSubscribes(l)
      PROVE  MeshInv'
  BY <1>4 DEF LinkSubscribes, MeshInv
<1>5. ASSUME NEW l \in dials, LinkPublishes(l)
      PROVE  MeshInv'
  BY Zenon, <1>5, ProcessingKeepsInv DEF LinkPublishes
<1>6. ASSUME NEW l \in dials, PeerDelivers(l)
      PROVE  MeshInv'
  BY Zenon, <1>6, ProcessingKeepsInv DEF PeerDelivers
<1> QED
  BY <1>1, <1>2, <1>3, <1>4, <1>5, <1>6 DEF MeshNext

(* In every mesh, loops and repeated links included, no client is given a message  *)
(* twice: the "each broker once regardless of mesh shape" of the loop protection.  *)
THEOREM DeliveredOnce == MeshSpec => []MeshDeliversOnce
<1>1. MeshInv => MeshDeliversOnce
  BY DEF MeshInv, MeshDeliversOnce
<1> QED
  BY <1>1, NothingDelivered, StepsKeepInv, PTL DEF MeshSpec
--------------------------------------------------------------------------------
(* A broker reaches itself, what its links lead to, and what is reached from there. *)
LEMMA ReachesOn ==
    ASSUME NEW hops, NEW x \in Brokers, NEW y \in Brokers, NEW z \in Brokers
    PROVE  /\ Reaches(hops, x, x)
           /\ Reaches(hops, x, y) /\ Reaches(hops, y, z) => Reaches(hops, x, z)
           /\ \A h \in hops : h[1] = x /\ h[2] = y => Reaches(hops, x, y)
BY Zenon DEF Reaches

(* A set of brokers that no hop leaves has all that is reached from its members.   *)
LEMMA ReachesLeast ==
    ASSUME NEW hops, NEW S \in SUBSET Brokers, NEW x \in S, NEW y,
           \A h \in hops : h[1] \in S => h[2] \in S,
           Reaches(hops, x, y)
    PROVE  y \in S
BY Zenon DEF Reaches

(* What a queue says last, as it is read and as data is put behind.                *)
LEMMA SaysTail ==
    ASSUME NEW q \in Seq(Items), q # <<>>
    PROVE  /\ SaysLast(q) <=> SaysLast(Tail(q)) \/ (Head(q) = "SUBSCRIBE" /\ NoControl(Tail(q)))
           /\ NoControl(q) <=> ~ IsControl(Head(q)) /\ NoControl(Tail(q))
           /\ \A m : InQueue(m, q) <=> Head(q) = m \/ InQueue(m, Tail(q))
<1> DEFINE n == Len(q)
<1>1. /\ n \in Nat \ {0} /\ DOMAIN q = 1 .. n /\ Head(q) = q[1]
      /\ DOMAIN Tail(q) = 1 .. (n - 1) /\ \A i \in 1 .. (n - 1) : Tail(q)[i] = q[i + 1]
  BY LenProperties, HeadTailProperties, EmptySeq
<1> HIDE DEF n
<1>2. \A i \in 1 .. n : i = 1 \/ (i - 1 \in 1 .. (n - 1) /\ (i - 1) + 1 = i)
  BY <1>1
<1>3. 1 \in 1 .. n /\ \A i \in 1 .. (n - 1) : i + 1 \in 1 .. n
  BY <1>1
<1>4. \A i \in 1 .. n : i = 1 \/ Tail(q)[i - 1] = q[i]
  BY <1>1, <1>2
<1>5. NoControl(q) <=> ~ IsControl(Head(q)) /\ NoControl(Tail(q))
  <2>1. NoControl(q) => ~ IsControl(Head(q)) /\ NoControl(Tail(q))
    BY <1>1, <1>3, Zenon DEF NoControl
  <2>2. ~ IsControl(Head(q)) /\ NoControl(Tail(q)) => NoControl(q)
    BY <1>1, <1>2, <1>4, Zenon DEF NoControl
  <2> QED
    BY <2>1, <2>2
<1>6. ASSUME NEW m PROVE InQueue(m, q) <=> Head(q) = m \/ InQueue(m, Tail(q))
  <2>1. InQueue(m, q) => Head(q) = m \/ InQueue(m, Tail(q))
    BY <1>1, <1>2, <1>4, Zenon DEF InQueue
  <2>2. Head(q) = m \/ InQueue(m, Tail(q)) => InQueue(m, q)
    BY <1>1, <1>3, Zenon DEF InQueue
  <2> QED
    BY <2>1, <2>2
<1>7. SaysLast(q) => SaysLast(Tail(q)) \/ (Head(q) = "SUBSCRIBE" /\ NoControl(Tail(q)))
  <2> SUFFICES ASSUME NEW i \in 1 .. n, q[i] = "SUBSCRIBE", \A j \in 1 .. n : j > i => ~ IsControl(q[j])
               PROVE  SaysLast(Tail(q)) \/ (Head(q) = "SUBSCRIBE" /\ NoControl(Tail(q)))
    BY <1>1 DEF SaysLast
  <2>1. CASE i = 1
    <3>1. \A j \in 1 .. (n - 1) : ~ IsControl(Tail(q)[j])
      BY <1>1, <2>1
    <3> QED
      BY <1>1, <2>1, <3>1, Zenon DEF NoControl
  <2>2. CASE i # 1
    <3>1. i - 1 \in 1 .. (n - 1) /\ Tail(q)[i - 1] = "SUBSCRIBE"
      BY Zenon, <1>2, <1>4, <2>2
    <3>2. \A j \in 1 .. (n - 1) : j > i - 1 => ~ IsControl(Tail(q)[j])
      BY <1>1
    <3> QED
      BY Zenon, <1>1, <3>1, <3>2 DEF SaysLast
  <2> QED
    BY <2>1, <2>2
<1>8. SaysLast(Tail(q)) => SaysLast(q)
  <2> SUFFICES ASSUME NEW i \in 1 .. (n - 1), Tail(q)[i] = "SUBSCRIBE",
                      \A j \in 1 .. (n - 1) : j > i => ~ IsControl(Tail(q)[j])
               PROVE  SaysLast(q)
    BY Zenon, <1>1 DEF SaysLast
  <2>1. i + 1 \in 1 .. n /\ q[i + 1] = "SUBSCRIBE"
    BY <1>1
  <2>2. ASSUME NEW j \in 1 .. n, j > i + 1 PROVE ~ IsControl(q[j])
    <3>1. j - 1 \in 1 .. (n - 1) /\ j - 1 > i /\ Tail(q)[j - 1] = q[j]
      BY <1>1, <2>2
    <3> QED
      BY Zenon, <3>1
  <2> QED
    BY <1>1, <2>1, <2>2 DEF SaysLast
<1>9. Head(q) = "SUBSCRIBE" /\ NoControl(Tail(q)) => SaysLast(q)
  <2> SUFFICES ASSUME Head(q) = "SUBSCRIBE", NoControl(Tail(q)) PROVE SaysLast(q)
    OBVIOUS
  <2>1. \A j \in 1 .. n : j > 1 => ~ IsControl(q[j])
    <3>1. \A j \in 1 .. (n - 1) : ~ IsControl(Tail(q)[j])
      BY <1>1, Zenon DEF NoControl
    <3>2. \A j \in 1 .. n : j > 1 => j # 1
      BY <1>1
    <3> QED
      BY <1>2, <1>4, <3>1, <3>2, Zenon
  <2> QED
    BY <1>1, <1>3, <2>1 DEF SaysLast
<1> QED
  BY <1>5, <1>6, <1>7, <1>8, <1>9

(* Data put behind says nothing of interest.                                       *)
LEMMA SaysAppend ==
    ASSUME NEW q \in Seq(Items), NEW x \in Messages
    PROVE  /\ Append(q, x) \in Seq(Items)
           /\ SaysLast(Append(q, x)) <=> SaysLast(q)
           /\ NoControl(Append(q, x)) <=> NoControl(q)
           /\ \A m : InQueue(m, Append(q, x)) <=> InQueue(m, q) \/ x = m
<1> DEFINE n == Len(q)
           r == Append(q, x)
<1>1. x \in Items /\ ~ IsControl(x) /\ x # "SUBSCRIBE"
  BY MeshAssumption DEF Items, IsControl
<1>2. /\ n \in Nat /\ DOMAIN q = 1 .. n /\ r \in Seq(Items) /\ DOMAIN r = 1 .. (n + 1)
      /\ \A i \in 1 .. n : r[i] = q[i]
      /\ r[n + 1] = x
  BY <1>1, LenProperties
<1> HIDE DEF n, r
<1>3. \A i \in 1 .. (n + 1) : i \in 1 .. n \/ i = n + 1
  BY <1>2
<1>4. n + 1 \in 1 .. (n + 1) /\ \A i \in 1 .. n : i \in 1 .. (n + 1)
  BY <1>2
<1>5. NoControl(r) <=> NoControl(q)
  BY <1>1, <1>2, <1>3, <1>4, Zenon DEF NoControl
<1>6. \A m : InQueue(m, r) <=> InQueue(m, q) \/ x = m
  BY <1>2, <1>3, <1>4, Zenon DEF InQueue
<1>7. SaysLast(r) => SaysLast(q)
  BY <1>1, <1>2, <1>3, <1>4 DEF SaysLast
<1>8. SaysLast(q) => SaysLast(r)
  BY <1>1, <1>2, <1>3, <1>4 DEF SaysLast
<1> QED
  BY <1>2, <1>5, <1>6, <1>7, <1>8 DEF r

(* A key put before data that is behind is what the queue says last.               *)
LEMMA SaysInserted ==
    ASSUME NEW q \in Seq(Items), NEW key \in {"SUBSCRIBE", "UNSUBSCRIBE"}, NEW k \in Nat, DataBehind(q, k)
    PROVE  /\ Inserted(q, key, k) \in Seq(Items)
           /\ SaysLast(Inserted(q, key, k)) <=> key = "SUBSCRIBE"
           /\ ~ NoControl(Inserted(q, key, k))
           /\ \A m \in Messages : InQueue(m, Inserted(q, key, k)) <=> InQueue(m, q)
<1> DEFINE n == Len(q)
           a == SubSeq(q, 1, k)
           b == SubSeq(q, k + 1, n)
           r == Inserted(q, key, k)
<1>1. /\ n \in Nat /\ DOMAIN q = 1 .. n /\ k \in 0 .. n /\ \A j \in k + 1 .. n : ~ IsControl(q[j])
      /\ \A i \in 1 .. n : q[i] \in Items
  BY LenProperties, ElementOfSeq DEF DataBehind
<1>2. key \in Items /\ IsControl(key) /\ \A m \in Messages : key # m
  BY MeshAssumption DEF Items, IsControl
<1>3. a \in Seq(Items) /\ Len(a) = k /\ \A i \in 1 .. k : a[i] = q[i]
  <2>1. \A i \in 1 .. k : q[i] \in Items
    BY <1>1
  <2>2. /\ a \in Seq(Items) /\ Len(a) = (IF 1 <= k THEN k - 1 + 1 ELSE 0)
        /\ \A i \in 1 .. k - 1 + 1 : a[i] = q[1 + i - 1]
    <3> HIDE DEF n
    <3> QED
      BY <2>1, SubSeqProperties
  <2> HIDE DEF a
  <2> QED
    BY <2>2
<1>4. b \in Seq(Items) /\ Len(b) = n - k /\ \A i \in 1 .. n - k : b[i] = q[i + k]
  <2>1. \A i \in k + 1 .. n : q[i] \in Items
    BY <1>1
  <2>2. /\ b \in Seq(Items) /\ Len(b) = (IF k + 1 <= n THEN n - (k + 1) + 1 ELSE 0)
        /\ \A i \in 1 .. n - (k + 1) + 1 : b[i] = q[k + 1 + i - 1]
    <3> HIDE DEF n
    <3> QED
      BY <1>1, <2>1, SubSeqProperties
  <2> HIDE DEF b, n
  <2> QED
    BY <1>1, <2>2
<1>5. r = (a \o <<key>>) \o b
  BY DEF Inserted
<1> HIDE DEF n, a, b, r
<1>6. /\ a \o <<key>> \in Seq(Items) /\ Len(a \o <<key>>) = k + 1
      /\ \A i \in 1 .. k : (a \o <<key>>)[i] = q[i]
      /\ (a \o <<key>>)[k + 1] = key
  <2>1. <<key>> \in Seq(Items) /\ Len(<<key>>) = 1 /\ <<key>>[1] = key
    BY <1>2
  <2>2. /\ a \o <<key>> \in Seq(Items) /\ Len(a \o <<key>>) = k + 1
        /\ \A i \in 1 .. k + 1 : (a \o <<key>>)[i] = IF i <= k THEN a[i] ELSE <<key>>[i - k]
    BY <1>3, <2>1, ConcatProperties
  <2> QED
    BY <1>1, <1>3, <2>1, <2>2
<1>7. /\ r \in Seq(Items) /\ DOMAIN r = 1 .. (n + 1)
      /\ \A i \in 1 .. k : r[i] = q[i]
      /\ r[k + 1] = key
      /\ \A i \in k + 2 .. n + 1 : r[i] = q[i - 1]
  <2> DEFINE c == a \o <<key>>
  <2>1. /\ c \in Seq(Items) /\ Len(c) = k + 1 /\ c[k + 1] = key
        /\ \A i \in 1 .. k : c[i] = q[i]
    BY <1>6
  <2>2. r = c \o b
    BY <1>5
  <2> HIDE DEF c
  <2>3. /\ r \in Seq(Items) /\ Len(r) = (k + 1) + (n - k)
        /\ \A i \in 1 .. (k + 1) + (n - k) : r[i] = IF i <= k + 1 THEN c[i] ELSE b[i - (k + 1)]
    <3>1. /\ c \o b \in Seq(Items) /\ Len(c \o b) = Len(c) + Len(b)
          /\ \A i \in 1 .. Len(c) + Len(b) : (c \o b)[i] = IF i <= Len(c) THEN c[i] ELSE b[i - Len(c)]
      BY <1>4, <2>1, ConcatProperties, Zenon
    <3> QED
      BY <1>4, <2>1, <2>2, <3>1, Zenon
  <2>4. DOMAIN r = 1 .. Len(r) /\ Len(r) = n + 1
    BY <1>1, <2>3, LenProperties
  <2>5. \A i \in k + 2 .. n + 1 : r[i] = b[i - (k + 1)] /\ i - (k + 1) \in 1 .. n - k /\ (i - (k + 1)) + k = i - 1
    BY <1>1, <2>3
  <2>6. \A i \in k + 2 .. n + 1 : r[i] = q[i - 1]
    BY <1>4, <2>5
  <2> QED
    BY <1>1, <2>1, <2>3, <2>4, <2>6
<1>8. k + 1 \in 1 .. (n + 1) /\ \A j \in 1 .. (n + 1) : j > k + 1 => ~ IsControl(r[j])
  BY <1>1, <1>7
<1>9. ~ NoControl(r)
  BY <1>2, <1>7, <1>8, Zenon DEF NoControl
<1>10. key = "SUBSCRIBE" => SaysLast(r)
  BY <1>7, <1>8 DEF SaysLast
<1>11. ASSUME SaysLast(r) PROVE key = "SUBSCRIBE"
  <2>1. PICK i \in 1 .. (n + 1) : r[i] = "SUBSCRIBE" /\ \A j \in 1 .. (n + 1) : j > i => ~ IsControl(r[j])
    BY <1>7, <1>11 DEF SaysLast
  <2>2. ~ (k + 1 > i)
    BY <1>2, <1>7, <1>8, <2>1
  <2>3. ~ (i > k + 1)
    BY <1>8, <2>1 DEF IsControl
  <2>4. i = k + 1
    BY <1>1, <2>2, <2>3
  <2> QED
    BY <1>7, <2>1, <2>4
<1>12. ASSUME NEW m \in Messages PROVE InQueue(m, r) <=> InQueue(m, q)
  <2>1. ASSUME NEW i \in 1 .. (n + 1), r[i] = m PROVE InQueue(m, q)
    <3>1. i # k + 1
      BY <1>2, <1>7, <2>1
    <3>2. \/ i \in 1 .. k /\ i \in 1 .. n
          \/ i \in k + 2 .. n + 1 /\ i - 1 \in 1 .. n
      BY <1>1, <3>1
    <3> QED
      BY <1>1, <1>7, <2>1, <3>2, Zenon DEF InQueue
  <2>2. ASSUME NEW i \in 1 .. n, q[i] = m PROVE InQueue(m, r)
    <3>1. \/ i \in 1 .. k /\ i \in 1 .. (n + 1)
          \/ i + 1 \in k + 2 .. n + 1 /\ i + 1 \in 1 .. (n + 1) /\ (i + 1) - 1 = i
      BY <1>1
    <3>2. \/ i \in 1 .. (n + 1) /\ r[i] = m
          \/ i + 1 \in 1 .. (n + 1) /\ r[i + 1] = m
      BY <1>7, <2>2, <3>1
    <3> QED
      BY <1>7, <3>2, Zenon DEF InQueue
  <2> QED
    BY <1>1, <1>7, <2>1, <2>2, Zenon DEF InQueue
<1> QED
  BY <1>7, <1>9, <1>10, <1>11, <1>12 DEF r

(* Queues of messages only are queues.                                             *)
LEMMA DataAreItems == Seq(Messages) \subseteq Seq(Items)
<1> SUFFICES ASSUME NEW q \in Seq(Messages) PROVE q \in Seq(Items)
  OBVIOUS
<1>1. \A i \in 1 .. Len(q) : q[i] \in Items
  BY ElementOfSeq DEF Items
<1>2. Len(q) \in Nat /\ q = [i \in 1 .. Len(q) |-> q[i]]
  BY LenProperties
<1>3. q \in [1 .. Len(q) -> Items]
  BY <1>1, <1>2, Zenon
<1> QED
  BY <1>2, <1>3, SeqDef, Zenon

(* What processMessage does to the queues, the records and the history: copies of  *)
(* its message are put behind, on links of its broker only, and on all of them     *)
(* while the message stays undisturbed; nothing is said of interest.               *)
Passes(b, m, sender, out, in, calm) ==
    /\ outbound' \in [dials -> Seq(Items)] /\ inbound' \in [dials -> Seq(Messages)]
    /\ seen' = [seen EXCEPT ![b] = @ \cup {m}]
    /\ undisturbed' \subseteq calm
    /\ \A k \in dials : /\ SaysLast(outbound'[k]) <=> SaysLast(out[k])
                        /\ NoControl(outbound'[k]) <=> NoControl(out[k])
    /\ \A k \in dials, n \in Messages :
          /\ InQueue(n, out[k]) => InQueue(n, outbound'[k])
          /\ InQueue(n, outbound'[k]) => InQueue(n, out[k]) \/ (n = m /\ k[1] = b)
          /\ InQueue(n, in[k]) => InQueue(n, inbound'[k])
          /\ InQueue(n, inbound'[k]) => InQueue(n, in[k]) \/ (n = m /\ k[2] = b)
    /\ m \in undisturbed' /\ ~ Repeats(b, m) =>
          \A k \in dials : /\ k[1] = b => InQueue(m, outbound'[k])
                           /\ k[2] = b /\ k \in asks => k \in sender \/ InQueue(m, inbound'[k])

(* It does just that.                                                              *)
LEMMA ProcessingPasses ==
    ASSUME MeshTypeOK, NEW b \in Brokers, NEW m \in Messages, NEW sender, NEW isFromPeer,
           NEW out \in [dials -> Seq(Items)], NEW in \in [dials -> Seq(Messages)], NEW calm \in SUBSET Messages,
           undisturbed \subseteq calm, processMessage(b, m, sender, isFromPeer, out, in, calm)
    PROVE  Passes(b, m, sender, out, in, calm)
<1>1. CASE Repeats(b, m)
  <2>1. outbound' = out /\ inbound' = in /\ seen' = seen /\ undisturbed' = undisturbed
    BY <1>1 DEF processMessage
  <2>2. seen = [seen EXCEPT ![b] = @ \cup {m}]
    BY <1>1 DEF Repeats, MeshTypeOK
  <2> QED
    BY <1>1, <2>1, <2>2, Zenon DEF Passes
<1>2. CASE ~ Repeats(b, m)
  <2>1. PICK refused \in SUBSET (Delivered(b, sender) \cup Flooded(b, isFromPeer)) :
            /\ undisturbed' = IF refused = {} THEN calm ELSE calm \ {m}
            /\ seen' = [seen EXCEPT ![b] = @ \cup {m}]
            /\ inbound' = [l \in dials |-> IF l \in Delivered(b, sender) \ refused THEN Append(in[l], m) ELSE in[l]]
            /\ outbound' = [l \in dials |-> IF l \in Flooded(b, isFromPeer) \ refused THEN Append(out[l], m) ELSE out[l]]
    BY <1>2, Zenon DEF processMessage
  <2>2. /\ Delivered(b, sender) = {k \in dials : k[2] = b /\ k \in asks /\ k \notin sender}
        /\ Flooded(b, isFromPeer) = {k \in dials : k[1] = b}
    BY DEF Delivered, Flooded, DialsTo, DialedBy
  <2>3. \A M : \A q \in Seq(M), x \in M : Append(q, x) \in Seq(M)
    OBVIOUS
  <2>4. \A q \in Seq(Items) :
           /\ Append(q, m) \in Seq(Items)
           /\ SaysLast(Append(q, m)) <=> SaysLast(q)
           /\ NoControl(Append(q, m)) <=> NoControl(q)
           /\ \A n : InQueue(n, Append(q, m)) <=> InQueue(n, q) \/ m = n
    BY SaysAppend, Zenon
  <2>5. inbound' \in [dials -> Seq(Messages)] /\ outbound' \in [dials -> Seq(Items)]
    BY <2>1, <2>3, <2>4, Zenon
  <2>6. ASSUME NEW k \in dials
        PROVE  /\ \/ k[1] = b /\ k \notin refused /\ outbound'[k] = Append(out[k], m)
                  \/ ~ (k[1] = b /\ k \notin refused) /\ outbound'[k] = out[k]
               /\ \/ k[2] = b /\ k \in asks /\ k \notin sender /\ k \notin refused /\ inbound'[k] = Append(in[k], m)
                  \/ ~ (k[2] = b /\ k \in asks /\ k \notin sender /\ k \notin refused) /\ inbound'[k] = in[k]
               /\ out[k] \in Seq(Items) /\ in[k] \in Seq(Items)
    <3>1. out[k] \in Seq(Items) /\ in[k] \in Seq(Items)
      BY DataAreItems, Zenon
    <3> QED
      BY <2>1, <2>2, <3>1, Zenon
  <2>12. ASSUME NEW q \in Seq(Items), NEW r, r = q \/ r = Append(q, m)
         PROVE  /\ SaysLast(r) <=> SaysLast(q)
                /\ NoControl(r) <=> NoControl(q)
                /\ \A n : InQueue(n, q) => InQueue(n, r)
                /\ \A n : InQueue(n, r) => InQueue(n, q) \/ (n = m /\ r # q)
    <3>1. CASE r = q
      BY <3>1
    <3>2. CASE r # q
      <4>1. r = Append(q, m)
        BY <2>12, <3>2
      <4> QED
        BY <2>4, <3>2, <4>1
    <3> QED
      BY <3>1, <3>2
  <2>7. ASSUME NEW k \in dials
        PROVE  /\ SaysLast(outbound'[k]) <=> SaysLast(out[k])
               /\ NoControl(outbound'[k]) <=> NoControl(out[k])
    <3>1. outbound'[k] = out[k] \/ outbound'[k] = Append(out[k], m)
      BY Zenon, <2>6
    <3> QED
      BY Zenon, <2>6, <2>12, <3>1
  <2>8. ASSUME NEW k \in dials, NEW n \in Messages
        PROVE  /\ InQueue(n, out[k]) => InQueue(n, outbound'[k])
               /\ InQueue(n, outbound'[k]) => InQueue(n, out[k]) \/ (n = m /\ k[1] = b)
    <3>1. /\ outbound'[k] = out[k] \/ outbound'[k] = Append(out[k], m)
          /\ outbound'[k] # out[k] => k[1] = b
          /\ out[k] \in Seq(Items)
      BY Zenon, <2>6
    <3>2. /\ \A j : InQueue(j, out[k]) => InQueue(j, outbound'[k])
          /\ \A j : InQueue(j, outbound'[k]) => InQueue(j, out[k]) \/ (j = m /\ outbound'[k] # out[k])
      BY Zenon, <2>12, <3>1
    <3> QED
      BY <3>1, <3>2, Zenon
  <2>9. ASSUME NEW k \in dials, NEW n \in Messages
        PROVE  /\ InQueue(n, in[k]) => InQueue(n, inbound'[k])
               /\ InQueue(n, inbound'[k]) => InQueue(n, in[k]) \/ (n = m /\ k[2] = b)
    <3>1. /\ inbound'[k] = in[k] \/ inbound'[k] = Append(in[k], m)
          /\ inbound'[k] # in[k] => k[2] = b
          /\ in[k] \in Seq(Items)
      BY Zenon, <2>6
    <3>2. /\ \A j : InQueue(j, in[k]) => InQueue(j, inbound'[k])
          /\ \A j : InQueue(j, inbound'[k]) => InQueue(j, in[k]) \/ (j = m /\ inbound'[k] # in[k])
      BY Zenon, <2>12, <3>1
    <3> QED
      BY <3>1, <3>2, Zenon
  <2>10. ASSUME m \in undisturbed', NEW k \in dials
         PROVE  /\ k[1] = b => InQueue(m, outbound'[k])
                /\ k[2] = b /\ k \in asks => k \in sender \/ InQueue(m, inbound'[k])
    <3>1. k \notin refused
      BY Zenon, <2>1, <2>10
    <3>2. InQueue(m, Append(out[k], m)) /\ InQueue(m, Append(in[k], m))
      BY Zenon, <2>4, <2>6
    <3> QED
      BY Zenon, <2>6, <3>1, <3>2
  <2>11. undisturbed' \subseteq calm
    BY <2>1
  <2> QED
    BY <2>1, <2>5, <2>7, <2>8, <2>9, <2>10, <2>11, Zenon DEF Passes
<1> QED
  BY <1>1, <1>2

(* What noteMeshInterestChange does to the queues: the links its broker dialed are *)
(* told the new interest, if it changed, and no data is lost.                      *)
LEMMA NoteTells ==
    ASSUME MeshTypeOK, NEW b \in Brokers, NEW rest \in [dials -> Seq(Items)], dials' = dials,
           noteMeshInterestChange(b, rest)
    PROVE  /\ outbound' \in [dials -> Seq(Items)]
           /\ \A k \in dials : \/ /\ outbound'[k] = rest[k]
                                  /\ k[1] # b \/ (WantedFromMesh(b)' <=> WantedFromMesh(b))
                               \/ /\ k[1] = b /\ ~ NoControl(outbound'[k])
                                  /\ SaysLast(outbound'[k]) <=> WantedFromMesh(b)'
           /\ \A k \in dials, n \in Messages : InQueue(n, outbound'[k]) <=> InQueue(n, rest[k])
<1> DEFINE W == WantedFromMesh(b)
           key == IF W' THEN "SUBSCRIBE" ELSE "UNSUBSCRIBE"
<1>1. CASE W' = W
  <2>1. outbound' = rest
    BY <1>1, Zenon DEF noteMeshInterestChange
  <2> QED
    BY <1>1, <2>1, Zenon
<1>2. CASE ~ (W' = W)
  <2>1. PICK sent \in [DialedBy(b) -> UNION {0 .. Len(rest[l]) : l \in DialedBy(b)}] :
            /\ \A l \in DialedBy(b) : DataBehind(rest[l], sent[l])
            /\ outbound' = [l \in dials |-> IF l \in DialedBy(b) THEN Inserted(rest[l], key, sent[l])
                                            ELSE rest[l]]
    BY <1>2, Zenon DEF noteMeshInterestChange
  <2>2. key \in {"SUBSCRIBE", "UNSUBSCRIBE"} /\ (key = "SUBSCRIBE" <=> W')
    OBVIOUS
  <2> HIDE DEF key, W
  <2>3. \A k \in dials : k \in DialedBy(b) <=> k[1] = b
    BY DEF DialedBy
  <2>4. ASSUME NEW k \in DialedBy(b)
        PROVE  /\ Inserted(rest[k], key, sent[k]) \in Seq(Items)
               /\ SaysLast(Inserted(rest[k], key, sent[k])) <=> W'
               /\ ~ NoControl(Inserted(rest[k], key, sent[k]))
               /\ \A n \in Messages : InQueue(n, Inserted(rest[k], key, sent[k])) <=> InQueue(n, rest[k])
    <3>1. k \in dials /\ rest[k] \in Seq(Items)
      BY Zenon DEF DialedBy
    <3>2. sent[k] \in Nat
      <4>1. \A l \in DialedBy(b) : 0 .. Len(rest[l]) \subseteq Nat
        BY DEF DialedBy
      <4> QED
        BY <4>1
    <3> QED
      BY Zenon, <2>1, <2>2, <3>1, <3>2, SaysInserted
  <2>5. outbound' \in [dials -> Seq(Items)]
    BY <2>1, <2>4, Zenon
  <2>6. ASSUME NEW k \in dials
        PROVE  IF k[1] = b THEN k \in DialedBy(b) /\ outbound'[k] = Inserted(rest[k], key, sent[k])
                           ELSE outbound'[k] = rest[k]
    BY <2>1, <2>3
  <2>7. ASSUME NEW k \in dials
        PROVE  /\ \/ outbound'[k] = rest[k] /\ k[1] # b
                  \/ k[1] = b /\ ~ NoControl(outbound'[k]) /\ (SaysLast(outbound'[k]) <=> W')
               /\ \A n \in Messages : InQueue(n, outbound'[k]) <=> InQueue(n, rest[k])
    <3>1. CASE k[1] = b
      <4>1. k \in DialedBy(b) /\ outbound'[k] = Inserted(rest[k], key, sent[k])
        BY <2>6, <3>1
      <4> QED
        BY Zenon, <2>4, <3>1, <4>1
    <3>2. CASE k[1] # b
      BY Zenon, <2>6, <3>2
    <3> QED
      BY Zenon, <3>1, <3>2
  <2> QED
    BY <2>5, <2>7, Zenon DEF W
<1> QED
  BY Zenon, <1>1, <1>2

(* Nobody wants anything in the beginning, and nothing is on its way.              *)
LEMMA InterestStarts == MeshInit => InterestInv
<1> SUFFICES ASSUME MeshInit PROVE InterestInv
  OBVIOUS
<1>1. MeshTypeOK
  <2>1. dials \subseteq Brokers \X Brokers
    BY MeshAssumption DEF MeshInit
  <2>2. <<>> \in Seq(Items) /\ <<>> \in Seq(Messages)
    OBVIOUS
  <2> QED
    BY <2>1, <2>2 DEF MeshInit, MeshTypeOK
<1>2. ASSUME NEW l \in dials PROVE ~ Told(l) /\ ~ WantedFromMesh(l[1])
  <2>1. outbound[l] = <<>> /\ DOMAIN <<>> = {} /\ asks = {} /\ want[l[1]] = NoScope
    BY <1>1 DEF MeshInit, MeshTypeOK
  <2>2. ~ SaysLast(outbound[l]) /\ l \notin asks
    BY <2>1 DEF SaysLast
  <2> QED
    BY Zenon, <2>1, <2>2 DEF Told, WantedFromMesh, scopeAccepts, NoScope
<1> QED
  BY <1>1, <1>2 DEF InterestInv

(* The queue a link loses its head from.                                           *)
LEMMA ReadsHead ==
    ASSUME MeshTypeOK, NEW l \in dials, NEW M, NEW q \in [dials -> Seq(M)], q[l] # <<>>
    PROVE  /\ [q EXCEPT ![l] = Tail(@)] \in [dials -> Seq(M)]
           /\ [q EXCEPT ![l] = Tail(@)][l] = Tail(q[l])
           /\ \A k \in dials : k # l => [q EXCEPT ![l] = Tail(@)][k] = q[k]
           /\ Head(q[l]) \in M
<1>1. Tail(q[l]) \in Seq(M) /\ Head(q[l]) \in M
  BY HeadTailProperties
<1> QED
  BY <1>1, Zenon

(* processMessage leaves interest alone.                                           *)
LEMMA ProcessingKeepsInterest ==
    ASSUME InterestInv, NEW b \in Brokers, NEW m \in Messages, NEW sender, NEW isFromPeer,
           NEW out \in [dials -> Seq(Items)], NEW in \in [dials -> Seq(Messages)], NEW calm \in SUBSET Messages,
           undisturbed \subseteq calm, processMessage(b, m, sender, isFromPeer, out, in, calm),
           UNCHANGED <<dials, want, asks>>, source' \in [Messages -> Brokers \cup {Nowhere}],
           \A k \in dials : /\ SaysLast(out[k]) <=> SaysLast(outbound[k])
                            /\ NoControl(out[k]) <=> NoControl(outbound[k])
    PROVE  InterestInv'
<1>1. MeshTypeOK /\ \A l \in dials : Told(l) <=> WantedFromMesh(l[1])
  BY Zenon DEF InterestInv
<1>2. /\ outbound' \in [dials -> Seq(Items)] /\ inbound' \in [dials -> Seq(Messages)]
      /\ seen' = [seen EXCEPT ![b] = @ \cup {m}]
      /\ undisturbed' \subseteq calm
      /\ \A k \in dials : /\ SaysLast(outbound'[k]) <=> SaysLast(out[k])
                          /\ NoControl(outbound'[k]) <=> NoControl(out[k])
  <2>1. Passes(b, m, sender, out, in, calm)
    BY <1>1, ProcessingPasses, Zenon
  <2> QED
    BY <2>1, Zenon DEF Passes
<1>3. MeshTypeOK'
  BY Zenon, <1>1, <1>2 DEF MeshTypeOK
<1>4. ASSUME NEW l \in dials' PROVE Told(l)' <=> WantedFromMesh(l[1])'
  <2>1. WantedFromMesh(l[1])' <=> WantedFromMesh(l[1])
    BY Zenon DEF WantedFromMesh, DialsTo
  <2>2. Told(l)' <=> Told(l)
    BY Zenon, <1>2 DEF Told
  <2> QED
    BY Zenon, <1>1, <2>1, <2>2
<1> QED
  BY Zenon, <1>3, <1>4 DEF InterestInv

(* No step of the mesh leaves a link that would end up told something else than    *)
(* the interest of the broker that dialed.                                         *)
LEMMA InterestKeeps == InterestInv /\ [MeshNext]_meshVars => InterestInv'
<1> SUFFICES ASSUME InterestInv, [MeshNext]_meshVars PROVE InterestInv'
  OBVIOUS
<1>1. MeshTypeOK /\ \A l \in dials : Told(l) <=> WantedFromMesh(l[1])
  BY DEF InterestInv
<1>2. \A l \in dials : l[1] \in Brokers /\ l[2] \in Brokers
  BY <1>1 DEF MeshTypeOK
<1>3. CASE UNCHANGED meshVars
  BY Zenon, <1>3, <1>1 DEF meshVars, InterestInv, MeshTypeOK, Told, WantedFromMesh, DialsTo
<1>4. ASSUME NEW b \in Brokers, NEW scope \in Origin \cup {NoScope}, ClientSubscribes(b, scope)
      PROVE  InterestInv'
  <2>1. /\ want' = [want EXCEPT ![b] = scope] /\ dials' = dials /\ asks' = asks /\ inbound' = inbound
        /\ seen' = seen /\ source' = source /\ undisturbed' = {} /\ noteMeshInterestChange(b, outbound)
    BY <1>4 DEF ClientSubscribes
  <2>2. outbound \in [dials -> Seq(Items)]
    BY <1>1 DEF MeshTypeOK
  <2>3. /\ outbound' \in [dials -> Seq(Items)]
        /\ \A k \in dials : \/ /\ outbound'[k] = outbound[k]
                               /\ k[1] # b \/ (WantedFromMesh(b)' <=> WantedFromMesh(b))
                            \/ /\ k[1] = b /\ ~ NoControl(outbound'[k])
                               /\ SaysLast(outbound'[k]) <=> WantedFromMesh(b)'
    BY <1>1, <2>1, <2>2, NoteTells, Zenon
  <2>4. MeshTypeOK'
    BY <1>1, <2>1, <2>3 DEF MeshTypeOK
  <2>5. ASSUME NEW c \in Brokers, c # b PROVE WantedFromMesh(c)' <=> WantedFromMesh(c)
    <3>1. want'[c] = want[c]
      BY <1>1, <2>1, <2>5 DEF MeshTypeOK
    <3> QED
      BY Zenon, <2>1, <3>1 DEF WantedFromMesh, DialsTo
  <2>6. ASSUME NEW l \in dials PROVE Told(l)' <=> WantedFromMesh(l[1])'
    <3>1. CASE /\ outbound'[l] = outbound[l]
               /\ l[1] # b \/ (WantedFromMesh(b)' <=> WantedFromMesh(b))
      <4>1. Told(l)' <=> Told(l)
        BY Zenon, <2>1, <3>1 DEF Told
      <4>2. WantedFromMesh(l[1])' <=> WantedFromMesh(l[1])
        BY Zenon, <1>2, <2>5, <3>1
      <4> QED
        BY <1>1, <4>1, <4>2
    <3>2. CASE /\ l[1] = b /\ ~ NoControl(outbound'[l])
               /\ SaysLast(outbound'[l]) <=> WantedFromMesh(b)'
      <4>1. Told(l)' <=> WantedFromMesh(b)'
        BY <3>2 DEF Told
      <4> QED
        BY <3>2, <4>1
    <3> QED
      BY Zenon, <2>3, <3>1, <3>2
  <2> QED
    BY <2>1, <2>4, <2>6 DEF InterestInv
<1>5. ASSUME NEW b \in Brokers, NEW m \in Messages, Publish(b, m)
      PROVE  InterestInv'
  <2> DEFINE calm == IF Settled THEN undisturbed \cup {m} ELSE undisturbed
  <2>1. processMessage(b, m, {}, FALSE, outbound, inbound, calm) /\ UNCHANGED <<dials, want, asks>>
    BY Zenon, <1>5 DEF Publish
  <2>2. source' \in [Messages -> Brokers \cup {Nowhere}]
    BY <1>1, <1>5 DEF Publish, MeshTypeOK
  <2>3. /\ calm \in SUBSET Messages /\ undisturbed \subseteq calm
        /\ outbound \in [dials -> Seq(Items)] /\ inbound \in [dials -> Seq(Messages)]
    BY <1>1 DEF MeshTypeOK
  <2> HIDE DEF calm
  <2> QED
    BY Zenon, <2>1, <2>2, <2>3, ProcessingKeepsInterest
<1>6. ASSUME NEW l \in dials, LinkSubscribes(l)
      PROVE  InterestInv'
  <2> DEFINE rest == [outbound EXCEPT ![l] = Tail(@)]
  <2>1. /\ outbound[l] # <<>> /\ IsControl(Head(outbound[l]))
        /\ asks' = IF Head(outbound[l]) = "SUBSCRIBE" THEN asks \cup {l} ELSE asks \ {l}
        /\ dials' = dials /\ want' = want /\ noteMeshInterestChange(l[2], rest) /\ inbound' = inbound
        /\ seen' = seen /\ source' = source /\ undisturbed' = undisturbed
    BY Zenon, <1>6 DEF LinkSubscribes
  <2>2. outbound \in [dials -> Seq(Items)] /\ outbound[l] \in Seq(Items)
    BY <1>1 DEF MeshTypeOK
  <2>3. rest \in [dials -> Seq(Items)] /\ rest[l] = Tail(outbound[l]) /\ \A k \in dials : k # l => rest[k] = outbound[k]
    BY <1>1, <2>1, <2>2, ReadsHead, Zenon
  <2> HIDE DEF rest
  <2>4. /\ outbound' \in [dials -> Seq(Items)]
        /\ \A k \in dials : \/ /\ outbound'[k] = rest[k]
                               /\ k[1] # l[2] \/ (WantedFromMesh(l[2])' <=> WantedFromMesh(l[2]))
                            \/ /\ k[1] = l[2] /\ ~ NoControl(outbound'[k])
                               /\ SaysLast(outbound'[k]) <=> WantedFromMesh(l[2])'
    BY <1>1, <1>2, <2>1, <2>3, NoteTells, Zenon
  <2>5. asks' \subseteq dials
    BY <1>1, <2>1 DEF MeshTypeOK
  <2>6. MeshTypeOK'
    BY Zenon, <1>1, <2>1, <2>4, <2>5 DEF MeshTypeOK
  <2>7. ASSUME NEW c \in Brokers, c # l[2] PROVE WantedFromMesh(c)' <=> WantedFromMesh(c)
    <3>1. \A k \in DialsTo(c) : k # l
      BY <2>7 DEF DialsTo
    <3>2. \A k : k # l => (k \in asks' <=> k \in asks)
      BY <2>1
    <3> QED
      BY Zenon, <2>1, <3>1, <3>2 DEF WantedFromMesh, DialsTo
  <2>8. ASSUME NEW k \in dials, outbound'[k] = rest[k] PROVE Told(k)' <=> Told(k)
    <3>1. CASE k = l
      <4>1. /\ SaysLast(outbound[l]) <=> SaysLast(rest[l]) \/ (Head(outbound[l]) = "SUBSCRIBE" /\ NoControl(rest[l]))
            /\ ~ NoControl(outbound[l])
        BY <2>1, <2>2, <2>3, SaysTail
      <4>2. l \in asks' <=> Head(outbound[l]) = "SUBSCRIBE"
        BY <2>1
      <4>3. Told(l) <=> SaysLast(outbound[l])
        BY <4>1 DEF Told
      <4>4. Told(l)' <=> SaysLast(rest[l]) \/ (Head(outbound[l]) = "SUBSCRIBE" /\ NoControl(rest[l]))
        BY <2>8, <3>1, <4>2 DEF Told
      <4> QED
        BY <3>1, <4>1, <4>3, <4>4
    <3>2. CASE k # l
      BY <2>1, <2>3, <2>8, <3>2 DEF Told
    <3> QED
      BY <3>1, <3>2
  <2>9. ASSUME NEW k \in dials PROVE Told(k)' <=> WantedFromMesh(k[1])'
    <3>1. CASE /\ outbound'[k] = rest[k]
               /\ k[1] # l[2] \/ (WantedFromMesh(l[2])' <=> WantedFromMesh(l[2]))
      <4>1. WantedFromMesh(k[1])' <=> WantedFromMesh(k[1])
        BY <1>2, <2>7, <3>1
      <4> QED
        BY <1>1, <2>8, <3>1, <4>1
    <3>2. CASE /\ k[1] = l[2] /\ ~ NoControl(outbound'[k])
               /\ SaysLast(outbound'[k]) <=> WantedFromMesh(l[2])'
      <4>1. Told(k)' <=> WantedFromMesh(l[2])'
        BY <3>2 DEF Told
      <4> QED
        BY <3>2, <4>1
    <3> QED
      BY Zenon, <2>4, <3>1, <3>2
  <2> QED
    BY Zenon, <2>1, <2>6, <2>9 DEF InterestInv
<1>7. ASSUME NEW l \in dials, LinkPublishes(l)
      PROVE  InterestInv'
  <2> DEFINE out == [outbound EXCEPT ![l] = Tail(@)]
  <2>1. /\ outbound[l] # <<>> /\ ~ IsControl(Head(outbound[l])) /\ UNCHANGED <<dials, want, asks, source>>
        /\ processMessage(l[2], Head(outbound[l]), {l}, FALSE, out, inbound, undisturbed)
    BY Zenon, <1>7 DEF LinkPublishes
  <2>2. /\ outbound \in [dials -> Seq(Items)] /\ outbound[l] \in Seq(Items) /\ inbound \in [dials -> Seq(Messages)]
        /\ undisturbed \in SUBSET Messages /\ source' \in [Messages -> Brokers \cup {Nowhere}]
    BY <1>1, <2>1 DEF MeshTypeOK
  <2>3. /\ out \in [dials -> Seq(Items)] /\ out[l] = Tail(outbound[l]) /\ \A k \in dials : k # l => out[k] = outbound[k]
        /\ Head(outbound[l]) \in Items
    BY <1>1, <2>1, <2>2, ReadsHead, Zenon
  <2> HIDE DEF out
  <2>4. Head(outbound[l]) \in Messages /\ Head(outbound[l]) # "SUBSCRIBE"
    BY Zenon, <2>1, <2>3 DEF Items, IsControl
  <2>5. /\ SaysLast(out[l]) <=> SaysLast(outbound[l])
        /\ NoControl(out[l]) <=> NoControl(outbound[l])
    BY <2>1, <2>2, <2>3, <2>4, SaysTail
  <2>6. \A k \in dials : /\ SaysLast(out[k]) <=> SaysLast(outbound[k])
                         /\ NoControl(out[k]) <=> NoControl(outbound[k])
    BY Zenon, <2>3, <2>5
  <2> QED
    BY Zenon, <1>2, <2>1, <2>2, <2>3, <2>4, <2>6, ProcessingKeepsInterest
<1>8. ASSUME NEW l \in dials, PeerDelivers(l)
      PROVE  InterestInv'
  <2> DEFINE in == [inbound EXCEPT ![l] = Tail(@)]
  <2>1. /\ inbound[l] # <<>> /\ UNCHANGED <<dials, want, asks, source>>
        /\ processMessage(l[1], Head(inbound[l]), {}, TRUE, outbound, in, undisturbed)
    BY Zenon, <1>8 DEF PeerDelivers
  <2>2. /\ outbound \in [dials -> Seq(Items)] /\ inbound \in [dials -> Seq(Messages)]
        /\ undisturbed \in SUBSET Messages /\ source' \in [Messages -> Brokers \cup {Nowhere}]
    BY <1>1, <2>1 DEF MeshTypeOK
  <2>3. in \in [dials -> Seq(Messages)] /\ Head(inbound[l]) \in Messages
    BY <1>1, <2>1, <2>2, ReadsHead, Zenon
  <2> HIDE DEF in
  <2> QED
    BY Zenon, <1>2, <2>1, <2>2, <2>3, ProcessingKeepsInterest
<1> QED
  BY <1>3, <1>4, <1>5, <1>6, <1>7, <1>8, Zenon DEF MeshNext

(* What its callers see to: m has a source; out and in are the queues without the  *)
(* copy that is read; whoever sent it has it; and calm holds what is undisturbed,  *)
(* and m if it begins in a settled mesh.                                           *)
Takes(b, m, sender, out, in, calm) ==
    /\ source'[m] \in Brokers /\ \A n \in Messages : n # m => source'[n] = source[n]
    /\ \A k \in sender : m \in seen[k[1]]
    /\ \A k \in dials, n \in Messages :
          /\ InQueue(n, out[k]) => InQueue(n, outbound[k])
          /\ InQueue(n, in[k]) => InQueue(n, inbound[k])
          /\ InQueue(n, outbound[k]) => InQueue(n, out[k]) \/ (n = m /\ k[2] = b)
          /\ InQueue(n, inbound[k]) => InQueue(n, in[k]) \/ (n = m /\ k[1] = b)
    /\ calm # {} => \A k \in dials : NoControl(out[k])
    /\ undisturbed \subseteq calm /\ \A n \in calm : n # m => n \in undisturbed
    /\ m \in calm => /\ source'[m] = b \/ m \in seen[source'[m]]
                     /\ PassedOn(m)
                     /\ \A c \in Brokers : m \in seen[c] /\ want[c] = OriginAny => got[c][m] = 1

(* Then processMessage passes m on: the broker is one more that has it, and every  *)
(* link of the broker has a copy, but for those whose other end has it already.    *)
LEMMA ProcessingKeepsCopies ==
    ASSUME InterestInv, MeshInv, CopiesInv,
           NEW b \in Brokers, NEW m \in Messages, NEW sender, NEW isFromPeer \in BOOLEAN,
           NEW out \in [dials -> Seq(Items)], NEW in \in [dials -> Seq(Messages)], NEW calm \in SUBSET Messages,
           Takes(b, m, sender, out, in, calm), processMessage(b, m, sender, isFromPeer, out, in, calm),
           UNCHANGED <<dials, want, asks>>
    PROVE  CopiesInv'
<1> USE DEF Takes
<1>1. MeshTypeOK /\ dials' = dials /\ want' = want /\ asks' = asks
  BY Zenon DEF InterestInv
<1>2. \A k \in dials : k[1] \in Brokers /\ k[2] \in Brokers
  BY Zenon, <1>1 DEF MeshTypeOK
<1>3. /\ seen' = [seen EXCEPT ![b] = @ \cup {m}]
      /\ undisturbed' \subseteq calm
      /\ \A k \in dials : NoControl(outbound'[k]) <=> NoControl(out[k])
      /\ \A k \in dials, n \in Messages :
            /\ InQueue(n, out[k]) => InQueue(n, outbound'[k])
            /\ InQueue(n, outbound'[k]) => InQueue(n, out[k]) \/ (n = m /\ k[1] = b)
            /\ InQueue(n, in[k]) => InQueue(n, inbound'[k])
            /\ InQueue(n, inbound'[k]) => InQueue(n, in[k]) \/ (n = m /\ k[2] = b)
      /\ m \in undisturbed' /\ ~ Repeats(b, m) =>
            \A k \in dials : /\ k[1] = b => InQueue(m, outbound'[k])
                             /\ k[2] = b /\ k \in asks => k \in sender \/ InQueue(m, inbound'[k])
  <2>1. Passes(b, m, sender, out, in, calm)
    BY <1>1, ProcessingPasses, Zenon
  <2> QED
    BY <2>1, Zenon DEF Passes
<1>4. \A c \in Brokers, n \in Messages : n \in seen'[c] <=> n \in seen[c] \/ (c = b /\ n = m)
  BY Zenon, <1>1, <1>3 DEF MeshTypeOK
<1>5. /\ \A n \in Messages, c \in Brokers : n \in seen[c] => source[n] # Nowhere
      /\ \A n \in Messages, k \in dials : /\ InQueue(n, outbound[k]) => n \in seen[k[1]]
                                          /\ InQueue(n, inbound[k]) => n \in seen[k[2]]
      /\ \A n \in undisturbed :
            /\ source[n] \in Brokers /\ n \in seen[source[n]] /\ PassedOn(n)
            /\ \A c \in Brokers : n \in seen[c] /\ want[c] = OriginAny => got[c][n] = 1
  BY Zenon DEF CopiesInv
<1>6. ASSUME NEW n \in Messages, NEW c \in Brokers, n \in seen'[c] PROVE source'[n] # Nowhere
  <2>1. CASE n = m
    BY Zenon, <2>1, MeshAssumption
  <2>2. CASE n # m
    BY Zenon, <1>4, <1>5, <1>6, <2>2
  <2> QED
    BY Zenon, <2>1, <2>2
<1>7. ASSUME NEW n \in Messages, NEW k \in dials
      PROVE  /\ InQueue(n, outbound'[k]) => n \in seen'[k[1]]
             /\ InQueue(n, inbound'[k]) => n \in seen'[k[2]]
  BY <1>2, <1>3, <1>4, <1>5, Zenon
<1>8. undisturbed' # {} => \A k \in dials : NoControl(outbound'[k])
  BY Zenon, <1>3
<1>9. ASSUME NEW n \in undisturbed'
      PROVE  source'[n] \in Brokers /\ n \in seen'[source'[n]]
  <2>1. CASE n = m
    BY Zenon, <1>3, <1>4, <1>9, <2>1
  <2>2. CASE n # m
    BY Zenon, <1>3, <1>4, <1>5, <1>9, <2>2
  <2> QED
    BY Zenon, <2>1, <2>2
<1>10. ASSUME NEW n \in undisturbed', NEW k \in dials
       PROVE  /\ n \in seen'[k[1]] => n \in seen'[k[2]] \/ InQueue(n, outbound'[k])
              /\ k \in asks /\ n \in seen'[k[2]] => n \in seen'[k[1]] \/ InQueue(n, inbound'[k])
  <2>1. n \in Messages /\ n \in calm /\ PassedOn(n)
    <3>1. n \in calm
      BY Zenon, <1>3, <1>10
    <3>2. CASE n = m
      BY Zenon, <3>1, <3>2
    <3>3. CASE n # m
      BY Zenon, <1>5, <3>1, <3>3
    <3> QED
      BY Zenon, <3>1, <3>2, <3>3
  <2>2. /\ n \in seen[k[1]] => n \in seen[k[2]] \/ InQueue(n, outbound[k])
        /\ k \in asks /\ n \in seen[k[2]] => n \in seen[k[1]] \/ InQueue(n, inbound[k])
    BY Zenon, <2>1 DEF PassedOn
  <2>3. /\ InQueue(n, outbound[k]) => InQueue(n, outbound'[k]) \/ (n = m /\ k[2] = b)
        /\ InQueue(n, inbound[k]) => InQueue(n, inbound'[k]) \/ (n = m /\ k[1] = b)
    BY <1>3, <2>1, Zenon
  <2>4. /\ n \in seen[k[1]] => n \in seen'[k[2]] \/ InQueue(n, outbound'[k])
        /\ k \in asks /\ n \in seen[k[2]] => n \in seen'[k[1]] \/ InQueue(n, inbound'[k])
    BY <1>2, <1>4, <2>1, <2>2, <2>3, Zenon
  <2>5. ASSUME n = m, k[1] = b, m \notin seen[b] PROVE InQueue(m, outbound'[k])
    BY Zenon, <1>3, <1>10, <2>5 DEF Repeats
  <2>6. ASSUME n = m, k[2] = b, k \in asks, m \notin seen[b] PROVE m \in seen'[k[1]] \/ InQueue(m, inbound'[k])
    <3>1. k \in sender \/ InQueue(m, inbound'[k])
      BY Zenon, <1>3, <1>10, <2>6 DEF Repeats
    <3> QED
      BY <1>2, <1>4, <3>1, Zenon
  <2>7. n \in seen'[k[1]] => n \in seen'[k[2]] \/ InQueue(n, outbound'[k])
    BY Zenon, <1>2, <1>4, <2>1, <2>4, <2>5
  <2>8. k \in asks /\ n \in seen'[k[2]] => n \in seen'[k[1]] \/ InQueue(n, inbound'[k])
    BY Zenon, <1>2, <1>4, <2>1, <2>4, <2>6
  <2> QED
    BY Zenon, <2>7, <2>8
<1>11. ASSUME NEW n \in undisturbed', NEW c \in Brokers, n \in seen'[c], want[c] = OriginAny
       PROVE  got'[c][n] = 1
  <2>1. n \in Messages /\ n \in calm
    BY Zenon, <1>3, <1>11
  <2>2. n \in seen[c] => got[c][n] = 1
    BY Zenon, <1>5, <1>11, <2>1
  <2>3. CASE Repeats(b, m)
    <3>1. got' = got
      BY Zenon, <2>3 DEF processMessage
    <3>2. n \in seen[c]
      BY Zenon, <1>4, <1>11, <2>1, <2>3 DEF Repeats
    <3> QED
      BY Zenon, <2>2, <3>1, <3>2
  <2>4. CASE ~ Repeats(b, m)
    <3>1. got' = [got EXCEPT ![b][m] = IF Accepts(b, isFromPeer) THEN @ + 1 ELSE @]
      BY <2>4, Zenon DEF processMessage
    <3>2. got \in [Brokers -> [Messages -> {0, 1}]]
      BY Zenon DEF MeshInv
    <3>3. CASE c = b /\ n = m
      <4>1. got[b][m] = 0
        BY Zenon, <2>4 DEF Repeats, MeshInv
      <4>2. Accepts(b, isFromPeer)
        BY Zenon, <1>11, <3>3 DEF Accepts, scopeAccepts, OriginAny
      <4>3. got'[b][m] = got[b][m] + 1
        BY Zenon, <3>1, <3>2, <4>2
      <4>4. got[b][m] + 1 = 1
        BY <4>1
      <4> QED
        BY Zenon, <3>3, <4>3, <4>4
    <3>4. CASE ~ (c = b /\ n = m)
      <4>1. got'[c][n] = got[c][n]
        BY Zenon, <2>1, <3>1, <3>2, <3>4
      <4> QED
        BY Zenon, <1>4, <1>11, <2>1, <2>2, <3>4, <4>1
    <3> QED
      BY Zenon, <3>3, <3>4
  <2> QED
    BY Zenon, <2>3, <2>4
<1> QED
  BY Zenon, <1>1, <1>6, <1>7, <1>8, <1>9, <1>10, <1>11 DEF CopiesInv, PassedOn

(* No message is anywhere in the beginning.                                        *)
LEMMA CopiesStart == MeshInit => CopiesInv
<1> SUFFICES ASSUME MeshInit PROVE CopiesInv
  OBVIOUS
<1>1. \A l \in dials : outbound[l] = <<>> /\ inbound[l] = <<>>
  BY DEF MeshInit
<1>2. DOMAIN <<>> = {}
  OBVIOUS
<1>3. \A l \in dials : \A m : ~ InQueue(m, outbound[l]) /\ ~ InQueue(m, inbound[l])
  BY <1>1, <1>2 DEF InQueue
<1>4. undisturbed = {} /\ \A m \in Messages, b \in Brokers : m \notin seen[b]
  BY DEF MeshInit
<1> QED
  BY <1>3, <1>4, Zenon DEF CopiesInv

(* No step of the mesh loses an undisturbed message on its way.                    *)
LEMMA CopiesKeep == InterestInv /\ MeshInv /\ CopiesInv /\ [MeshNext]_meshVars => CopiesInv'
<1> SUFFICES ASSUME InterestInv, MeshInv, CopiesInv, [MeshNext]_meshVars PROVE CopiesInv'
  OBVIOUS
<1>1. MeshTypeOK
  BY DEF InterestInv
<1>2. \A l \in dials : l[1] \in Brokers /\ l[2] \in Brokers
  BY <1>1 DEF MeshTypeOK
<1>3. /\ \A n \in Messages, c \in Brokers : n \in seen[c] => source[n] # Nowhere
      /\ \A n \in Messages, k \in dials : /\ InQueue(n, outbound[k]) => n \in seen[k[1]]
                                          /\ InQueue(n, inbound[k]) => n \in seen[k[2]]
      /\ undisturbed # {} => \A l \in dials : NoControl(outbound[l])
      /\ \A n \in undisturbed :
            /\ source[n] \in Brokers /\ n \in seen[source[n]] /\ PassedOn(n)
            /\ \A c \in Brokers : n \in seen[c] /\ want[c] = OriginAny => got[c][n] = 1
  BY Zenon DEF CopiesInv
<1>4. /\ outbound \in [dials -> Seq(Items)] /\ inbound \in [dials -> Seq(Messages)]
      /\ undisturbed \in SUBSET Messages /\ source \in [Messages -> Brokers \cup {Nowhere}]
      /\ \A l \in dials : outbound[l] \in Seq(Items) /\ inbound[l] \in Seq(Items)
  BY <1>1, DataAreItems, Zenon DEF MeshTypeOK
<1>5. CASE UNCHANGED meshVars
  BY Zenon, <1>5 DEF meshVars, CopiesInv, PassedOn
<1>6. ASSUME NEW b \in Brokers, NEW scope \in Origin \cup {NoScope}, ClientSubscribes(b, scope)
      PROVE  CopiesInv'
  <2>1. /\ dials' = dials /\ inbound' = inbound /\ seen' = seen /\ source' = source /\ undisturbed' = {}
        /\ noteMeshInterestChange(b, outbound)
    BY <1>6 DEF ClientSubscribes
  <2>2. \A k \in dials, n \in Messages : InQueue(n, outbound'[k]) <=> InQueue(n, outbound[k])
    BY <1>1, <1>4, <2>1, NoteTells, Zenon
  <2> QED
    BY Zenon, <1>3, <2>1, <2>2 DEF CopiesInv
<1>7. ASSUME NEW b \in Brokers, NEW m \in Messages, Publish(b, m)
      PROVE  CopiesInv'
  <2> DEFINE calm == IF Settled THEN undisturbed \cup {m} ELSE undisturbed
  <2>1. /\ processMessage(b, m, {}, FALSE, outbound, inbound, calm) /\ UNCHANGED <<dials, want, asks>>
        /\ source[m] = Nowhere /\ source' = [source EXCEPT ![m] = b]
    BY Zenon, <1>7 DEF Publish
  <2>2. \A c \in Brokers : m \notin seen[c]
    BY Zenon, <1>3, <2>1
  <2>3. PassedOn(m)
    BY Zenon, <1>2, <2>2 DEF PassedOn
  <2>4. source'[m] = b /\ \A n \in Messages : n # m => source'[n] = source[n]
    BY <1>4, <2>1
  <2>5. calm \in SUBSET Messages /\ undisturbed \subseteq calm /\ \A n \in calm : n # m => n \in undisturbed
    BY <1>4
  <2>6. calm # {} => \A k \in dials : NoControl(outbound[k])
    <3>1. CASE Settled
      <4>1. DOMAIN <<>> = {}
        OBVIOUS
      <4> QED
        BY <3>1, <4>1 DEF Settled, NoControl
    <3>2. CASE ~ Settled
      BY Zenon, <1>3, <3>2
    <3> QED
      BY <3>1, <3>2
  <2> HIDE DEF calm
  <2> QED
    <3>1. Takes(b, m, {}, outbound, inbound, calm)
      BY Zenon, <2>2, <2>3, <2>4, <2>5, <2>6 DEF Takes
    <3> QED
      BY Zenon, <1>4, <2>1, <2>5, <3>1, ProcessingKeepsCopies
<1>8. ASSUME NEW l \in dials, LinkSubscribes(l)
      PROVE  CopiesInv'
  <2> DEFINE rest == [outbound EXCEPT ![l] = Tail(@)]
  <2>1. /\ outbound[l] # <<>> /\ IsControl(Head(outbound[l])) /\ dials' = dials
        /\ noteMeshInterestChange(l[2], rest) /\ inbound' = inbound
        /\ seen' = seen /\ source' = source /\ undisturbed' = undisturbed
    BY Zenon, <1>8 DEF LinkSubscribes
  <2>2. rest \in [dials -> Seq(Items)] /\ rest[l] = Tail(outbound[l]) /\ \A k \in dials : k # l => rest[k] = outbound[k]
    BY <1>1, <1>4, <2>1, ReadsHead, Zenon
  <2> HIDE DEF rest
  <2>3. ~ NoControl(outbound[l]) /\ \A n : InQueue(n, Tail(outbound[l])) => InQueue(n, outbound[l])
    BY <1>4, <2>1, SaysTail
  <2>4. \A k \in dials : \A n : InQueue(n, rest[k]) => InQueue(n, outbound[k])
    BY Zenon, <2>2, <2>3
  <2>5. \A k \in dials, n \in Messages : InQueue(n, outbound'[k]) <=> InQueue(n, rest[k])
    BY <1>1, <1>2, <2>1, <2>2, NoteTells, Zenon
  <2>6. undisturbed = {}
    BY Zenon, <1>3, <2>3
  <2> QED
    BY Zenon, <1>3, <2>1, <2>4, <2>5, <2>6 DEF CopiesInv
<1>9. ASSUME NEW l \in dials, LinkPublishes(l)
      PROVE  CopiesInv'
  <2> DEFINE out == [outbound EXCEPT ![l] = Tail(@)]
             m == Head(outbound[l])
  <2>1. /\ outbound[l] # <<>> /\ ~ IsControl(m) /\ dials' = dials /\ want' = want /\ asks' = asks /\ source' = source
        /\ processMessage(l[2], m, {l}, FALSE, out, inbound, undisturbed)
    BY Zenon, <1>9 DEF LinkPublishes
  <2>2. /\ out \in [dials -> Seq(Items)] /\ out[l] = Tail(outbound[l]) /\ \A k \in dials : k # l => out[k] = outbound[k]
        /\ m \in Items
    BY <1>1, <1>4, <2>1, ReadsHead, Zenon
  <2>3. /\ NoControl(outbound[l]) => NoControl(Tail(outbound[l]))
        /\ \A n : InQueue(n, outbound[l]) <=> m = n \/ InQueue(n, Tail(outbound[l]))
    BY <1>4, <2>1, SaysTail
  <2> HIDE DEF out, m
  <2>4. m \in Messages
    BY Zenon, <2>1, <2>2 DEF Items, IsControl
  <2>5. \A k \in dials : \A n : /\ InQueue(n, out[k]) => InQueue(n, outbound[k])
                                /\ InQueue(n, outbound[k]) => InQueue(n, out[k]) \/ (n = m /\ k = l)
    BY Zenon, <2>2, <2>3
  <2>6. m \in seen[l[1]] /\ source'[m] \in Brokers
    <3>1. m \in seen[l[1]]
      BY Zenon, <1>3, <2>3, <2>4
    <3> QED
      BY Zenon, <1>2, <1>3, <1>4, <2>1, <2>4, <3>1
  <2>7. undisturbed # {} => \A k \in dials : NoControl(out[k])
    BY Zenon, <1>3, <2>2, <2>3
  <2>8. l[2] \in Brokers /\ FALSE \in BOOLEAN /\ \A k \in {l} : m \in seen[k[1]]
    BY Zenon, <1>2, <2>6
  <2>9. \A k \in dials, n \in Messages :
           /\ InQueue(n, out[k]) => InQueue(n, outbound[k])
           /\ InQueue(n, inbound[k]) => InQueue(n, inbound[k])
           /\ InQueue(n, outbound[k]) => InQueue(n, out[k]) \/ (n = m /\ k[2] = l[2])
           /\ InQueue(n, inbound[k]) => InQueue(n, inbound[k]) \/ (n = m /\ k[1] = l[2])
    BY <2>5, Zenon
  <2> QED
    <3>1. Takes(l[2], m, {l}, out, inbound, undisturbed)
      BY Zenon, <1>3, <2>1, <2>6, <2>7, <2>8, <2>9 DEF Takes
    <3> QED
      BY Zenon, <1>4, <2>1, <2>2, <2>4, <2>8, <3>1, ProcessingKeepsCopies
<1>10. ASSUME NEW l \in dials, PeerDelivers(l)
       PROVE  CopiesInv'
  <2> DEFINE in == [inbound EXCEPT ![l] = Tail(@)]
             m == Head(inbound[l])
  <2>1. /\ inbound[l] # <<>> /\ dials' = dials /\ want' = want /\ asks' = asks /\ source' = source
        /\ processMessage(l[1], m, {}, TRUE, outbound, in, undisturbed)
    BY Zenon, <1>10 DEF PeerDelivers
  <2>2. /\ in \in [dials -> Seq(Messages)] /\ in[l] = Tail(inbound[l]) /\ \A k \in dials : k # l => in[k] = inbound[k]
        /\ m \in Messages
    BY <1>1, <1>4, <2>1, ReadsHead, Zenon
  <2>3. \A n : InQueue(n, inbound[l]) <=> m = n \/ InQueue(n, Tail(inbound[l]))
    BY <1>4, <2>1, SaysTail
  <2> HIDE DEF in, m
  <2>4. \A k \in dials : \A n : /\ InQueue(n, in[k]) => InQueue(n, inbound[k])
                                /\ InQueue(n, inbound[k]) => InQueue(n, in[k]) \/ (n = m /\ k = l)
    BY Zenon, <2>2, <2>3
  <2>5. source'[m] \in Brokers
    <3>1. m \in seen[l[2]]
      BY Zenon, <1>3, <2>2, <2>3
    <3> QED
      BY Zenon, <1>2, <1>3, <1>4, <2>1, <2>2, <3>1
  <2>6. l[1] \in Brokers /\ TRUE \in BOOLEAN /\ \A k \in {} : m \in seen[k[1]]
    BY <1>2
  <2>7. \A k \in dials, n \in Messages :
           /\ InQueue(n, outbound[k]) => InQueue(n, outbound[k])
           /\ InQueue(n, in[k]) => InQueue(n, inbound[k])
           /\ InQueue(n, outbound[k]) => InQueue(n, outbound[k]) \/ (n = m /\ k[2] = l[1])
           /\ InQueue(n, inbound[k]) => InQueue(n, in[k]) \/ (n = m /\ k[1] = l[1])
    BY <2>4, Zenon
  <2> QED
    <3>1. Takes(l[1], m, {}, outbound, in, undisturbed)
      BY Zenon, <1>3, <2>1, <2>5, <2>6, <2>7 DEF Takes
    <3> QED
      BY Zenon, <1>4, <2>1, <2>2, <2>6, <3>1, ProcessingKeepsCopies
<1> QED
  BY <1>5, <1>6, <1>7, <1>8, <1>9, <1>10, Zenon DEF MeshNext
--------------------------------------------------------------------------------
(* When all has arrived, a link is subscribed just when the broker that dialed has *)
(* an interest, and no copy is left.                                               *)
LEMMA SettledLinks ==
    ASSUME InterestInv, Settled
    PROVE  /\ \A l \in dials : l[1] \in Brokers /\ l[2] \in Brokers
           /\ \A l \in dials : l \in asks <=> WantedFromMesh(l[1])
           /\ \A l \in dials : \A m : ~ InQueue(m, outbound[l]) /\ ~ InQueue(m, inbound[l])
<1>1. DOMAIN <<>> = {}
  OBVIOUS
<1>2. ~ SaysLast(<<>>) /\ NoControl(<<>>) /\ \A m : ~ InQueue(m, <<>>)
  BY <1>1 DEF SaysLast, NoControl, InQueue
<1>3. \A l \in dials : outbound[l] = <<>> /\ inbound[l] = <<>>
  BY DEF Settled
<1>4. \A l \in dials : Told(l) <=> l \in asks
  BY <1>2, <1>3 DEF Told
<1>5. \A l \in dials : l[1] \in Brokers /\ l[2] \in Brokers
  BY DEF InterestInv, MeshTypeOK
<1> QED
  BY Zenon, <1>2, <1>3, <1>4, <1>5 DEF InterestInv

(* Interest follows every path of links.                                           *)
LEMMA InterestArrives ==
    ASSUME InterestInv, Settled, NEW b \in Brokers, Interested(b)
    PROVE  WantedFromMesh(b)
<1> DEFINE S == {c \in Brokers : WantedFromMesh(c)}
<1>1. PICK c \in Brokers : scopeAccepts(want[c], FALSE) /\ DialPath(c, b)
  BY Zenon DEF Interested
<1>2. c \in S
  BY Zenon, <1>1 DEF WantedFromMesh
<1>3. ASSUME NEW h \in dials, h[1] \in S PROVE h[2] \in S
  <2>1. h \in asks /\ h[2] \in Brokers
    BY Zenon, <1>3, SettledLinks
  <2> QED
    BY Zenon, <2>1 DEF WantedFromMesh, DialsTo
<1>4. S \in SUBSET Brokers
  OBVIOUS
<1> HIDE DEF S
<1>5. b \in S
  BY <1>1, <1>2, <1>3, <1>4, ReachesLeast, Zenon DEF DialPath
<1> QED
  BY <1>5 DEF S

(* Every set of numbers that is not empty has a least one.                         *)
LEMMA LeastOf == ASSUME NEW T \in SUBSET Nat, T # {} PROVE \E n \in T : \A m \in T : n <= m
<1>1. \E n \in T : \A m \in T : ~ (<<m, n>> \in OpToRel(<, Nat))
  BY WFMin, NatLessThanWellFounded, Zenon
<1>2. \A m, n \in Nat : m < n => <<m, n>> \in OpToRel(<, Nat)
  BY Zenon DEF OpToRel
<1>3. \E n \in T : \A m \in T : ~ (m < n)
  BY <1>1, <1>2, Zenon
<1> HIDE <1>1, <1>2
<1> QED
  BY <1>3

(* Interest at x comes from somewhere.  Of the interested brokers with a path to x *)
(* take one that the fewest brokers have a path to.  Its interest is its own       *)
(* client's, or it is that of a broker that dialed it; the latter has the same     *)
(* brokers behind it, the former among them, and so is in a circle.                *)
LEMMA InterestHasASource ==
    ASSUME InterestInv, Settled, NEW x \in Brokers, WantedFromMesh(x)
    PROVE  Interested(x) \/ \E b \in Brokers : InCircle(b) /\ DialPath(b, x)
<1> DEFINE A == {b \in Brokers : WantedFromMesh(b) /\ DialPath(b, x)}
           Behind(b) == {c \in Brokers : DialPath(c, b)}
           T == {Cardinality(Behind(b)) : b \in A}
<1>1. /\ \A b \in Brokers : DialPath(b, b)
      /\ \A b, c, d \in Brokers : DialPath(b, c) /\ DialPath(c, d) => DialPath(b, d)
      /\ \A l \in dials : l[1] \in Brokers /\ l[2] \in Brokers /\ DialPath(l[1], l[2])
  BY ReachesOn, SettledLinks, Zenon DEF DialPath
<1>2. x \in A
  BY <1>1
<1>3. \A b \in Brokers : IsFiniteSet(Behind(b)) /\ Cardinality(Behind(b)) \in Nat
  <2>1. \A b : Behind(b) \in SUBSET Brokers
    OBVIOUS
  <2> HIDE DEF Behind
  <2>2. \A b : IsFiniteSet(Behind(b))
    BY <2>1, MeshAssumption, FS_Subset, Zenon
  <2> QED
    BY <2>2, FS_CardinalityType, Zenon
<1>4. T \in SUBSET Nat /\ T # {}
  BY <1>2, <1>3, Zenon
<1>5. PICK b \in A : \A c \in A : Cardinality(Behind(b)) <= Cardinality(Behind(c))
  <2>1. PICK n \in T : \A m \in T : n <= m
    <3> HIDE DEF T
    <3> QED
      BY <1>4, LeastOf, Zenon
  <2> QED
    BY <2>1, Zenon
<1>6. b \in Brokers /\ WantedFromMesh(b) /\ DialPath(b, x)
  BY <1>5
<1>7. CASE scopeAccepts(want[b], FALSE)
  BY Zenon, <1>6, <1>7 DEF Interested
<1>8. CASE ~ scopeAccepts(want[b], FALSE)
  <2>1. PICK k \in dials : k[2] = b /\ k \in asks
    BY Zenon, <1>6, <1>8 DEF WantedFromMesh, DialsTo
  <2>2. k[1] \in Brokers /\ WantedFromMesh(k[1]) /\ DialPath(k[1], b)
    BY <1>1, <2>1, SettledLinks
  <2>3. DialPath(k[1], x)
    BY <1>1, <1>6, <2>2
  <2>4. Cardinality(Behind(b)) <= Cardinality(Behind(k[1]))
    BY <1>5, <2>2, <2>3
  <2>5. Behind(k[1]) \in SUBSET Behind(b)
    BY <1>1, <1>6, <2>2
  <2>6. b \in Behind(b)
    BY <1>1, <1>6
  <2> HIDE DEF A, Behind, T
  <2>7. /\ Cardinality(Behind(k[1])) <= Cardinality(Behind(b))
        /\ Cardinality(Behind(b)) = Cardinality(Behind(k[1])) => Behind(b) = Behind(k[1])
    BY <1>3, <1>6, <2>5, FS_Subset, Zenon
  <2>8. Cardinality(Behind(b)) \in Nat /\ Cardinality(Behind(k[1])) \in Nat
    BY <1>3, <1>6, <2>2
  <2>9. Cardinality(Behind(b)) = Cardinality(Behind(k[1]))
    BY <2>4, <2>7, <2>8
  <2>10. b \in Behind(k[1])
    BY <2>6, <2>7, <2>9
  <2>11. DialPath(k[2], k[1]) /\ k \in DialedBy(k[1])
    BY <2>1, <2>10 DEF Behind, DialedBy
  <2> QED
    BY Zenon, <2>2, <2>3, <2>11 DEF InCircle
<1> QED
  BY Zenon, <1>7, <1>8

(* In every mesh, when all that was said has arrived: interest reaches every       *)
(* broker that some interested client's broker has a path of links to, and where   *)
(* it is left over without such a client, there is a circle of links behind it.    *)
(* This is the noteMeshInterestChange chain, for any number of hops and any order  *)
(* in which subscriptions crossed.                                                 *)
THEOREM MeshInterestCorrect == MeshSpec => []InterestCrossesTheMesh
<1>1. InterestInv => InterestCrossesTheMesh
  <2> SUFFICES ASSUME InterestInv, Settled, NEW l \in dials
               PROVE  /\ Interested(l[1]) => l \in asks
                      /\ l \in asks => Interested(l[1]) \/ \E b \in Brokers : InCircle(b) /\ DialPath(b, l[1])
    BY DEF InterestCrossesTheMesh
  <2>1. l[1] \in Brokers /\ (l \in asks <=> WantedFromMesh(l[1]))
    BY SettledLinks
  <2> QED
    BY <2>1, InterestArrives, InterestHasASource
<1> QED
  BY <1>1, InterestStarts, InterestKeeps, PTL DEF MeshSpec

(* In every mesh: a message published while it was settled, which met no full      *)
(* queue and no change of interest, has been delivered wherever a route leads and  *)
(* both origins are wanted, once no copy is left on its way.                       *)
THEOREM RoutesCorrect == MeshSpec => []RoutesAreTaken
<1>1. InterestInv /\ CopiesInv => RoutesAreTaken
  <2> SUFFICES ASSUME InterestInv, CopiesInv, Settled, NEW m \in undisturbed, NEW b \in Brokers,
                      want[b] = OriginAny, Route(source[m], b)
               PROVE  got[b][m] = 1
    BY DEF RoutesAreTaken
  <2> DEFINE S == {c \in Brokers : m \in seen[c]}
  <2>1. source[m] \in S /\ PassedOn(m)
    BY DEF CopiesInv
  <2>2. ASSUME NEW h \in Hops, h[1] \in S PROVE h[2] \in S
    <3>1. CASE h \in dials
      BY <2>1, <2>2, <3>1, SettledLinks DEF PassedOn
    <3>2. CASE h \notin dials
      <4>1. PICK k \in dials : Interested(k[1]) /\ h = <<k[2], k[1]>>
        BY <3>2 DEF Hops
      <4>2. k \in asks /\ k[1] \in Brokers
        BY <4>1, SettledLinks, InterestArrives
      <4>3. m \in seen[k[2]]
        BY <2>2, <4>1
      <4>4. m \in seen[k[1]]
        BY <2>1, <4>2, <4>3, SettledLinks DEF PassedOn
      <4> QED
        BY <4>1, <4>2, <4>4
    <3> QED
      BY <3>1, <3>2
  <2>3. S \in SUBSET Brokers
    OBVIOUS
  <2>4. b \in S
    <3> HIDE DEF S
    <3> QED
      BY <2>1, <2>2, <2>3, ReachesLeast, Zenon DEF Route
  <2> QED
    BY <2>4 DEF CopiesInv
<1> QED
  BY <1>1, NothingDelivered, StepsKeepInv, InterestStarts, InterestKeeps, CopiesStart, CopiesKeep, PTL DEF MeshSpec
================================================================================
