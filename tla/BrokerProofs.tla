------------------------------ MODULE BrokerProofs ------------------------------
(* The two windows remember the last MaxHistorySize ids and fewer than twice   *)
(* as many, for any set of ids and any window size; and the broker's           *)
(* invariants for any clients, topics and limits.                              *)
EXTENDS Broker, FiniteSetTheorems, TLAPS

(* What adding an unseen id does to the fill of the current window.            *)
LEMMA FillGrows ==
    ASSUME WindowInv, NEW id \in Ids, ~ Seen(id)
    PROVE  /\ IsFiniteSet(m_seenCurrent \cup {id})
           /\ Fill(id) = Cardinality(m_seenCurrent) + 1
           /\ Cardinality(m_seenCurrent) \in Nat
  BY FS_AddElement, FS_CardinalityType DEF WindowInv, Seen, Fill

(* Accepting an id makes every other id one older and this one the newest.     *)
LEMMA AcceptKeepsInv ==
    ASSUME WindowInv, NEW id \in Ids, Accept(id)
    PROVE  WindowInv'
<1> DEFINE fill == Cardinality(m_seenCurrent)
           window == m_seenCurrent \cup {id}
<1>1. /\ IsFiniteSet(window)
      /\ Cardinality(window) = fill + 1
      /\ fill \in Nat /\ fill < MaxHistorySize
      /\ MaxHistorySize \in Nat \ {0} /\ Never = 2 * MaxHistorySize
  BY FillGrows, HistoryAssumption DEF Accept, Fill, WindowInv, Never
<1>2. /\ age' \in [Ids -> 0 .. Never]
      /\ \A i \in Ids : age'[i] = IF i = id THEN 0
                                  ELSE IF age[i] < Never THEN age[i] + 1 ELSE Never
      /\ age \in [Ids -> 0 .. Never]
  BY <1>1 DEF Accept, Remember, WindowInv, WindowTypeOK
<1>3. \A i \in Ids : /\ i \in m_seenCurrent <=> age[i] < fill
                     /\ i \in m_seenPrevious <=> age[i] \in fill .. fill + MaxHistorySize - 1
  BY DEF WindowInv
<1>4. Cardinality({}) = 0 /\ IsFiniteSet({})
  BY FS_EmptySet
<1> HIDE DEF fill
<1>5. \A i \in Ids : i \in window <=> age'[i] < fill + 1
  BY <1>1, <1>2, <1>3
<1>6. CASE fill + 1 >= MaxHistorySize
  <2>1. m_seenCurrent' = {} /\ m_seenPrevious' = window
    BY <1>1, <1>6 DEF Accept, Remember, Fill
  <2>2. Cardinality(m_seenCurrent') = 0
    BY <1>4, <2>1
  <2>3. fill + 1 = MaxHistorySize
    BY <1>1, <1>6
  <2>4. \A i \in Ids : /\ i \in m_seenCurrent' <=> age'[i] < 0
                       /\ i \in m_seenPrevious' <=> age'[i] \in 0 .. 0 + MaxHistorySize - 1
    BY <1>1, <1>2, <1>5, <2>1, <2>3
  <2>5. QED
    BY <1>1, <1>2, <1>4, <2>1, <2>2, <2>3, <2>4 DEF WindowInv, WindowTypeOK
<1>7. CASE ~ (fill + 1 >= MaxHistorySize)
  <2>1. m_seenCurrent' = window /\ m_seenPrevious' = m_seenPrevious
    BY <1>1, <1>7 DEF Accept, Remember, Fill
  <2>2. id \notin m_seenPrevious
    BY DEF Accept, Seen
  <2>3. \A i \in Ids : i \in m_seenPrevious' <=>
                          age'[i] \in fill + 1 .. fill + 1 + MaxHistorySize - 1
    BY <1>1, <1>2, <1>3, <1>7, <2>1, <2>2
  <2>4. QED
    BY <1>1, <1>2, <1>5, <1>7, <2>1, <2>3 DEF WindowInv, WindowTypeOK
<1>8. QED
  BY <1>6, <1>7

(* The current window is never full between two calls, and an id's window      *)
(* tells its age.                                                              *)
THEOREM WindowsTellAge == WindowSpec => []WindowInv
<1>1. WindowInit => WindowInv
  BY HistoryAssumption, FS_EmptySet DEF WindowInit, WindowInv, WindowTypeOK, Never
<1>2. WindowInv /\ [WindowNext]_windowVars => WindowInv'
  <2>1. SUFFICES ASSUME WindowInv, [WindowNext]_windowVars PROVE WindowInv'
    OBVIOUS
  <2>2. CASE UNCHANGED windowVars
    BY <2>1, <2>2 DEF windowVars, WindowInv, WindowTypeOK
  <2>3. ASSUME NEW id \in Ids, isDuplicate(id) PROVE WindowInv'
    BY <2>1, <2>2, <2>3, AcceptKeepsInv DEF isDuplicate, Refuse
  <2>4. QED
    BY <2>1, <2>2, <2>3 DEF WindowNext
<1>3. QED
  BY <1>1, <1>2, PTL DEF WindowSpec

(* Loop protection for any window size: isDuplicate recognizes an id as long   *)
(* as fewer than MaxHistorySize others have been accepted after it.            *)
THEOREM RepeatsRecognized == WindowSpec => []RecentRemembered
<1>1. WindowInv => RecentRemembered
  <2>1. SUFFICES ASSUME WindowInv, NEW id \in Ids, age[id] < MaxHistorySize PROVE Seen(id)
    BY DEF RecentRemembered
  <2>2. Cardinality(m_seenCurrent) \in Nat /\ age[id] \in Nat
    BY <2>1, FS_CardinalityType, HistoryAssumption DEF WindowInv, WindowTypeOK, Never
  <2>3. QED
    BY <2>1, <2>2, HistoryAssumption DEF WindowInv, Seen
<1>2. QED
  BY <1>1, WindowsTellAge, PTL

(* The memory is bounded: an id with 2 * MaxHistorySize - 1 later ones is      *)
(* forgotten, so the windows never hold more than their sets were sized for.   *)
THEOREM MemoryBounded == WindowSpec => []OldForgotten
<1>1. WindowInv => OldForgotten
  <2>1. SUFFICES ASSUME WindowInv PROVE OldForgotten
    OBVIOUS
  <2>2. Cardinality(m_seenCurrent) \in Nat /\ \A id \in Ids : age[id] \in Nat
    BY <2>1, FS_CardinalityType, HistoryAssumption DEF WindowInv, WindowTypeOK, Never
  <2>3. QED
    BY <2>1, <2>2, HistoryAssumption DEF WindowInv, Seen, OldForgotten, Never
<1>2. QED
  BY <1>1, WindowsTellAge, PTL

(* Together: isDuplicate remembers as much as its windows were sized for, and  *)
(* no more.                                                                    *)
THEOREM WindowsKeepTheirSize == WindowSpec => []WindowsAsSized
BY RepeatsRecognized, MemoryBounded, PTL DEF WindowsAsSized
--------------------------------------------------------------------------------
(* A subscription that is not there accepts nothing.                           *)
LEMMA NoScopeIsNone == NoScope \notin Origin /\ \A b \in BOOLEAN : ~ scopeAccepts(NoScope, b)
  BY DEF NoScope, Origin, OriginAny, OriginLocal, OriginMesh, scopeAccepts

(* A step that moves no topic into or out of the mesh subscriptions, and       *)
(* leaves the interest alone, keeps the interest invariant.                    *)
LEMMA InterestSame ==
    ASSUME InterestInv, UNCHANGED interestVars,
           \A t \in Topics : HasMeshSubscriber(subs', t) <=> HasMeshSubscriber(subs, t)
    PROVE  InterestInv'
<1>1. InterestMatchesSubscriptions'
  BY Zenon, BrokerAssumption DEF InterestInv, InterestMatchesSubscriptions, interestVars,
     isPropagatableTopic
<1>2. QED
  BY Zenon, <1>1 DEF InterestInv, interestVars, UpdatesCarryInterest, isPropagatableTopic

(* A topic that gains its first mesh subscriber.                               *)
LEMMA InterestGains ==
    ASSUME InterestInv, NEW topic \in Topics, noteTopicSubscribed(topic),
           ~ HasMeshSubscriber(subs, topic),
           \A t \in Topics : HasMeshSubscriber(subs', t) <=>
                                HasMeshSubscriber(subs, t) \/ t = topic
    PROVE  InterestInv'
<1>1. CASE topic = WILDCARD_TOPIC
  <2>1. /\ m_interestWildcard' = TRUE
        /\ linkSubs' = linkSubs \cup {WILDCARD_TOPIC}
        /\ UNCHANGED <<m_interest, m_interestSaturated>>
    BY Zenon, <1>1 DEF noteTopicSubscribed, isPropagatableTopic, InterestInv,
                InterestMatchesSubscriptions
  <2>2. InterestMatchesSubscriptions'
    BY Zenon, <1>1, <2>1 DEF InterestInv, InterestMatchesSubscriptions, isPropagatableTopic
  <2>3. UpdatesCarryInterest'
    BY <1>1, <2>1 DEF InterestInv, UpdatesCarryInterest
  <2>4. QED
    BY Zenon, <1>1, <2>1, <2>2, <2>3 DEF InterestInv, isPropagatableTopic
<1>2. CASE /\ isPropagatableTopic(topic)
           /\ ~ m_interestSaturated
           /\ topic \notin m_interest
  <2>1. /\ topic # WILDCARD_TOPIC
        /\ m_interest' = m_interest \cup {topic}
        /\ m_interestSaturated' = (Cardinality(m_interest') > MaxInterestTopics)
        /\ linkSubs' = linkSubs \cup {IF m_interestSaturated' THEN WILDCARD_TOPIC ELSE topic}
        /\ UNCHANGED m_interestWildcard
    BY Zenon, <1>2 DEF noteTopicSubscribed, isPropagatableTopic
  <2>2. /\ IsFiniteSet(m_interest')
        /\ Cardinality(m_interest') = Cardinality(m_interest) + 1
        /\ Cardinality(m_interest) \in Nat
        /\ Cardinality(m_interest) <= MaxInterestTopics
    BY <1>2, <2>1, BrokerAssumption, FS_AddElement, FS_CardinalityType DEF InterestInv
  <2>3. InterestMatchesSubscriptions'
    BY Zenon, <1>2, <2>1, BrokerAssumption DEF InterestInv, InterestMatchesSubscriptions,
       isPropagatableTopic
  <2>4. UpdatesCarryInterest'
    BY <1>2, <2>1 DEF InterestInv, UpdatesCarryInterest
  <2>5. /\ m_interestSaturated' <=> Cardinality(m_interest') > MaxInterestTopics
        /\ m_interestSaturated' \in BOOLEAN
    <3> DEFINE past == Cardinality(m_interest') > MaxInterestTopics
    <3>1. past \in BOOLEAN
      BY <2>2, BrokerAssumption
    <3>2. m_interestSaturated' = past
      BY <2>1
    <3> HIDE DEF past
    <3>3. (m_interestSaturated' <=> past) /\ m_interestSaturated' \in BOOLEAN
      BY <3>1, <3>2, Zenon
    <3>4. QED
      BY <3>3 DEF past
  <2>6. /\ m_interest' \subseteq {t \in Topics : isPropagatableTopic(t)}
        /\ linkSubs' \subseteq Topics
        /\ m_interestWildcard' \in BOOLEAN
    BY <1>2, <2>1, BrokerAssumption DEF InterestInv
  <2>7. Cardinality(m_interest') <= MaxInterestTopics + 1
    BY <2>2, BrokerAssumption
  <2>8. QED
    BY <2>2, <2>3, <2>4, <2>5, <2>6, <2>7 DEF InterestInv
<1>3. CASE /\ topic # WILDCARD_TOPIC
           /\ isPropagatableTopic(topic) => m_interestSaturated \/ topic \in m_interest
  <2>1. UNCHANGED interestVars
    BY <1>3 DEF noteTopicSubscribed
  <2>2. InterestMatchesSubscriptions'
    BY Zenon, <1>3, <2>1, BrokerAssumption DEF InterestInv, InterestMatchesSubscriptions, interestVars,
       isPropagatableTopic
  <2>3. QED
    BY Zenon, <2>1, <2>2 DEF InterestInv, interestVars, UpdatesCarryInterest, isPropagatableTopic
<1>4. QED
  BY <1>1, <1>2, <1>3 DEF noteTopicSubscribed

(* Topics that lose their last mesh subscriber.                                *)
LEMMA InterestLoses ==
    ASSUME InterestInv, NEW T \in SUBSET Topics, noteTopicUnsubscribed(T),
           \A t \in Topics : HasMeshSubscriber(subs', t) <=>
                                HasMeshSubscriber(subs, t) /\ t \notin T
    PROVE  InterestInv'
<1> DEFINE gone == IF m_interestSaturated THEN {}
                   ELSE {t \in T : isPropagatableTopic(t)} \cap m_interest
           narrows == WILDCARD_TOPIC \in T /\ m_interestWildcard
<1>1. /\ m_interest' = m_interest \ gone
      /\ m_interestWildcard' = (m_interestWildcard /\ ~ narrows)
      /\ linkSubs' = (IF narrows THEN Narrowed ELSE linkSubs) \ gone
      /\ UNCHANGED m_interestSaturated
  BY DEF noteTopicUnsubscribed
<1>2. WILDCARD_TOPIC \notin m_interest
  BY Zenon DEF InterestInv, isPropagatableTopic
<1>3. InterestMatchesSubscriptions'
  BY Zenon, <1>1, <1>2, BrokerAssumption DEF InterestInv, InterestMatchesSubscriptions,
     isPropagatableTopic
<1>4. UpdatesCarryInterest'
  BY <1>1, <1>2 DEF InterestInv, UpdatesCarryInterest, Narrowed
<1>5. /\ IsFiniteSet(m_interest')
      /\ Cardinality(m_interest') <= Cardinality(m_interest)
      /\ Cardinality(m_interest') \in Nat /\ Cardinality(m_interest) \in Nat
  BY <1>1, FS_Subset, FS_CardinalityType DEF InterestInv
<1>6. m_interestSaturated' <=> Cardinality(m_interest') > MaxInterestTopics
  <2>1. CASE m_interestSaturated
    BY <1>1, <2>1 DEF InterestInv
  <2>2. CASE ~ m_interestSaturated
    BY <1>1, <1>5, <2>2, BrokerAssumption DEF InterestInv
  <2>3. QED
    BY <2>1, <2>2
<1>7. linkSubs' \subseteq Topics /\ m_interestWildcard' \in BOOLEAN
  BY <1>1 DEF InterestInv, Narrowed
<1>8. m_interest' \subseteq {t \in Topics : isPropagatableTopic(t)}
  BY <1>1 DEF InterestInv
<1>9. Cardinality(m_interest') <= MaxInterestTopics + 1
  BY <1>5, BrokerAssumption DEF InterestInv
<1>10. QED
  BY <1>1, <1>3, <1>4, <1>5, <1>6, <1>7, <1>8, <1>9 DEF InterestInv
--------------------------------------------------------------------------------
(* Whatever bytes a SUBSCRIBE carries, they decode to a scope.                 *)
LEMMA DecodedScope == \A p : decodeSubscribeScope(p) \in Origin
<1>1. ASSUME NEW S, S \subseteq OriginAny, S # {} PROVE S \in Origin
  <2>1. CASE "local" \in S /\ "mesh" \in S
    BY Zenon, <1>1, <2>1 DEF Origin, OriginAny
  <2>2. CASE "local" \notin S
    <3>1. S = {"mesh"}
      BY Zenon, <1>1, <2>2 DEF OriginAny
    <3>2. QED
      BY <3>1 DEF Origin, OriginMesh
  <2>3. CASE "mesh" \notin S
    <3>1. S = {"local"}
      BY Zenon, <1>1, <2>3 DEF OriginAny
    <3>2. QED
      BY <3>1 DEF Origin, OriginLocal
  <2>4. QED
    BY <2>1, <2>2, <2>3
<1>2. \A b : OriginBits(b) \subseteq OriginAny
  BY DEF OriginBits
<1>3. OriginAny \in Origin
  BY DEF Origin
<1>4. QED
  BY <1>1, <1>2, <1>3 DEF decodeSubscribeScope, NoScope

(* What one changed scope changes.                                             *)
LEMMA WithScopeFacts ==
    ASSUME subs \in SubscriptionMaps, NEW c \in Clients, NEW t \in Topics,
           NEW s \in Origin \cup {NoScope}, subs' = WithScope(subs, c, t, s)
    PROVE  /\ subs' \in SubscriptionMaps
           /\ \A d \in Clients, u \in Topics :
                 subs'[d][u] = IF d = c /\ u = t THEN s ELSE subs[d][u]
           /\ \A d \in Clients : SubscriptionsOf(subs', d) =
                 IF d # c THEN SubscriptionsOf(subs, d)
                 ELSE IF s = NoScope THEN SubscriptionsOf(subs, d) \ {t}
                                     ELSE SubscriptionsOf(subs, d) \cup {t}
           /\ \A u \in Topics : u # t =>
                 (HasMeshSubscriber(subs', u) <=> HasMeshSubscriber(subs, u))
<1>1. subs' = [d \in Clients |-> IF d = c THEN [u \in Topics |-> IF u = t THEN s ELSE subs[d][u]]
                                         ELSE subs[d]]
  BY Zenon DEF WithScope, SubscriptionMaps
<1>2. subs' \in SubscriptionMaps
  BY <1>1 DEF SubscriptionMaps
<1>3. \A d \in Clients, u \in Topics :
         subs'[d][u] = IF d = c /\ u = t THEN s ELSE subs[d][u]
  BY <1>1 DEF SubscriptionMaps
<1>4. \A d \in Clients : SubscriptionsOf(subs', d) =
         IF d # c THEN SubscriptionsOf(subs, d)
         ELSE IF s = NoScope THEN SubscriptionsOf(subs, d) \ {t}
                             ELSE SubscriptionsOf(subs, d) \cup {t}
  BY <1>3 DEF SubscriptionsOf
<1>5. \A u \in Topics : u # t =>
         (HasMeshSubscriber(subs', u) <=> HasMeshSubscriber(subs, u))
  BY Zenon, <1>3 DEF HasMeshSubscriber
<1>6. QED
  BY <1>2, <1>3, <1>4, <1>5

(* What forgetting some clients changes.                                       *)
LEMMA WithoutFacts ==
    ASSUME subs \in SubscriptionMaps, NEW C \in SUBSET Clients, subs' = Without(subs, C)
    PROVE  /\ subs' \in SubscriptionMaps
           /\ \A d \in Clients, u \in Topics :
                 subs'[d][u] = IF d \in C THEN NoScope ELSE subs[d][u]
           /\ \A d \in Clients : SubscriptionsOf(subs', d) =
                 IF d \in C THEN {} ELSE SubscriptionsOf(subs, d)
           /\ \A u \in Topics : HasMeshSubscriber(subs', u) => HasMeshSubscriber(subs, u)
<1>1. /\ subs' \in SubscriptionMaps
      /\ \A d \in Clients, u \in Topics :
            subs'[d][u] = IF d \in C THEN NoScope ELSE subs[d][u]
  BY DEF Without, SubscriptionMaps
<1>2. QED
  BY Zenon, <1>1, NoScopeIsNone DEF SubscriptionsOf, HasMeshSubscriber

(* noteMeshInterestChange and removeClient keep the interest invariant.        *)
LEMMA ChangeKeepsInterest ==
    ASSUME InterestInv, subs \in SubscriptionMaps, NEW c \in Clients, NEW t \in Topics,
           NEW s \in Origin \cup {NoScope}, subs' = WithScope(subs, c, t, s),
           noteMeshInterestChange(t)
    PROVE  InterestInv'
<1>1. \A u \in Topics : u # t =>
         (HasMeshSubscriber(subs', u) <=> HasMeshSubscriber(subs, u))
  BY WithScopeFacts
<1>2. CASE HasMeshSubscriber(subs', t) = HasMeshSubscriber(subs, t) /\ UNCHANGED interestVars
  BY <1>1, <1>2, InterestSame
<1>3. CASE /\ HasMeshSubscriber(subs', t) /\ ~ HasMeshSubscriber(subs, t)
           /\ noteTopicSubscribed(t)
  BY <1>1, <1>3, InterestGains
<1>4. CASE /\ HasMeshSubscriber(subs, t) /\ ~ HasMeshSubscriber(subs', t)
           /\ noteTopicUnsubscribed({t})
  <2>1. {t} \in SUBSET Topics
    OBVIOUS
  <2>2. \A u \in Topics : HasMeshSubscriber(subs', u) <=>
                              HasMeshSubscriber(subs, u) /\ u \notin {t}
    BY <1>1, <1>4
  <2>3. QED
    BY <1>4, <2>1, <2>2, InterestLoses
<1>5. QED
  BY <1>2, <1>3, <1>4 DEF noteMeshInterestChange

(* removeClient and the withdrawals that follow it keep the interest in step.  *)
LEMMA RemovalKeepsInterest ==
    ASSUME InterestInv, subs \in SubscriptionMaps, NEW C \in SUBSET Clients, removeClient(C)
    PROVE  InterestInv'
<1> DEFINE lost == {t \in Topics : HasMeshSubscriber(subs, t) /\ ~ HasMeshSubscriber(subs', t)}
<1>1. subs' = Without(subs, C) /\ noteTopicUnsubscribed(lost)
  BY DEF removeClient
<1>2. \A t \in Topics : HasMeshSubscriber(subs', t) <=>
                            HasMeshSubscriber(subs, t) /\ t \notin lost
  BY <1>1, WithoutFacts
<1>3. lost \in SUBSET Topics
  OBVIOUS
<1> HIDE DEF lost
<1>4. QED
  BY <1>1, <1>2, <1>3, InterestLoses
--------------------------------------------------------------------------------
(* No control frame but the statistics report carries the statistics key.      *)
LEMMA ControlFrames ==
    ASSUME NEW c
    PROVE  /\ \A f \in Asked(c) : f[2] # SYS_STATS
           /\ \A f \in Asked(c) \cup {<<c, "HEARTBEAT_ACK">>} : f[2] # SYS_STATS
           /\ \A L : \A f \in Asked(c) \cup {<<l, "UNLINK">> : l \in L} : f[2] # SYS_STATS
  BY DEF Asked, SYS_STATS

(* A step that sends no statistics sends them to nobody else.                  *)
LEMMA NoStatsSent ==
    ASSUME \A f \in sent' : f[2] # SYS_STATS
    PROVE  StatsStayLocal'
  BY DEF StatsStayLocal, SYS_STATS

(* A step that changes no subscription and forgets no session.                 *)
LEMMA SessionSame ==
    ASSUME SessionInv, UNCHANGED subs, m_clients \subseteq m_clients',
           m_clients' \subseteq Clients, expired' \subseteq m_clients', StatsStayLocal'
    PROVE  SessionInv'
<1>1. NoGhostSubscriptions'
  BY DEF SessionInv, NoGhostSubscriptions, SubscriptionsOf
<1>2. \A c \in Clients : SubscriptionsOf(subs', c) = SubscriptionsOf(subs, c)
  BY DEF SubscriptionsOf
<1>3. QED
  BY <1>1, <1>2 DEF SessionInv

(* A session that changes one of its own scopes.                               *)
LEMMA SessionScope ==
    ASSUME SessionInv, NEW c \in Clients, NEW t \in Topics,
           NEW s \in Origin \cup {NoScope}, subs' = WithScope(subs, c, t, s), Renew(c),
           s # NoScope => canSubscribe(c, t) /\ (c \in Links => t # SYS_STATS),
           StatsStayLocal'
    PROVE  SessionInv'
<1>1. /\ subs' \in SubscriptionMaps
      /\ \A d \in Clients, u \in Topics :
            subs'[d][u] = IF d = c /\ u = t THEN s ELSE subs[d][u]
      /\ \A d \in Clients : SubscriptionsOf(subs', d) =
            IF d # c THEN SubscriptionsOf(subs, d)
            ELSE IF s = NoScope THEN SubscriptionsOf(subs, d) \ {t}
                                ELSE SubscriptionsOf(subs, d) \cup {t}
  BY WithScopeFacts DEF SessionInv
<1>2. /\ m_clients' \subseteq Clients /\ expired' \subseteq m_clients'
      /\ m_clients \subseteq m_clients' /\ c \in m_clients'
  BY DEF SessionInv, Renew
<1>3. NoGhostSubscriptions'
  BY <1>1, <1>2 DEF SessionInv, NoGhostSubscriptions
<1>4. \A l \in Links : subs'[l][SYS_STATS] = NoScope
  BY <1>1, BrokerAssumption DEF SessionInv
<1>5. ASSUME NEW d \in Clients
      PROVE  /\ IsFiniteSet(SubscriptionsOf(subs', d))
             /\ Cardinality(SubscriptionsOf(subs', d)) <= MAX_SUBSCRIPTIONS_PER_CLIENT
  <2> DEFINE held == SubscriptionsOf(subs, d)
  <2>1. /\ IsFiniteSet(held)
        /\ Cardinality(held) \in Nat
        /\ Cardinality(held) <= MAX_SUBSCRIPTIONS_PER_CLIENT
        /\ MAX_SUBSCRIPTIONS_PER_CLIENT \in Nat
    BY FS_CardinalityType, BrokerAssumption DEF SessionInv
  <2>2. /\ IsFiniteSet(held \ {t}) /\ Cardinality(held \ {t}) <= Cardinality(held)
        /\ Cardinality(held \ {t}) \in Nat
    BY <2>1, FS_Subset, FS_CardinalityType
  <2>3. CASE d # c
    BY <1>1, <2>1, <2>3
  <2>4. CASE d = c /\ s = NoScope
    BY <1>1, <2>1, <2>2, <2>4
  <2>5. CASE d = c /\ s # NoScope /\ t \in held
    <3>1. SubscriptionsOf(subs', d) = held
      BY <1>1, <2>5
    <3>2. QED
      BY <2>1, <3>1
  <2>6. CASE d = c /\ s # NoScope /\ t \notin held
    <3>1. Cardinality(held) < MAX_SUBSCRIPTIONS_PER_CLIENT
      BY <2>6 DEF canSubscribe
    <3>2. /\ IsFiniteSet(held \cup {t})
          /\ Cardinality(held \cup {t}) = Cardinality(held) + 1
      BY <2>1, <2>6, FS_AddElement
    <3>3. SubscriptionsOf(subs', d) = held \cup {t}
      BY <1>1, <2>6
    <3>4. QED
      BY <2>1, <3>1, <3>2, <3>3
  <2>7. QED
    BY <2>3, <2>4, <2>5, <2>6
<1>6. QED
  BY <1>1, <1>2, <1>3, <1>4, <1>5 DEF SessionInv

(* Sessions that end, whoever else becomes one in the same step.               *)
LEMMA SessionsEnd ==
    ASSUME SessionInv, NEW C \in SUBSET Clients, removeClient(C),
           m_clients \ C \subseteq m_clients', m_clients' \subseteq Clients,
           expired' \subseteq m_clients', StatsStayLocal'
    PROVE  SessionInv'
<1>1. /\ subs' \in SubscriptionMaps
      /\ \A d \in Clients, u \in Topics :
            subs'[d][u] = IF d \in C THEN NoScope ELSE subs[d][u]
      /\ \A d \in Clients : SubscriptionsOf(subs', d) =
            IF d \in C THEN {} ELSE SubscriptionsOf(subs, d)
  BY WithoutFacts DEF SessionInv, removeClient
<1>2. NoGhostSubscriptions'
  BY <1>1 DEF SessionInv, NoGhostSubscriptions
<1>3. \A d \in Clients :
         /\ IsFiniteSet(SubscriptionsOf(subs', d))
         /\ Cardinality(SubscriptionsOf(subs', d)) <= MAX_SUBSCRIPTIONS_PER_CLIENT
  <2>1. IsFiniteSet({}) /\ Cardinality({}) = 0
    BY FS_EmptySet
  <2>2. ASSUME NEW d \in Clients
        PROVE  /\ IsFiniteSet(SubscriptionsOf(subs', d))
               /\ Cardinality(SubscriptionsOf(subs', d)) <= MAX_SUBSCRIPTIONS_PER_CLIENT
    <3>1. CASE d \in C
      <4>1. SubscriptionsOf(subs', d) = {}
        BY <1>1, <3>1
      <4>2. QED
        BY <2>1, <4>1, BrokerAssumption
    <3>2. CASE d \notin C
      <4>1. SubscriptionsOf(subs', d) = SubscriptionsOf(subs, d)
        BY <1>1, <3>2
      <4>2. QED
        BY <4>1 DEF SessionInv
    <3>3. QED
      BY <3>1, <3>2
  <2>3. QED
    BY <2>2
<1>4. \A l \in Links : subs'[l][SYS_STATS] = NoScope
  BY <1>1, BrokerAssumption DEF SessionInv
<1>5. QED
  BY <1>1, <1>2, <1>3, <1>4 DEF SessionInv
--------------------------------------------------------------------------------
(* A message from a client keeps both invariants, whichever it is.             *)
LEMMA SpeaksKeepsInv ==
    ASSUME ControlInv, NEW c \in Clients, Speaks(c)
    PROVE  ControlInv'
<1> USE DEF ControlInv
<1>1. ASSUME Renew(c), UNCHANGED <<subs, interestVars>>, \A f \in sent' : f[2] # SYS_STATS
      PROVE  ControlInv'
  <2>1. InterestInv'
    BY <1>1, InterestSame DEF HasMeshSubscriber
  <2>2. SessionInv'
    BY <1>1, NoStatsSent, SessionSame DEF Renew, SessionInv
  <2>3. QED
    BY <2>1, <2>2
<1>2. CASE Connect(c)
  BY <1>1, <1>2 DEF Connect
<1>3. CASE Heartbeat(c)
  BY <1>1, <1>3, ControlFrames DEF Heartbeat
<1>4. CASE UnknownControl(c)
  BY <1>1, <1>4, ControlFrames DEF UnknownControl
<1>5. CASE Disconnect(c)
  <2>1. {c} \in SUBSET Clients
    OBVIOUS
  <2>2. InterestInv'
    BY <1>5, <2>1, RemovalKeepsInterest DEF Disconnect, SessionInv
  <2>3. SessionInv'
    BY <1>5, <2>1, SessionsEnd, NoStatsSent DEF Disconnect, SessionInv
  <2>4. QED
    BY <2>2, <2>3
<1>6. ASSUME NEW t \in Topics \cup RefusedTopics, SubscribeRefused(c, t) PROVE ControlInv'
  BY <1>1, <1>6, ControlFrames DEF SubscribeRefused
<1>7. ASSUME NEW t \in Topics \cup RefusedTopics, NEW p \in Payloads,
             SubscribeIsSent(c, t, p), SubscribeAccepted(c, t, p)
      PROVE  ControlInv'
  <2> DEFINE s == decodeSubscribeScope(p)
  <2>1. /\ t \in Topics /\ canSubscribe(c, t) /\ Renew(c)
        /\ subs' = WithScope(subs, c, t, s)
        /\ noteMeshInterestChange(t)
    BY <1>7 DEF SubscribeAccepted
  <2>2. s \in Origin \cup {NoScope}
    BY DecodedScope
  <2>3. c \in Links => t # SYS_STATS
    BY <1>7 DEF SubscribeIsSent, isReservedKey
  <2>4. StatsStayLocal'
    BY <1>7, ControlFrames, NoStatsSent DEF SubscribeAccepted
  <2> HIDE DEF s
  <2>5. InterestInv'
    BY <2>1, <2>2, ChangeKeepsInterest DEF SessionInv
  <2>6. SessionInv'
    BY <2>1, <2>2, <2>3, <2>4, SessionScope
  <2>7. QED
    BY <2>5, <2>6
<1>8. ASSUME NEW t \in Topics, Unsubscribe(c, t) PROVE ControlInv'
  <2>1. StatsStayLocal'
    BY <1>8, ControlFrames, NoStatsSent DEF Unsubscribe
  <2>2. InterestInv'
    BY <1>8, ChangeKeepsInterest DEF Unsubscribe, SessionInv
  <2>3. SessionInv'
    BY <1>8, <2>1, SessionScope DEF Unsubscribe
  <2>4. QED
    BY <2>2, <2>3
<1>9. ASSUME c \notin Links, NEW name, SetCluster(c, name) PROVE ControlInv'
  <2> DEFINE inbound == Links \cap m_clients
  <2>1. CASE /\ removeClient(inbound)
             /\ m_clients' = (m_clients \cup {c}) \ inbound
             /\ expired' = (expired \ {c}) \ inbound
             /\ sent' = Asked(c) \cup {<<l, "UNLINK">> : l \in inbound}
    <3>1. inbound \in SUBSET Clients
      BY BrokerAssumption
    <3>2. StatsStayLocal'
      BY <2>1, ControlFrames, NoStatsSent
    <3>3. InterestInv'
      BY <2>1, <3>1, RemovalKeepsInterest DEF SessionInv
    <3>4. SessionInv'
      BY <2>1, <3>1, <3>2, SessionsEnd DEF SessionInv
    <3>5. QED
      BY <3>3, <3>4
  <2>2. CASE Renew(c) /\ sent' = Asked(c) /\ UNCHANGED <<subs, interestVars>>
    BY <1>1, <2>2, ControlFrames
  <2>3. QED
    BY <1>9, <2>1, <2>2 DEF SetCluster
<1>10. ASSUME NEW u \in Ids, NEW t \in Topics, Publish(c, u, t) PROVE ControlInv'
  <2>1. CASE Refuse(u) /\ sent' = {} /\ UNCHANGED <<sessionVars, subs, interestVars>>
    <3>1. InterestInv'
      BY <2>1, InterestSame DEF HasMeshSubscriber
    <3>2. SessionInv'
      BY <2>1, NoStatsSent, SessionSame DEF sessionVars, SessionInv
    <3>3. QED
      BY <3>1, <3>2
  <2>2. CASE Renew(c) /\ sent' = Asked(c) /\ UNCHANGED <<subs, interestVars>>
    BY <1>1, <2>2, ControlFrames
  <2>3. QED
    BY Zenon, <1>10, <2>1, <2>2 DEF Publish
<1>11. QED
  BY Zenon, <1>2, <1>3, <1>4, <1>5, <1>6, <1>7, <1>8, <1>9, <1>10 DEF Speaks

(* So does every other step of the broker thread.                              *)
LEMMA NextKeepsControlInv == ControlInv /\ [Next]_vars => ControlInv'
<1>1. SUFFICES ASSUME ControlInv, [Next]_vars PROVE ControlInv'
  OBVIOUS
<1> USE DEF ControlInv
<1>2. ASSUME UNCHANGED <<subs, interestVars>>, UNCHANGED m_clients,
             expired' \subseteq m_clients, StatsStayLocal'
      PROVE  ControlInv'
  <2>1. InterestInv'
    BY <1>1, <1>2, InterestSame DEF HasMeshSubscriber
  <2>2. SessionInv'
    BY <1>1, <1>2, SessionSame DEF SessionInv
  <2>3. QED
    BY <2>1, <2>2
<1>3. CASE UNCHANGED vars
  <2>1. StatsStayLocal'
    BY <1>1, <1>3 DEF vars, sessionVars, SessionInv, StatsStayLocal
  <2>2. QED
    BY <1>1, <1>2, <1>3, <2>1 DEF vars, sessionVars, SessionInv
<1>4. ASSUME NEW c \in Clients, Speaks(c) PROVE ControlInv'
  BY <1>1, <1>4, SpeaksKeepsInv
<1>5. ASSUME NEW c \in Clients, Expire(c) PROVE ControlInv'
  BY <1>1, <1>2, <1>5, NoStatsSent DEF Expire, SessionInv
<1>6. ASSUME NEW u \in Ids, NEW t \in Topics, FromPeer(u, t) PROVE ControlInv'
  BY Zenon, <1>1, <1>2, <1>6, NoStatsSent DEF FromPeer, sessionVars, SessionInv
<1>7. CASE Sweep
  <2>1. PICK zombies \in SUBSET expired :
           /\ removeClient(zombies)
           /\ m_clients' = m_clients \ zombies
           /\ expired' = expired \ zombies
           /\ sent' = {}
    BY <1>7 DEF Sweep
  <2>2. zombies \in SUBSET Clients
    BY <1>1 DEF SessionInv
  <2>3. InterestInv'
    BY <1>1, <2>1, <2>2, RemovalKeepsInterest DEF SessionInv
  <2>4. SessionInv'
    BY <1>1, <2>1, <2>2, NoStatsSent, SessionsEnd DEF SessionInv
  <2>5. QED
    BY <2>3, <2>4
<1>8. CASE BroadcastStats
  <2>1. StatsReaders \subseteq m_clients \ Links
    BY Zenon, <1>1, NoScopeIsNone, BrokerAssumption
       DEF StatsReaders, Accepts, SessionInv, NoGhostSubscriptions, SubscriptionsOf
  <2>2. StatsStayLocal'
    BY <1>8, <2>1 DEF BroadcastStats, StatsStayLocal, sessionVars
  <2>3. QED
    BY <1>1, <1>2, <1>8, <2>2 DEF BroadcastStats, sessionVars, SessionInv
<1>9. QED
  BY <1>1, <1>3, <1>4, <1>5, <1>6, <1>7, <1>8 DEF Next

(* A broker starts with nothing in its tables.                                 *)
LEMMA InitControlInv == Init => ControlInv
<1>1. SUFFICES ASSUME Init PROVE ControlInv
  OBVIOUS
<1>2. \A c \in Clients, t \in Topics : subs[c][t] = NoScope
  BY Zenon, <1>1 DEF Init, NoSubscriptions
<1>3. \A t \in Topics : ~ HasMeshSubscriber(subs, t)
  BY Zenon, <1>2, NoScopeIsNone DEF HasMeshSubscriber
<1>4. \A c \in Clients : SubscriptionsOf(subs, c) = {}
  BY <1>2 DEF SubscriptionsOf
<1>5. IsFiniteSet({}) /\ Cardinality({}) = 0
  BY FS_EmptySet
<1>6. InterestInv
  <2>1. InterestMatchesSubscriptions
    BY Zenon, <1>1, <1>3, BrokerAssumption DEF Init, InterestMatchesSubscriptions
  <2>2. UpdatesCarryInterest
    BY Zenon, <1>1 DEF Init, UpdatesCarryInterest
  <2>3. /\ IsFiniteSet(m_interest)
        /\ Cardinality(m_interest) <= MaxInterestTopics + 1
        /\ m_interestSaturated <=> Cardinality(m_interest) > MaxInterestTopics
    <3>1. m_interest = {} /\ m_interestSaturated = FALSE
      BY <1>1, Zenon DEF Init
    <3>2. QED
      BY <1>5, <3>1, BrokerAssumption
  <2>4. QED
    BY Zenon, <1>1, <2>1, <2>2, <2>3 DEF Init, InterestInv
<1>7. SessionInv
  <2>1. subs \in SubscriptionMaps
    BY Zenon, <1>1 DEF Init, NoSubscriptions, SubscriptionMaps
  <2>2. StatsStayLocal /\ NoGhostSubscriptions
    BY Zenon, <1>1, <1>4 DEF Init, StatsStayLocal, NoGhostSubscriptions
  <2>3. \A c \in Clients :
           /\ IsFiniteSet(SubscriptionsOf(subs, c))
           /\ Cardinality(SubscriptionsOf(subs, c)) <= MAX_SUBSCRIPTIONS_PER_CLIENT
    BY <1>4, <1>5, BrokerAssumption
  <2>4. QED
    BY Zenon, <1>1, <1>2, <2>1, <2>2, <2>3, BrokerAssumption DEF Init, SessionInv
<1>8. QED
  BY <1>6, <1>7 DEF ControlInv

(* Sessions, subscriptions and interest agree after any sequence of client     *)
(* messages, timeouts, sweeps and cluster swaps.                               *)
THEOREM ControlCorrect == Spec => []ControlInv
  BY InitControlInv, NextKeepsControlInv, PTL DEF Spec

(* Nothing is subscribed without a session: the sweep can reach everything.    *)
THEOREM NoGhosts == Spec => []NoGhostSubscriptions
<1>1. ControlInv => NoGhostSubscriptions
  BY DEF ControlInv, SessionInv
<1>2. QED
  BY <1>1, ControlCorrect, PTL

(* The interest kept topic by topic is what the registry says.                 *)
THEOREM InterestCorrect == Spec => []InterestMatchesSubscriptions
<1>1. ControlInv => InterestMatchesSubscriptions
  BY DEF ControlInv, InterestInv
<1>2. QED
  BY <1>1, ControlCorrect, PTL

(* The updates alone bring a link from any interest to the next, through the   *)
(* wildcard and through saturation.                                            *)
THEOREM UpdatesCorrect == Spec => []UpdatesCarryInterest
<1>1. ControlInv => UpdatesCarryInterest
  BY DEF ControlInv, InterestInv
<1>2. QED
  BY <1>1, ControlCorrect, PTL

(* Both caps hold, and saturation means that the interest cap was passed.      *)
THEOREM LimitsCorrect == Spec => []LimitsHold
<1>1. ControlInv => LimitsHold
  BY DEF ControlInv, InterestInv, SessionInv, LimitsHold
<1>2. QED
  BY <1>1, ControlCorrect, PTL

(* Statistics reach sessions of this broker only, never a link.                *)
THEOREM StatsCorrect == Spec => []StatsStayLocal
<1>1. ControlInv => StatsStayLocal
  BY DEF ControlInv, SessionInv
<1>2. QED
  BY <1>1, ControlCorrect, PTL
--------------------------------------------------------------------------------
(* Every step of the broker asks isDuplicate of one id, or leaves the windows  *)
(* alone: the theorems about DedupWindow are theorems about the broker.        *)
THEOREM BrokerImplementsDedup == Spec => WindowsAreDedup
<1>1. Init => WindowInit
  BY Zenon DEF Init
<1>2. [Next]_vars => [WindowNext]_windowVars
  <2>1. SUFFICES ASSUME [Next]_vars PROVE [WindowNext]_windowVars
    OBVIOUS
  <2>2. CASE UNCHANGED windowVars
    BY <2>2
  <2>3. ASSUME NEW u \in Ids, Refuse(u) \/ Accept(u) PROVE WindowNext
    BY <2>3 DEF WindowNext, isDuplicate
  <2>4. ASSUME NEW c \in Clients, Speaks(c) PROVE [WindowNext]_windowVars
    <3>1. CASE UNCHANGED routeVars
      BY <2>2, <3>1 DEF routeVars
    <3>2. ASSUME NEW u \in Ids, NEW t \in Topics, Publish(c, u, t) PROVE WindowNext
      BY Zenon, <2>3, <3>2 DEF Publish
    <3>3. QED
      BY Zenon, <2>4, <3>1, <3>2 DEF Speaks, Connect, Heartbeat, UnknownControl, Disconnect,
         SubscribeRefused, SubscribeAccepted, Unsubscribe, SetCluster
  <2>5. ASSUME NEW u \in Ids, NEW t \in Topics, FromPeer(u, t) PROVE WindowNext
    BY Zenon, <2>3, <2>5 DEF FromPeer
  <2>6. CASE UNCHANGED vars \/ Sweep \/ BroadcastStats \/ \E c \in Clients : Expire(c)
    BY <2>2, <2>6 DEF vars, routeVars, Sweep, BroadcastStats, Expire
  <2>7. QED
    BY <2>1, <2>4, <2>5, <2>6 DEF Next
<1>3. QED
  BY <1>1, <1>2, PTL DEF Spec, WindowsAreDedup, WindowSpec

(* So the windows of the broker remember what DedupWindow remembers,           *)
LEMMA RecentInBroker == Spec => []RecentRemembered
  BY BrokerImplementsDedup, RepeatsRecognized, PTL DEF WindowsAreDedup

(* and their invariant holds of the broker.                                    *)
LEMMA WindowInBroker == Spec => []WindowInv
  BY BrokerImplementsDedup, WindowsTellAge, PTL DEF WindowsAreDedup

(* The delivery loops send a client at most one copy of a message.             *)
LEMMA OneCopy ==
    ASSUME NEW c \in Clients, NEW t \in Topics, NEW b \in BOOLEAN
    PROVE  /\ Copies(c, t, b) \in 0 .. 1
           /\ Wants(c, t, b) => Copies(c, t, b) = 1
  BY DEF Copies, Accepts, Wants

(* One message routed by deliverToSubscribers: the history it leaves.          *)
LEMMA OneDelivery ==
    ASSUME AtMostOnce, RecentRemembered, WindowInv,
           NEW u \in Ids, NEW t \in Topics, NEW sender, NEW b \in BOOLEAN,
           Accept(u), deliverToSubscribers(u, t, sender, b)
    PROVE  /\ AtMostOnce'
           /\ \A c \in Clients : c \in m_clients' /\ Wants(c, t, b) => got'[u][c] > 0
<1>1. ~ (age[u] < MaxHistorySize)
  BY DEF Accept, RecentRemembered
<1> DEFINE new(c) == IF c = sender THEN 1
                     ELSE IF c \in m_clients' THEN Copies(c, t, b) ELSE 0
<1>2. \A c \in Clients : new(c) \in 0 .. 1
  BY OneCopy
<1>3. got' = [got EXCEPT ![u] = [c \in Clients |-> IF 0 + new(c) > 2 THEN 2 ELSE 0 + new(c)]]
  BY <1>1 DEF deliverToSubscribers
<1>4. \A c \in Clients : c \in m_clients' /\ Wants(c, t, b) => new(c) = 1
  BY OneCopy
<1> HIDE DEF new
<1>5. \A c \in Clients : got'[u][c] = new(c)
  BY <1>2, <1>3 DEF AtMostOnce
<1>6. AtMostOnce'
  BY <1>2, <1>3 DEF AtMostOnce
<1>7. QED
  BY <1>4, <1>5, <1>6

(* No client holds two copies of a message the windows must remember.          *)
THEOREM DeliveredAtMostOnce == Spec => []AtMostOnce
<1>1. Init => AtMostOnce
  <2>1. 0 \in 0 .. 1
    OBVIOUS
  <2>2. QED
    BY <2>1, Zenon DEF Init, AtMostOnce
<1>2. AtMostOnce /\ RecentRemembered /\ WindowInv /\ [Next]_vars => AtMostOnce'
  <2>1. SUFFICES ASSUME AtMostOnce, RecentRemembered, WindowInv, [Next]_vars PROVE AtMostOnce'
    OBVIOUS
  <2>2. CASE UNCHANGED got
    BY <2>1, <2>2 DEF AtMostOnce
  <2>3. ASSUME NEW c \in Clients, Speaks(c) PROVE AtMostOnce'
    <3>1. CASE UNCHANGED routeVars
      BY <2>2, <3>1 DEF routeVars
    <3>2. ASSUME NEW u \in Ids, NEW t \in Topics, Publish(c, u, t) PROVE AtMostOnce'
      BY Zenon, <2>1, <2>2, <3>2, OneDelivery DEF Publish
    <3>3. QED
      BY Zenon, <2>3, <3>1, <3>2 DEF Speaks, Connect, Heartbeat, UnknownControl, Disconnect,
         SubscribeRefused, SubscribeAccepted, Unsubscribe, SetCluster
  <2>4. ASSUME NEW u \in Ids, NEW t \in Topics, FromPeer(u, t) PROVE AtMostOnce'
    BY Zenon, <2>1, <2>2, <2>4, OneDelivery DEF FromPeer
  <2>5. CASE UNCHANGED vars \/ Sweep \/ BroadcastStats \/ \E c \in Clients : Expire(c)
    BY <2>2, <2>5 DEF vars, routeVars, Sweep, BroadcastStats, Expire
  <2>6. QED
    BY <2>1, <2>3, <2>4, <2>5 DEF Next
<1>3. QED
  BY <1>1, <1>2, RecentInBroker, WindowInBroker, PTL DEF Spec

(* A client that wants something is a session, so no look at m_clients in the  *)
(* delivery loops ever skips it.                                               *)
LEMMA WantersAreSessions ==
    ASSUME ControlInv, NEW c \in Clients, NEW t \in Topics, NEW b \in BOOLEAN, Wants(c, t, b)
    PROVE  c \in m_clients
<1>1. PICK w \in {t, WILDCARD_TOPIC} : scopeAccepts(subs[c][w], b)
  BY DEF Wants
<1>2. w \in Topics /\ subs[c][w] # NoScope
  BY <1>1, NoScopeIsNone, BrokerAssumption
<1>3. QED
  BY <1>2 DEF ControlInv, SessionInv, NoGhostSubscriptions, SubscriptionsOf

(* Every routed message is sent to every client that wants it.                 *)
THEOREM RoutedMessagesServeEveryone == Spec => EveryoneServed
<1> DEFINE Served == \A u \in Ids, t \in Topics :
                       Accept(u) =>
                         /\ FromPeer(u, t) => \A c \in Clients : Wants(c, t, FALSE) => got'[u][c] > 0
                         /\ \A p \in Clients :
                               Publish(p, u, t) => \A c \in Clients : Wants(c, t, TRUE) => got'[u][c] > 0
<1>1. ControlInv /\ AtMostOnce /\ RecentRemembered /\ WindowInv => Served
  <2>1. SUFFICES ASSUME ControlInv, AtMostOnce, RecentRemembered, WindowInv,
                        NEW u \in Ids, NEW t \in Topics, Accept(u)
                 PROVE  /\ FromPeer(u, t) => \A c \in Clients : Wants(c, t, FALSE) => got'[u][c] > 0
                        /\ \A p \in Clients :
                              Publish(p, u, t) => \A c \in Clients : Wants(c, t, TRUE) => got'[u][c] > 0
    BY Zenon
  <2>2. ~ Refuse(u)
    BY <2>1 DEF Accept, Refuse
  <2>3. ASSUME FromPeer(u, t), NEW c \in Clients, Wants(c, t, FALSE) PROVE got'[u][c] > 0
    <3>1. deliverToSubscribers(u, t, NoClient, FALSE) /\ c \in m_clients'
      BY Zenon, <2>1, <2>2, <2>3, WantersAreSessions DEF FromPeer, sessionVars
    <3>2. QED
      BY Zenon, <2>1, <2>3, <3>1, OneDelivery
  <2>4. ASSUME NEW p \in Clients, Publish(p, u, t), NEW c \in Clients, Wants(c, t, TRUE) PROVE got'[u][c] > 0
    <3>1. deliverToSubscribers(u, t, p, TRUE) /\ c \in m_clients'
      BY Zenon, <2>1, <2>2, <2>4, WantersAreSessions DEF Publish, Renew
    <3>2. QED
      BY Zenon, <2>1, <2>4, <3>1, OneDelivery
  <2>5. QED
    BY Zenon, <2>3, <2>4
<1>2. QED
  BY <1>1, ControlCorrect, DeliveredAtMostOnce, RecentInBroker, WindowInBroker, PTL
     DEF EveryoneServed

(* Every member of the broker keeps its type.                                  *)
THEOREM BrokerTypes == Spec => []TypeOK
<1> DEFINE Named == m_clusterName \in Clusters \cup {""}
<1>1. Init => Named
  BY Zenon DEF Init
<1>2. Named /\ [Next]_vars => Named'
  BY Zenon DEF Next, Speaks, Connect, Heartbeat, UnknownControl, Disconnect, SubscribeRefused,
     SubscribeAccepted, Unsubscribe, SetCluster, Swaps, Publish, FromPeer, Expire, Sweep,
     BroadcastStats, vars
<1>3. Named /\ ControlInv /\ AtMostOnce => TypeOK
  <2>1. SUFFICES ASSUME Named, ControlInv, AtMostOnce PROVE TypeOK
    BY Zenon
  <2>2. got \in [Ids -> [Clients -> 0 .. 2]]
    <3>1. \A n \in 0 .. 1 : n \in 0 .. 2
      OBVIOUS
    <3>2. \A f \in [Clients -> 0 .. 1] : f \in [Clients -> 0 .. 2]
      BY <3>1, Zenon
    <3>3. QED
      BY <2>1, <3>2, Zenon DEF AtMostOnce
  <2>3. QED
    BY Zenon, <2>1, <2>2 DEF TypeOK, ControlInv, InterestInv, SessionInv
<1>4. QED
  BY <1>1, <1>2, <1>3, ControlCorrect, DeliveredAtMostOnce, PTL DEF Spec

(* Together: sessions, limits and statistics.                                  *)
THEOREM SessionsCorrect == Spec => []SessionsAreSound
BY NoGhosts, LimitsCorrect, StatsCorrect, PTL DEF SessionsAreSound
================================================================================
