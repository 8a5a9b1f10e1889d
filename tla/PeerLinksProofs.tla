----------------------------- MODULE PeerLinksProofs -----------------------------
(* The links of a broker, for any links, addresses and topics, any limit on    *)
(* the interest, and any number of changes, dials and failures of the remotes. *)
EXTENDS PeerLinks, FiniteSetTheorems, TLAPS

ConnectMessage == <<"CONNECT", "">>
DisconnectMessage == <<"DISCONNECT", "">>
HeartbeatMessage == <<"HEARTBEAT", "">>

(* What a queue of messages says, and what it says last of a topic.            *)
Says(q, m) == \E i \in 1 .. Len(q) : q[i] = m

LastSays(q, t) ==
    \E i \in 1 .. Len(q) :
        q[i] = Subscribe(t) /\ \A j \in 1 .. Len(q) : j > i => q[j] # Unsubscribe(t)

ConnectsFirst(q) == \A i \in 1 .. Len(q) : q[i] = ConnectMessage => i = 1
--------------------------------------------------------------------------------
(* Queues: what putting a message at the end does to what is said.             *)
LEMMA AppendSays ==
    ASSUME NEW S, NEW q \in Seq(S), NEW m \in S
    PROVE  /\ Append(q, m) \in Seq(S)
           /\ \A n : Says(Append(q, m), n) <=> Says(q, n) \/ m = n
           /\ \A t : m = Subscribe(t) => LastSays(Append(q, m), t)
           /\ \A t : LastSays(q, t) /\ m # Unsubscribe(t) => LastSays(Append(q, m), t)
           /\ ConnectsFirst(q) /\ m # ConnectMessage => ConnectsFirst(Append(q, m))
<1> DEFINE r == Append(q, m)
<1>1. /\ r \in Seq(S) /\ Len(q) \in Nat /\ Len(r) = Len(q) + 1
      /\ r[Len(q) + 1] = m /\ \A i \in 1 .. Len(q) : r[i] = q[i]
  OBVIOUS
<1>2. 1 .. Len(r) = 1 .. Len(q) \cup {Len(q) + 1}
  BY <1>1
<1> HIDE DEF r
<1>3. \A n : Says(r, n) <=> Says(q, n) \/ m = n
  BY <1>1, <1>2 DEF Says
<1>4. ASSUME NEW t, m = Subscribe(t) PROVE LastSays(r, t)
  BY <1>1, <1>2, <1>4 DEF LastSays
<1>5. ASSUME NEW t, LastSays(q, t), m # Unsubscribe(t) PROVE LastSays(r, t)
  <2>1. PICK i \in 1 .. Len(q) :
            q[i] = Subscribe(t) /\ \A j \in 1 .. Len(q) : j > i => q[j] # Unsubscribe(t)
    BY <1>5 DEF LastSays
  <2>2. i \in 1 .. Len(r) /\ r[i] = Subscribe(t)
    BY <1>1, <1>2, <2>1
  <2>3. \A j \in 1 .. Len(r) : j > i => r[j] # Unsubscribe(t)
    BY <1>1, <1>2, <1>5, <2>1
  <2> QED
    BY <2>2, <2>3 DEF LastSays
<1>6. ConnectsFirst(q) /\ m # ConnectMessage => ConnectsFirst(r)
  BY <1>1, <1>2 DEF ConnectsFirst
<1> QED
  BY <1>1, <1>3, <1>4, <1>5, <1>6 DEF r

(* And taking the first one off.                                               *)
LEMMA TailSays ==
    ASSUME NEW S, NEW q \in Seq(S), q # <<>>
    PROVE  /\ Tail(q) \in Seq(S) /\ Head(q) \in S
           /\ Says(q, Head(q))
           /\ \A n : Says(q, n) <=> Head(q) = n \/ Says(Tail(q), n)
           /\ \A t : LastSays(q, t) =>
                 \/ LastSays(Tail(q), t)
                 \/ Head(q) = Subscribe(t) /\ ~ Says(Tail(q), Unsubscribe(t))
           /\ ConnectsFirst(q) => ~ Says(Tail(q), ConnectMessage) /\ ConnectsFirst(Tail(q))
<1> DEFINE r == Tail(q)
<1>1. /\ r \in Seq(S) /\ Head(q) \in S /\ Len(q) \in Nat \ {0} /\ Len(r) = Len(q) - 1
      /\ Head(q) = q[1] /\ \A i \in 1 .. Len(r) : r[i] = q[i + 1]
  OBVIOUS
<1> HIDE DEF r
<1>2. \A i \in 1 .. Len(q) : i = 1 \/ (i - 1 \in 1 .. Len(r) /\ q[i] = r[i - 1])
  BY <1>1
<1>3. \A i \in 1 .. Len(r) : i + 1 \in 1 .. Len(q) /\ i + 1 # 1
  BY <1>1
<1>4. 1 \in 1 .. Len(q)
  BY <1>1
<1>5. \A n : Says(q, n) <=> Head(q) = n \/ Says(r, n)
  BY <1>1, <1>2, <1>3, <1>4 DEF Says
<1>6. ASSUME NEW t, LastSays(q, t)
      PROVE  LastSays(r, t) \/ (Head(q) = Subscribe(t) /\ ~ Says(r, Unsubscribe(t)))
  <2>1. PICK i \in 1 .. Len(q) :
            q[i] = Subscribe(t) /\ \A j \in 1 .. Len(q) : j > i => q[j] # Unsubscribe(t)
    BY <1>6 DEF LastSays
  <2>2. \A j \in 1 .. Len(r) : j + 1 > i => r[j] # Unsubscribe(t)
    BY <1>1, <1>3, <2>1
  <2>3. CASE i = 1
    BY <1>1, <2>1, <2>2, <2>3 DEF Says
  <2>4. CASE i # 1
    <3>1. i - 1 \in 1 .. Len(r) /\ r[i - 1] = Subscribe(t)
      BY <1>2, <2>1, <2>4
    <3>2. \A j \in 1 .. Len(r) : j > i - 1 => r[j] # Unsubscribe(t)
      BY <1>1, <2>2
    <3> QED
      BY <3>1, <3>2 DEF LastSays
  <2> QED
    BY <2>3, <2>4
<1>7. ConnectsFirst(q) => ~ Says(r, ConnectMessage)
  BY <1>1, <1>3 DEF ConnectsFirst, Says
<1>8. ~ Says(r, ConnectMessage) => ConnectsFirst(r)
  BY DEF ConnectsFirst, Says
<1> QED
  BY <1>1, <1>4, <1>5, <1>6, <1>7, <1>8 DEF r, Says

(* And losing the first few.                                                   *)
LEMMA SuffixSays ==
    ASSUME NEW S, NEW q \in Seq(S), NEW n \in 0 .. Len(q)
    PROVE  LET r == SubSeq(q, n + 1, Len(q))
           IN  /\ r \in Seq(S)
               /\ n = 0 => r = q
               /\ \A m : Says(r, m) => Says(q, m)
               /\ n # 0 /\ ConnectsFirst(q) => ~ Says(r, ConnectMessage)
               /\ ConnectsFirst(q) => ConnectsFirst(r)
<1> DEFINE r == SubSeq(q, n + 1, Len(q))
<1>1. /\ r \in Seq(S) /\ Len(q) \in Nat /\ Len(r) = Len(q) - n
      /\ \A i \in 1 .. Len(r) : r[i] = q[i + n]
  OBVIOUS
<1>2. n = 0 => r = q
  OBVIOUS
<1> HIDE DEF r
<1>3. \A i \in 1 .. Len(r) : i + n \in 1 .. Len(q)
  BY <1>1
<1>4. \A m : Says(r, m) => Says(q, m)
  BY <1>1, <1>3 DEF Says
<1>5. n # 0 /\ ConnectsFirst(q) => ~ Says(r, ConnectMessage)
  <2> SUFFICES ASSUME n # 0, ConnectsFirst(q), NEW i \in 1 .. Len(r), r[i] = ConnectMessage
               PROVE  FALSE
    BY DEF Says
  <2>1. i + n \in 1 .. Len(q) /\ q[i + n] = ConnectMessage /\ i + n # 1
    BY <1>1, <1>3
  <2> QED
    BY <2>1 DEF ConnectsFirst
<1>6. ConnectsFirst(q) => ConnectsFirst(r)
  BY <1>2, <1>5 DEF ConnectsFirst, Says
<1> QED
  BY <1>1, <1>2, <1>4, <1>5, <1>6 DEF r

(* Putting one queue behind another.                                           *)
LEMMA ConcatSays ==
    ASSUME NEW S, NEW m \in S, NEW q \in Seq(S)
    PROVE  /\ <<m>> \o q \in Seq(S)
           /\ \A n : Says(<<m>> \o q, n) <=> m = n \/ Says(q, n)
           /\ \A t : Says(q, Subscribe(t)) /\ ~ Says(q, Unsubscribe(t)) => LastSays(<<m>> \o q, t)
           /\ ~ Says(q, ConnectMessage) => ConnectsFirst(<<m>> \o q)
<1> DEFINE r == <<m>> \o q
<1>1. /\ r \in Seq(S) /\ Len(q) \in Nat /\ Len(r) = Len(q) + 1
      /\ r[1] = m /\ \A i \in 1 .. Len(q) : r[i + 1] = q[i]
  OBVIOUS
<1> HIDE DEF r
<1>2. \A i \in 1 .. Len(r) : i = 1 \/ (i - 1 \in 1 .. Len(q) /\ r[i] = q[i - 1])
  BY <1>1
<1>3. 1 \in 1 .. Len(r) /\ \A i \in 1 .. Len(q) : i + 1 \in 1 .. Len(r)
  BY <1>1
<1>4. \A n : Says(r, n) <=> m = n \/ Says(q, n)
  BY <1>1, <1>2, <1>3 DEF Says
<1>5. ASSUME NEW t, Says(q, Subscribe(t)), ~ Says(q, Unsubscribe(t)) PROVE LastSays(r, t)
  <2>1. PICK i \in 1 .. Len(q) : q[i] = Subscribe(t)
    BY <1>5 DEF Says
  <2>2. i + 1 \in 1 .. Len(r) /\ r[i + 1] = Subscribe(t)
    BY <1>1, <1>3, <2>1
  <2>3. \A j \in 1 .. Len(r) : j > i + 1 => r[j] # Unsubscribe(t)
    BY <1>2, <1>5, <2>1 DEF Says
  <2> QED
    BY <2>2, <2>3 DEF LastSays
<1>6. ~ Says(q, ConnectMessage) => ConnectsFirst(r)
  BY <1>2 DEF ConnectsFirst, Says
<1> QED
  BY <1>1, <1>4, <1>5, <1>6 DEF r

(* The empty queue and the queue of one.                                       *)
LEMMA ShortSays ==
    ASSUME NEW S, NEW m \in S
    PROVE  /\ <<>> \in Seq(S) /\ <<m>> \in Seq(S)
           /\ \A n : ~ Says(<<>>, n) /\ (Says(<<m>>, n) <=> m = n)
           /\ ConnectsFirst(<<>>) /\ ConnectsFirst(<<m>>)
           /\ \A t : ~ LastSays(<<>>, t)
BY DEF Says, ConnectsFirst, LastSays

(* The same, whatever the messages are.                                        *)
LEMMA EmptySays ==
    /\ \A n : ~ Says(<<>>, n)
    /\ \A t : ~ LastSays(<<>>, t)
    /\ ConnectsFirst(<<>>)
BY DEF Says, ConnectsFirst, LastSays

(* And of the queue of one.                                                    *)
LEMMA OneSays ==
    ASSUME NEW m
    PROVE  \A n : Says(<<m>>, n) <=> m = n
BY DEF Says

(* SetToSeq lists a finite set.                                                *)
LEMMA SetToSeqSays ==
    ASSUME NEW S, IsFiniteSet(S)
    PROVE  /\ SetToSeq(S) \in Seq(S)
           /\ \A x : Says(SetToSeq(S), x) <=> x \in S
<1> DEFINE n == Cardinality(S)
           f == SetToSeq(S)
<1>1. n \in Nat /\ ExistsBijection(1 .. n, S)
  BY FS_CardinalityType
<1>2. \E g \in [1 .. n -> S] : IsInjective(g)
  BY <1>1 DEF ExistsBijection, Bijection, Injection, IsInjective
<1>3. f \in [1 .. n -> S] /\ IsInjective(f)
  BY <1>2 DEF SetToSeq
<1>4. f \in Injection(1 .. n, S)
  BY <1>3 DEF Injection
<1>5. Cardinality(1 .. n) = n
  BY <1>1, FS_Interval
<1>6. f \in Surjection(1 .. n, S)
  BY <1>4, <1>5, FS_Injection
<1>7. \A x \in S : \E i \in 1 .. n : f[i] = x
  BY <1>6 DEF Surjection
<1>8. f \in Seq(S) /\ Len(f) = n
  BY <1>1, <1>3
<1> HIDE DEF f, n
<1>9. \A x : Says(f, x) <=> x \in S
  BY <1>3, <1>7, <1>8 DEF Says
<1> QED
  BY <1>8, <1>9 DEF f
--------------------------------------------------------------------------------
AllTopics == Topics \cup {WILDCARD_TOPIC}
Messages ==
    ({"SUBSCRIBE", "UNSUBSCRIBE"} \X AllTopics)
        \cup {ConnectMessage, DisconnectMessage, HeartbeatMessage}

LinkTypes ==
    /\ m_interest \in SUBSET Topics /\ IsFiniteSet(m_interest)
    /\ m_interestSaturated \in BOOLEAN /\ m_interestWildcard \in BOOLEAN
    /\ updates \in Seq(Messages)
    /\ telling \in BOOLEAN /\ (telling => updates # <<>>)
    /\ m_peers \in SUBSET Links /\ active \in SUBSET Links /\ session \in SUBSET Links
    /\ state \in [Links -> {"none", "dialed", "up", "stopping"}]
    /\ pipe \in [Links -> Seq(Messages)]
    /\ answer \in [Links -> Seq(Messages)]
    /\ back \in [Links -> Seq({"RESET", "UNLINK"})]
    /\ held \in [Links -> SUBSET AllTopics]
    /\ missed \in [Links -> SUBSET Messages]

(* Two messages of subscription are the same when they are about one topic.    *)
LEMMA MessageFacts ==
    /\ \A t \in AllTopics : Subscribe(t) \in Messages /\ Unsubscribe(t) \in Messages
    /\ {ConnectMessage, DisconnectMessage, HeartbeatMessage} \subseteq Messages
    /\ \A t, u : Subscribe(t) # Unsubscribe(u)
    /\ \A t, u : Subscribe(t) = Subscribe(u) => t = u
    /\ \A t, u : Unsubscribe(t) = Unsubscribe(u) => t = u
    /\ \A t : /\ Subscribe(t) # ConnectMessage /\ Unsubscribe(t) # ConnectMessage
              /\ Subscribe(t) # DisconnectMessage /\ Unsubscribe(t) # DisconnectMessage
              /\ Subscribe(t) # HeartbeatMessage /\ Unsubscribe(t) # HeartbeatMessage
    /\ ConnectMessage # DisconnectMessage /\ ConnectMessage # HeartbeatMessage
    /\ DisconnectMessage # HeartbeatMessage
BY DEF Messages, AllTopics, Subscribe, Unsubscribe, ConnectMessage, DisconnectMessage,
       HeartbeatMessage

(* The SUBSCRIBEs of a set of topics.                                          *)
LEMMA SubscribesSays ==
    ASSUME NEW T \in SUBSET AllTopics, IsFiniteSet(T)
    PROVE  /\ Subscribes(T) \in Seq(Messages)
           /\ \A m : Says(Subscribes(T), m) <=> \E t \in T : m = Subscribe(t)
<1> DEFINE S == {Subscribe(t) : t \in T}
           f == [t \in T |-> Subscribe(t)]
<1>1. f \in Surjection(T, S)
  BY DEF Surjection
<1>2. IsFiniteSet(S)
  BY <1>1, FS_Surjection
<1>3. S \subseteq Messages
  BY MessageFacts
<1>4. SetToSeq(S) \in Seq(S) /\ \A x : Says(SetToSeq(S), x) <=> x \in S
  BY Zenon, <1>2, SetToSeqSays
<1>5. \A q : q \in Seq(S) => q \in Seq(Messages)
  BY <1>3
<1>6. Subscribes(T) = SetToSeq(S)
  BY DEF Subscribes
<1> QED
  BY <1>4, <1>5, <1>6

(* A snapshot is the SUBSCRIBEs of the interest.                               *)
LEMMA SnapshotSays ==
    ASSUME LinkTypes
    PROVE  /\ Snapshot \in Seq(Messages)
           /\ \A m : Says(Snapshot, m) <=> \E t \in Interest : m = Subscribe(t)
<1>1. CASE m_interestSaturated \/ m_interestWildcard
  <2>1. Snapshot = <<Subscribe(WILDCARD_TOPIC)>> /\ Interest = {WILDCARD_TOPIC}
    BY <1>1 DEF Snapshot, Interest
  <2>2. Subscribe(WILDCARD_TOPIC) \in Messages
    BY MessageFacts DEF AllTopics
  <2> QED
    BY <2>1, <2>2, ShortSays
<1>2. CASE ~ (m_interestSaturated \/ m_interestWildcard)
  <2>1. Snapshot = Subscribes(m_interest) /\ Interest = m_interest
    BY <1>2 DEF Snapshot, Interest
  <2>2. m_interest \in SUBSET AllTopics /\ IsFiniteSet(m_interest)
    BY DEF LinkTypes, AllTopics
  <2> QED
    BY <2>1, <2>2, SubscribesSays
<1> QED
  BY <1>1, <1>2

(* A link that is dialed leads with CONNECT and subscribes to the interest.    *)
LEMMA DialSays ==
    ASSUME LinkTypes
    PROVE  LET q == <<ConnectMessage>> \o Snapshot
           IN  /\ q \in Seq(Messages)
               /\ ConnectsFirst(q) /\ ~ Says(q, DisconnectMessage)
               /\ \A t \in Interest : LastSays(q, t)
<1>1. ConnectMessage \in Messages
  BY MessageFacts
<1>2. ~ Says(Snapshot, ConnectMessage) /\ ~ Says(Snapshot, DisconnectMessage)
  BY SnapshotSays, MessageFacts
<1>3. \A t \in Interest : Says(Snapshot, Subscribe(t)) /\ ~ Says(Snapshot, Unsubscribe(t))
  BY SnapshotSays, MessageFacts
<1> QED
  BY <1>1, <1>2, <1>3, SnapshotSays, ConcatSays, MessageFacts

(* Narrowing withdraws the wildcard and subscribes to the topics.              *)
LEMMA NarrowedSays ==
    ASSUME LinkTypes
    PROVE  /\ Narrowed \in Seq(Messages)
           /\ \A t \in m_interest : Says(Narrowed, Subscribe(t))
           /\ \A t \in Topics : ~ Says(Narrowed, Unsubscribe(t))
           /\ \A m : Says(Narrowed, m) => \E t \in AllTopics : m \in {Subscribe(t), Unsubscribe(t)}
<1>1. Unsubscribe(WILDCARD_TOPIC) \in Messages
  BY MessageFacts DEF AllTopics
<1>2. /\ Subscribes(m_interest) \in Seq(Messages)
      /\ \A m : Says(Subscribes(m_interest), m) <=> \E t \in m_interest : m = Subscribe(t)
  <2>1. m_interest \in SUBSET AllTopics /\ IsFiniteSet(m_interest)
    BY DEF LinkTypes, AllTopics
  <2> QED
    BY <2>1, SubscribesSays
<1>3. /\ Narrowed \in Seq(Messages)
      /\ \A n : Says(Narrowed, n) <=>
            Unsubscribe(WILDCARD_TOPIC) = n \/ Says(Subscribes(m_interest), n)
  BY <1>1, <1>2, ConcatSays DEF Narrowed
<1>4. \A t \in Topics : Unsubscribe(WILDCARD_TOPIC) # Unsubscribe(t)
  BY LinksAssumption, MessageFacts
<1>5. \A t \in m_interest : Says(Narrowed, Subscribe(t))
  BY <1>2, <1>3
<1>6. \A t \in Topics : ~ Says(Narrowed, Unsubscribe(t))
  BY <1>2, <1>3, <1>4, MessageFacts
<1>7. \A m : Says(Narrowed, m) => \E t \in AllTopics : m \in {Subscribe(t), Unsubscribe(t)}
  BY Zenon, <1>2, <1>3 DEF AllTopics, LinkTypes
<1> QED
  BY <1>3, <1>5, <1>6, <1>7
--------------------------------------------------------------------------------
(* What a message makes of the remote's subscriptions.                         *)
LEMMA HandledFacts ==
    ASSUME NEW m \in Messages, NEW T \in SUBSET AllTopics
    PROVE  /\ Handled(T, m[1], m[2]) \in SUBSET AllTopics
           /\ \A t \in AllTopics : m = Subscribe(t) => t \in Handled(T, m[1], m[2])
           /\ \A t \in T : m # Unsubscribe(t) /\ m # DisconnectMessage =>
                 t \in Handled(T, m[1], m[2])
           /\ m[1] = "DISCONNECT" => Handled(T, m[1], m[2]) = {}
<1> DEFINE h == Handled(T, m[1], m[2])
<1>1. CASE \E t \in AllTopics : m = Subscribe(t)
  <2>1. PICK t \in AllTopics : m = Subscribe(t)
    BY <1>1
  <2>2. m[1] = "SUBSCRIBE" /\ m[2] = t
    BY <2>1 DEF Subscribe
  <2>3. h = T \cup {t}
    BY <2>2 DEF Handled
  <2> QED
    BY <2>1, <2>2, <2>3, MessageFacts
<1>2. CASE \E t \in AllTopics : m = Unsubscribe(t)
  <2>1. PICK t \in AllTopics : m = Unsubscribe(t)
    BY <1>2
  <2>2. m[1] = "UNSUBSCRIBE" /\ m[2] = t
    BY <2>1 DEF Unsubscribe
  <2>3. h = T \ {t}
    BY <2>2 DEF Handled
  <2> QED
    BY <2>1, <2>2, <2>3, MessageFacts
<1>3. CASE m = DisconnectMessage
  <2>1. m[1] = "DISCONNECT"
    BY Zenon, <1>3 DEF DisconnectMessage
  <2>2. h = {}
    BY <2>1 DEF Handled
  <2> QED
    BY <1>3, <2>1, <2>2, MessageFacts
<1>4. CASE m \in {ConnectMessage, HeartbeatMessage}
  <2>1. m[1] \in {"CONNECT", "HEARTBEAT"}
    <3>1. ConnectMessage[1] = "CONNECT" /\ HeartbeatMessage[1] = "HEARTBEAT"
      BY DEF ConnectMessage, HeartbeatMessage
    <3> QED
      BY <1>4, <3>1
  <2>2. h = T
    BY Zenon, <2>1 DEF Handled
  <2> QED
    BY <1>4, <2>1, <2>2, MessageFacts
<1> QED
  BY <1>1, <1>2, <1>3, <1>4 DEF Messages, Subscribe, Unsubscribe

(* Every step keeps the types.                                                 *)
LEMMA TypesStep ==
    ASSUME LinkTypes, [Next]_vars
    PROVE  LinkTypes'
<1> USE DEF LinkTypes, AllTopics
<1>1. ASSUME NEW t \in AllTopics, noteTopicSubscribed(t) PROVE LinkTypes'
  <2>1. m_interest' \in SUBSET Topics /\ IsFiniteSet(m_interest')
    <3>1. m_interest' = m_interest \/ (t \in Topics /\ m_interest' = m_interest \cup {t})
      BY <1>1 DEF noteTopicSubscribed
    <3>2. IsFiniteSet(m_interest \cup {t})
      BY Zenon, FS_AddElement
    <3> QED
      BY Zenon, <3>1, <3>2
  <2>2. m_interestSaturated' \in BOOLEAN /\ m_interestWildcard' \in BOOLEAN
    <3>1. m_interestSaturated' \in {m_interestSaturated, Cardinality(m_interest') > MaxInterestTopics}
      BY <1>1 DEF noteTopicSubscribed
    <3>2. (Cardinality(m_interest') > MaxInterestTopics) \in BOOLEAN
      OBVIOUS
    <3>3. m_interestWildcard' \in {m_interestWildcard, TRUE}
      BY Zenon, <1>1 DEF noteTopicSubscribed
    <3> QED
      BY Zenon, <3>1, <3>2, <3>3
  <2>3. updates' \in Seq(Messages)
    <3>1. Subscribe(t) \in Messages /\ Subscribe(WILDCARD_TOPIC) \in Messages
      BY MessageFacts
    <3>2. <<Subscribe(t)>> \in Seq(Messages) /\ <<Subscribe(WILDCARD_TOPIC)>> \in Seq(Messages)
      BY <3>1, ShortSays
    <3>3. updates' \in {updates, <<Subscribe(t)>>, <<Subscribe(WILDCARD_TOPIC)>>}
      BY <1>1 DEF noteTopicSubscribed
    <3> QED
      BY Zenon, <3>2, <3>3
  <2>4. telling' = FALSE
    BY <1>1 DEF noteTopicSubscribed, BrokerFree
  <2> QED
    BY <1>1, <2>1, <2>2, <2>3, <2>4 DEF noteTopicSubscribed, linkVars, remoteVars
<1>2. ASSUME NEW t \in AllTopics, noteTopicUnsubscribed(t) PROVE LinkTypes'
  <2>1. m_interest' \in SUBSET Topics /\ IsFiniteSet(m_interest')
    <3>1. m_interest' \in {m_interest, m_interest \ {t}}
      BY <1>2 DEF noteTopicUnsubscribed
    <3>2. IsFiniteSet(m_interest \ {t})
      BY Zenon, FS_RemoveElement
    <3> QED
      BY Zenon, <3>1, <3>2
  <2>2. m_interestSaturated' \in BOOLEAN /\ m_interestWildcard' \in BOOLEAN
    BY Zenon, <1>2 DEF noteTopicUnsubscribed
  <2>3. updates' \in Seq(Messages)
    <3>1. Unsubscribe(t) \in Messages
      BY MessageFacts
    <3>2. <<Unsubscribe(t)>> \in Seq(Messages) /\ <<>> \in Seq(Messages)
      BY <3>1, ShortSays
    <3>3. updates' \in {updates, <<Unsubscribe(t)>>, <<>>, Narrowed}
      BY <1>2 DEF noteTopicUnsubscribed
    <3> QED
      BY Zenon, <3>2, <3>3, NarrowedSays
  <2>4. telling' = FALSE
    BY <1>2 DEF noteTopicUnsubscribed, BrokerFree
  <2> QED
    BY <1>2, <2>1, <2>2, <2>3, <2>4 DEF noteTopicUnsubscribed, linkVars, remoteVars
<1>3. CASE LockPeers
  BY <1>3 DEF LockPeers, interestVars, linkVars, remoteVars
<1>4. CASE Tell
  <2>1. updates # <<>>
    BY <1>4 DEF Tell
  <2>2. Head(updates) \in Messages /\ Tail(updates) \in Seq(Messages)
    BY <2>1, TailSays
  <2>3. updates' \in Seq(Messages) /\ telling' \in BOOLEAN /\ (telling' => updates' # <<>>)
    BY Zenon, <1>4, <2>2 DEF Tell
  <2>4. pipe' \in [Links -> Seq(Messages)]
    BY <1>4, <2>2, AppendSays DEF Tell
  <2>5. missed' \in [Links -> SUBSET Messages]
    BY <1>4, <2>2 DEF Tell
  <2> QED
    BY <1>4, <2>3, <2>4, <2>5 DEF Tell, interestVars, linkVars, remoteVars
<1>5. ASSUME NEW l \in Links, addPeer(l) PROVE LinkTypes'
  <2>1. pipe' \in [Links -> Seq(Messages)]
    BY Zenon, <1>5, DialSays DEF addPeer, ConnectMessage
  <2> QED
    BY Zenon, <1>5, <2>1 DEF addPeer, interestVars, tellVars, remoteVars
<1>6. ASSUME NEW l \in Links, RegisterPeer(l) PROVE LinkTypes'
  <2>1. pipe' \in [Links -> Seq(Messages)]
    <3>1. <<>> \in Seq(Messages)
      BY ShortSays, MessageFacts
    <3> QED
      BY Zenon, <1>6, <3>1 DEF RegisterPeer
  <2>2. m_peers' \in SUBSET Links /\ active' \in SUBSET Links
    BY <1>6 DEF RegisterPeer
  <2>3. state' \in [Links -> {"none", "dialed", "up", "stopping"}]
    BY Zenon, <1>6 DEF RegisterPeer
  <2> QED
    BY <1>6, <2>1, <2>2, <2>3 DEF RegisterPeer, interestVars, tellVars
<1>7. ASSUME NEW l \in Links, removePeer(l) PROVE LinkTypes'
  <2>1. pipe' \in [Links -> Seq(Messages)]
    <3>1. DisconnectMessage \in Messages
      BY MessageFacts
    <3>2. Append(pipe[l], DisconnectMessage) \in Seq(Messages)
      BY <3>1, AppendSays
    <3> QED
      BY Zenon, <1>7, <3>2 DEF removePeer, DisconnectMessage
  <2> QED
    BY Zenon, <1>7, <2>1 DEF removePeer, interestVars, tellVars, remoteVars
<1>8. ASSUME NEW l \in Links, OnReset(l) PROVE LinkTypes'
  <2>1. Tail(back[l]) \in Seq({"RESET", "UNLINK"})
    BY <1>8, TailSays DEF OnReset
  <2>2. back' \in [Links -> Seq({"RESET", "UNLINK"})]
    BY <1>8, <2>1 DEF OnReset
  <2>3. answer' \in [Links -> Seq(Messages)]
    BY <1>8, SnapshotSays DEF OnReset
  <2>4. missed' \in [Links -> SUBSET Messages]
    BY <1>8 DEF OnReset
  <2> QED
    BY <1>8, <2>2, <2>3, <2>4 DEF OnReset, interestVars, tellVars, linkVars, remoteVars
<1>9. ASSUME NEW l \in Links, OnUnlink(l) PROVE LinkTypes'
  <2>1. Tail(back[l]) \in Seq({"RESET", "UNLINK"})
    BY <1>9, TailSays DEF OnUnlink
  <2>2. back' \in [Links -> Seq({"RESET", "UNLINK"})]
    BY <1>9, <2>1 DEF OnUnlink
  <2> QED
    BY <1>9, <2>2 DEF OnUnlink, interestVars, tellVars, remoteVars
<1>10. ASSUME NEW l \in Links, Answer(l) PROVE LinkTypes'
  <2>1. Head(answer[l]) \in Messages /\ Tail(answer[l]) \in Seq(Messages)
    BY <1>10, TailSays DEF Answer
  <2>2. Append(pipe[l], Head(answer[l])) \in Seq(Messages)
    BY <2>1, AppendSays
  <2>3. pipe' \in [Links -> Seq(Messages)] /\ answer' \in [Links -> Seq(Messages)]
    BY <1>10, <2>1, <2>2 DEF Answer
  <2> QED
    BY <1>10, <2>3 DEF Answer, interestVars, tellVars, linkVars, remoteVars
<1>11. ASSUME NEW l \in Links, Heartbeat(l) PROVE LinkTypes'
  <2>1. <<HeartbeatMessage>> \in Seq(Messages)
    BY ShortSays, MessageFacts
  <2>2. pipe' \in [Links -> Seq(Messages)]
    BY Zenon, <1>11, <2>1 DEF Heartbeat, HeartbeatMessage
  <2> QED
    BY Zenon, <1>11, <2>2 DEF Heartbeat, interestVars, tellVars, linkVars, remoteVars
<1>12. ASSUME NEW l \in Links, Stopped(l) PROVE LinkTypes'
  <2>1. <<>> \in Seq({"RESET", "UNLINK"})
    BY ShortSays
  <2>2. back' \in [Links -> Seq({"RESET", "UNLINK"})]
    BY <1>12, <2>1 DEF Stopped
  <2> QED
    BY <1>12, <2>2 DEF Stopped, interestVars, tellVars, remoteVars
<1>13. ASSUME NEW l \in Links, Deliver(l) PROVE LinkTypes'
  <2>1. Head(pipe[l]) \in Messages /\ Tail(pipe[l]) \in Seq(Messages)
    BY <1>13, TailSays DEF Deliver
  <2>2. pipe' \in [Links -> Seq(Messages)]
    BY <1>13, <2>1 DEF Deliver
  <2>3. held' \in [Links -> SUBSET AllTopics]
    <3> HIDE DEF AllTopics
    <3>0. held[l] \in SUBSET AllTopics
      BY Zenon
    <3> DEFINE m == Head(pipe[l])
    <3>1. held' = [held EXCEPT ![l] = Handled(held[l], m[1], m[2])]
      BY <1>13 DEF Deliver
    <3>2. m \in Messages
      BY <2>1
    <3> HIDE DEF m
    <3>3. Handled(held[l], m[1], m[2]) \in SUBSET AllTopics
      BY Zenon, <3>0, <3>2, HandledFacts
    <3> QED
      BY <3>1, <3>3
  <2>4. Append(back[l], "RESET") \in Seq({"RESET", "UNLINK"})
    BY AppendSays
  <2>5. back' \in [Links -> Seq({"RESET", "UNLINK"})]
    BY <1>13, <2>4 DEF Deliver, AskUnknown
  <2>6. session' \in SUBSET Links
    BY <1>13 DEF Deliver
  <2> QED
    BY <1>13, <2>2, <2>3, <2>5, <2>6 DEF Deliver, interestVars, tellVars, linkVars
<1>14. ASSUME NEW l \in Links, RemoteForgets(l) PROVE LinkTypes'
  <2>1. session' \in SUBSET Links /\ held' \in [Links -> SUBSET AllTopics]
    BY <1>14 DEF RemoteForgets
  <2>2. pipe' \in [Links -> Seq(Messages)]
    <3>1. \A n \in 0 .. Len(pipe[l]) : SubSeq(pipe[l], n + 1, Len(pipe[l])) \in Seq(Messages)
      BY SuffixSays
    <3>2. \/ UNCHANGED pipe
          \/ \E n \in 0 .. Len(pipe[l]) :
                pipe' = [pipe EXCEPT ![l] = SubSeq(@, n + 1, Len(@))]
      BY Zenon, <1>14 DEF RemoteForgets, RemoteSweeps, RemoteRestarts, unlinkInboundPeers
    <3> QED
      BY Zenon, <3>1, <3>2
  <2>3. back' \in [Links -> Seq({"RESET", "UNLINK"})]
    <3>1. <<>> \in Seq({"RESET", "UNLINK"}) /\ Append(back[l], "UNLINK") \in Seq({"RESET", "UNLINK"})
      BY ShortSays, AppendSays
    <3> QED
      BY Zenon, <1>14, <3>1 DEF RemoteForgets, RemoteSweeps, RemoteRestarts, unlinkInboundPeers
  <2> QED
    BY <1>14, <2>1, <2>2, <2>3 DEF RemoteForgets, interestVars, tellVars, linkVars
<1>15. CASE UNCHANGED vars
  BY <1>15 DEF vars, interestVars, tellVars, linkVars, remoteVars
<1> QED
  BY <1>1, <1>2, <1>3, <1>4, <1>5, <1>6, <1>7, <1>8, <1>9, <1>10, <1>11, <1>12, <1>13, <1>14, <1>15
     DEF Next, BrokerStep, WorkerStep
--------------------------------------------------------------------------------
(* The links in m_peers, as TypeOK has them, and their addresses.              *)
PeersInv ==
    /\ m_peers = {l \in Links : state[l] = "up"}
    /\ active \subseteq m_peers
    /\ \A l \in Links : l \notin session => held[l] = {}
    /\ OneLinkPerAddress

(* Every step keeps them: RegisterPeer looks for the address under the lock    *)
(* under which it registers the link.                                          *)
LEMMA PeersStep ==
    ASSUME LinkTypes, PeersInv, [Next]_vars
    PROVE  PeersInv'
<1> USE DEF PeersInv, OneLinkPerAddress
<1>1. UNCHANGED <<m_peers, state, active, session, held>> => PeersInv'
  OBVIOUS
<1>2. ASSUME NEW l \in Links, addPeer(l) PROVE PeersInv'
  <2>1. /\ UNCHANGED <<m_peers, active, session, held>>
        /\ state[l] = "none" /\ state' = [state EXCEPT ![l] = "dialed"]
    BY <1>2, Zenon DEF addPeer, remoteVars
  <2>2. m_peers' = {k \in Links : state'[k] = "up"}
    BY <2>1 DEF LinkTypes
  <2> QED
    BY <2>1, <2>2
<1>3. ASSUME NEW l \in Links, RegisterPeer(l) PROVE PeersInv'
  <2>1. UNCHANGED <<session, held>>
    BY <1>3 DEF RegisterPeer
  <2>2. CASE Linked(l) = {}
    <3>1. m_peers' = m_peers \cup {l} /\ active' = active \cup {l} /\ state' = [state EXCEPT ![l] = "up"]
      BY <1>3, <2>2 DEF RegisterPeer
    <3>2. \A k \in m_peers : AddressOf[k] # AddressOf[l]
      BY <2>2 DEF Linked
    <3>3. OneLinkPerAddress'
      BY <3>1, <3>2
    <3>4. m_peers' = {k \in Links : state'[k] = "up"}
      BY <3>1 DEF LinkTypes
    <3> QED
      BY <2>1, <3>1, <3>3, <3>4
  <2>3. CASE Linked(l) # {}
    <3>1. UNCHANGED <<m_peers, active>> /\ state' = [state EXCEPT ![l] = "none"] /\ state[l] = "dialed"
      BY <1>3, <2>3 DEF RegisterPeer
    <3>2. m_peers' = {k \in Links : state'[k] = "up"}
      BY <3>1 DEF LinkTypes
    <3> QED
      BY <2>1, <3>1, <3>2
  <2> QED
    BY <2>2, <2>3
<1>4. ASSUME NEW l \in Links, removePeer(l) PROVE PeersInv'
  <2>1. /\ UNCHANGED <<session, held>>
        /\ m_peers' = m_peers \ {l} /\ active' = active \ {l}
        /\ state' = [state EXCEPT ![l] = "stopping"]
    BY <1>4, Zenon DEF removePeer, remoteVars
  <2>2. m_peers' = {k \in Links : state'[k] = "up"}
    BY <2>1 DEF LinkTypes
  <2> QED
    BY <2>1, <2>2
<1>5. ASSUME NEW l \in Links, Stopped(l) PROVE PeersInv'
  BY <1>5 DEF Stopped, remoteVars, LinkTypes
<1>6. ASSUME NEW l \in Links, OnUnlink(l) PROVE PeersInv'
  BY <1>6 DEF OnUnlink, remoteVars
<1>7. ASSUME NEW l \in Links, Deliver(l) PROVE PeersInv'
  <2> DEFINE m == Head(pipe[l])
  <2>1. /\ held' = [held EXCEPT ![l] = Handled(held[l], m[1], m[2])]
        /\ session' = IF m[1] = "DISCONNECT" THEN session \ {l} ELSE session \cup {l}
        /\ UNCHANGED <<m_peers, state, active>>
    BY <1>7 DEF Deliver, linkVars
  <2>2. m \in Messages /\ held[l] \in SUBSET AllTopics
    BY <1>7, TailSays DEF Deliver, LinkTypes
  <2> HIDE DEF m
  <2>3. m[1] = "DISCONNECT" => Handled(held[l], m[1], m[2]) = {}
    BY Zenon, <2>2, HandledFacts
  <2>4. \A k \in Links : k \notin session' => held'[k] = {}
    BY <2>1, <2>3 DEF LinkTypes
  <2> QED
    BY <2>1, <2>4
<1>8. ASSUME NEW l \in Links, RemoteForgets(l) PROVE PeersInv'
  BY <1>8 DEF RemoteForgets, linkVars, LinkTypes
<1>9. ASSUME NEW t \in Topics \cup {WILDCARD_TOPIC}, noteTopicSubscribed(t) \/ noteTopicUnsubscribed(t)
      PROVE  PeersInv'
  BY <1>1, <1>9 DEF noteTopicSubscribed, noteTopicUnsubscribed, linkVars, remoteVars
<1>10. CASE BrokerStep \/ UNCHANGED vars
  BY Zenon, <1>1, <1>10 DEF BrokerStep, LockPeers, Tell, vars, linkVars, remoteVars
<1>11. ASSUME NEW l \in Links, OnReset(l) \/ Answer(l) \/ Heartbeat(l) PROVE PeersInv'
  <2>1. UNCHANGED <<linkVars, remoteVars>>
    BY <1>11, Zenon DEF OnReset, Answer, Heartbeat
  <2> QED
    BY <1>1, <2>1 DEF linkVars, remoteVars
<1> QED
  BY Zenon, <1>2, <1>3, <1>4, <1>5, <1>6, <1>7, <1>8, <1>9, <1>10, <1>11 DEF Next, WorkerStep
--------------------------------------------------------------------------------
(* What is on its way to the links never takes back what is wanted: an update  *)
(* was decided together with the interest, and an answer only subscribes.      *)
UpdatesInv ==
    /\ \A t \in Interest : ~ Says(updates, Unsubscribe(t))
    /\ \A m : Says(updates, m) => \E t \in AllTopics : m \in {Subscribe(t), Unsubscribe(t)}
    /\ \A l \in Links : \A m : Says(answer[l], m) => \E t \in AllTopics : m = Subscribe(t)

InterestUnchanged == UNCHANGED <<m_interest, m_interestSaturated, m_interestWildcard>>

(* The interest is one of all topics.                                          *)
LEMMA InterestType == LinkTypes => Interest \subseteq AllTopics
BY DEF Interest, LinkTypes, AllTopics

(* A subscription adds at most one topic to the interest, and its update says  *)
(* so.                                                                         *)
LEMMA SubscribedUpdates ==
    ASSUME LinkTypes, UpdatesInv, NEW t \in AllTopics, noteTopicSubscribed(t)
    PROVE  /\ \A u \in Interest' : u \in Interest \/ Says(updates', Subscribe(u))
           /\ \A u : ~ Says(updates', Unsubscribe(u))
           /\ \A m : Says(updates', m) => \E u \in AllTopics : m \in {Subscribe(u), Unsubscribe(u)}
<1>0. updates = <<>> /\ WILDCARD_TOPIC \in AllTopics
  BY DEF noteTopicSubscribed, BrokerFree, AllTopics
<1>1. CASE t = WILDCARD_TOPIC
  <2>1. updates' = <<Subscribe(WILDCARD_TOPIC)>> /\ m_interestWildcard' = TRUE
    BY <1>1 DEF noteTopicSubscribed
  <2>2. Interest' = {WILDCARD_TOPIC}
    BY <2>1 DEF Interest
  <2>3. \A m : Says(updates', m) <=> m = Subscribe(WILDCARD_TOPIC)
    BY <2>1, OneSays
  <2> QED
    BY <1>0, <2>2, <2>3, MessageFacts
<1>2. CASE t # WILDCARD_TOPIC /\ ~ m_interestSaturated
  <2>1. /\ m_interest' = m_interest \cup {t} /\ m_interestWildcard' = m_interestWildcard
        /\ updates' = <<Subscribe(IF m_interestSaturated' THEN WILDCARD_TOPIC ELSE t)>>
    BY <1>2 DEF noteTopicSubscribed
  <2>2. CASE m_interestSaturated'
    <3>1. updates' = <<Subscribe(WILDCARD_TOPIC)>> /\ Interest' = {WILDCARD_TOPIC}
      BY <2>1, <2>2 DEF Interest
    <3>2. \A m : Says(updates', m) <=> m = Subscribe(WILDCARD_TOPIC)
      BY <3>1, OneSays
    <3> QED
      BY <1>0, <3>1, <3>2, MessageFacts
  <2>3. CASE ~ m_interestSaturated'
    <3>1. updates' = <<Subscribe(t)>>
      BY <2>1, <2>3
    <3>2. Interest' \subseteq Interest \cup {t}
      BY <1>2, <2>1, <2>3 DEF Interest
    <3>3. \A m : Says(updates', m) <=> m = Subscribe(t)
      BY <3>1, OneSays
    <3> QED
      BY <3>2, <3>3, MessageFacts
  <2> QED
    BY <2>2, <2>3
<1>3. CASE t # WILDCARD_TOPIC /\ m_interestSaturated
  <2>1. InterestUnchanged /\ updates' = updates
    BY <1>3, Zenon DEF noteTopicSubscribed, InterestUnchanged
  <2>2. Interest' = Interest
    BY <2>1 DEF InterestUnchanged, Interest
  <2> QED
    BY <1>0, <2>1, <2>2, EmptySays
<1> QED
  BY <1>1, <1>2, <1>3

(* An unsubscription leaves a part of the interest, or the topics that narrow  *)
(* the wildcard, and its update takes back nothing of these.                   *)
LEMMA UnsubscribedUpdates ==
    ASSUME LinkTypes, UpdatesInv, NEW t \in AllTopics, noteTopicUnsubscribed(t)
    PROVE  /\ \A u \in Interest' : u \in Interest \/ Says(updates', Subscribe(u))
           /\ \A u \in Interest' : ~ Says(updates', Unsubscribe(u))
           /\ \A m : Says(updates', m) => \E u \in AllTopics : m \in {Subscribe(u), Unsubscribe(u)}
<1>0. updates = <<>> /\ m_interestSaturated' = m_interestSaturated
  BY DEF noteTopicUnsubscribed, BrokerFree
<1>1. CASE t = WILDCARD_TOPIC /\ ~ m_interestSaturated
  <2>1. updates' = Narrowed /\ m_interestWildcard' = FALSE /\ m_interest' = m_interest
    BY <1>1 DEF noteTopicUnsubscribed
  <2>2. Interest' = m_interest /\ m_interest \subseteq Topics
    BY <1>0, <1>1, <2>1 DEF Interest, LinkTypes
  <2> QED
    BY <2>1, <2>2, NarrowedSays DEF AllTopics
<1>2. CASE t = WILDCARD_TOPIC /\ m_interestSaturated
  <2>1. updates' = <<>>
    BY <1>2 DEF noteTopicUnsubscribed
  <2>2. Interest' = Interest
    BY <1>0, <1>2 DEF Interest
  <2> QED
    BY <2>1, <2>2, EmptySays
<1>3. CASE t # WILDCARD_TOPIC /\ ~ m_interestSaturated
  <2>1. /\ updates' = <<Unsubscribe(t)>> /\ m_interestWildcard' = m_interestWildcard
        /\ m_interest' = m_interest \ {t}
    BY <1>3 DEF noteTopicUnsubscribed
  <2>2. Interest' \subseteq Interest /\ t \notin Interest'
    BY <1>0, <1>3, <2>1 DEF Interest
  <2>3. \A m : Says(updates', m) <=> m = Unsubscribe(t)
    BY <2>1, OneSays
  <2> QED
    BY <2>2, <2>3, MessageFacts
<1>4. CASE t # WILDCARD_TOPIC /\ m_interestSaturated
  <2>1. updates' = <<>> /\ Interest' = Interest
    BY <1>0, <1>4 DEF noteTopicUnsubscribed, Interest
  <2> QED
    BY <2>1, EmptySays
<1> QED
  BY <1>1, <1>2, <1>3, <1>4

(* Every step keeps it.                                                        *)
LEMMA UpdatesStep ==
    ASSUME LinkTypes, UpdatesInv, [Next]_vars
    PROVE  UpdatesInv'
<1>1. UNCHANGED <<interestVars, tellVars, answer>> => UpdatesInv'
  BY SMTT(30) DEF UpdatesInv, interestVars, tellVars, Interest
<1>2. ASSUME NEW t \in AllTopics, noteTopicSubscribed(t) PROVE UpdatesInv'
  <2>1. answer' = answer
    BY <1>2 DEF noteTopicSubscribed
  <2> QED
    BY <1>2, <2>1, SubscribedUpdates DEF UpdatesInv
<1>3. ASSUME NEW t \in AllTopics, noteTopicUnsubscribed(t) PROVE UpdatesInv'
  <2>1. answer' = answer
    BY <1>3 DEF noteTopicUnsubscribed
  <2> QED
    BY <1>3, <2>1, UnsubscribedUpdates DEF UpdatesInv
<1>4. CASE Tell
  <2>1. updates \in Seq(Messages) /\ updates # <<>>
    BY <1>4 DEF Tell, LinkTypes
  <2>2. \A m : Says(Tail(updates), m) => Says(updates, m)
    BY <2>1, TailSays
  <2>3. updates' = Tail(updates) /\ answer' = answer /\ Interest' = Interest
    BY <1>4 DEF Tell, interestVars, Interest
  <2> QED
    BY Zenon, <2>2, <2>3 DEF UpdatesInv
<1>5. ASSUME NEW l \in Links, OnReset(l) PROVE UpdatesInv'
  <2>1. updates' = updates /\ Interest' = Interest /\ answer' = [answer EXCEPT ![l] = Snapshot]
    BY <1>5 DEF OnReset, interestVars, tellVars, Interest
  <2>2. \A m : Says(Snapshot, m) => \E t \in AllTopics : m = Subscribe(t)
    BY SnapshotSays, InterestType
  <2> QED
    BY <2>1, <2>2 DEF UpdatesInv, LinkTypes
<1>6. ASSUME NEW l \in Links, Answer(l) PROVE UpdatesInv'
  <2>1. /\ updates' = updates /\ Interest' = Interest
        /\ answer[l] # <<>> /\ answer' = [answer EXCEPT ![l] = Tail(answer[l])]
    BY <1>6 DEF Answer, interestVars, tellVars, Interest
  <2>2. \A m : Says(Tail(answer[l]), m) => Says(answer[l], m)
    BY <2>1, TailSays DEF LinkTypes
  <2> QED
    BY <2>1, <2>2 DEF UpdatesInv, LinkTypes
<1>7. ASSUME NEW l \in Links, addPeer(l) \/ RegisterPeer(l) \/ removePeer(l) PROVE UpdatesInv'
  <2>1. UNCHANGED <<interestVars, tellVars, answer>>
    BY <1>7, Zenon DEF addPeer, RegisterPeer, removePeer
  <2> QED
    BY <1>1, <2>1
<1>8. ASSUME NEW l \in Links, OnUnlink(l) \/ Heartbeat(l) \/ Stopped(l) PROVE UpdatesInv'
  <2>1. UNCHANGED <<interestVars, tellVars, answer>>
    BY <1>8, Zenon DEF OnUnlink, Heartbeat, Stopped
  <2> QED
    BY <1>1, <2>1
<1>9. ASSUME NEW l \in Links, Deliver(l) \/ RemoteForgets(l) PROVE UpdatesInv'
  <2>1. UNCHANGED <<interestVars, tellVars, answer>>
    BY <1>9, Zenon DEF Deliver, RemoteForgets
  <2> QED
    BY <1>1, <2>1
<1>10. CASE LockPeers \/ UNCHANGED vars
  <2>1. UNCHANGED <<m_interest, m_interestSaturated, m_interestWildcard, updates, answer>>
    BY <1>10 DEF LockPeers, vars, interestVars, tellVars
  <2>2. Interest' = Interest
    BY Zenon, <2>1 DEF Interest
  <2> QED
    BY <2>1, <2>2 DEF UpdatesInv
<1> QED
  BY <1>2, <1>3, <1>4, <1>5, <1>6, <1>7, <1>8, <1>9, <1>10
     DEF Next, BrokerStep, WorkerStep, AllTopics
--------------------------------------------------------------------------------
(* How a topic of the interest gets to the remote of a link, or has got there: *)
(* the last word on it in the pipe is SUBSCRIBE, or one is still to be queued; *)
(* or the remote holds it and no UNSUBSCRIBE is on its way.                    *)
Said(l, t) ==
    \/ LastSays(pipe[l], t)
    \/ Says(answer[l], Subscribe(t))
    \/ Says(updates, Subscribe(t)) /\ l \in m_peers \cup unaware

Holds(l, t) == t \in held[l] /\ ~ Says(pipe[l], Unsubscribe(t))

Covered(l, t) == Said(l, t) \/ (~ Says(pipe[l], ConnectMessage) /\ Holds(l, t))

(* Or the remote has forgotten the link, and has asked for everything or will  *)
(* ask at its next message.  CONNECT is the one message that it does not ask   *)
(* at: it is the first of a new link, and all that is wanted comes behind it.  *)
Renewing(l) ==
    ~ Says(pipe[l], ConnectMessage) /\ (l \notin session \/ Says(back[l], "RESET"))

LinkOk(l) ==
    /\ ConnectsFirst(pipe[l]) /\ ~ Says(pipe[l], DisconnectMessage)
    /\ Renewing(l) \/ \A t \in Interest \ Missed(l) : Covered(l, t)

Alive == {l \in Links : state[l] \in {"dialed", "up"}}

CoverInv == \A l \in Alive : LinkOk(l)

(* A link that a step does not touch stays as it is.                           *)
LEMMA SameLink ==
    ASSUME NEW k \in Links, LinkOk(k),
           updates' = updates, Interest' = Interest,
           pipe'[k] = pipe[k], answer'[k] = answer[k], held'[k] = held[k],
           back'[k] = back[k], missed'[k] = missed[k],
           k \in session' => k \in session,
           k \in m_peers \cup unaware => k \in m_peers' \cup unaware'
    PROVE  LinkOk(k)'
<1>1. Missed(k)' = Missed(k)
  BY Zenon DEF Missed
<1>2. Renewing(k) => Renewing(k)'
  BY Zenon DEF Renewing
<1>3. \A t : Covered(k, t) => Covered(k, t)'
  BY DEF Covered, Said, Holds
<1> QED
  BY <1>1, <1>2, <1>3 DEF LinkOk

(* A change of the interest covers itself by the update it decides on, which   *)
(* the links in m_peers will be told and those being dialed may still be.      *)
LEMMA ChangeCovered ==
    ASSUME LinkTypes, PeersInv, NEW k \in Alive, LinkOk(k),
           updates = <<>>,
           \A u \in Interest' : u \in Interest \/ Says(updates', Subscribe(u)),
           unaware' = Dialed,
           UNCHANGED <<linkVars, pipe, answer, back, remoteVars, missed>>
    PROVE  LinkOk(k)'
<1>1. UNCHANGED <<m_peers, state, pipe, answer, back, session, held, missed>>
  BY DEF linkVars, remoteVars
<1>2. Renewing(k) => Renewing(k)'
  BY <1>1 DEF Renewing
<1>3. k \in m_peers' \cup unaware'
  BY <1>1 DEF Alive, Dialed, PeersInv
<1>4. ASSUME NEW u \in Interest' \ Missed(k)', \A t \in Interest \ Missed(k) : Covered(k, t)
      PROVE  Covered(k, u)'
  <2>1. CASE Says(updates', Subscribe(u))
    BY Zenon, <1>3, <2>1 DEF Covered, Said
  <2>2. CASE u \in Interest
    <3>1. u \notin Missed(k)
      BY <1>1, <1>4, <2>2 DEF Missed
    <3>2. Covered(k, u)
      BY <1>4, <2>2, <3>1
    <3>3. ~ Says(updates, Subscribe(u))
      BY EmptySays
    <3> QED
      BY Zenon, <1>1, <3>2, <3>3 DEF Covered, Said, Holds
  <2> QED
    BY Zenon, <1>4, <2>1, <2>2
<1> QED
  BY <1>1, <1>2, <1>4 DEF LinkOk

(* Telling the links.  One in m_peers has the update in its pipe; one that is  *)
(* still being dialed has missed it.                                           *)
LEMMA TellCovered ==
    ASSUME LinkTypes, PeersInv, UpdatesInv, NEW k \in Alive, LinkOk(k), Tell
    PROVE  LinkOk(k)'
<1> DEFINE m == Head(updates)
           about == {<<key, m[2]>> : key \in {"SUBSCRIBE", "UNSUBSCRIBE"}}
<1>0. /\ updates # <<>> /\ updates' = Tail(updates)
      /\ UNCHANGED <<m_interest, m_interestSaturated, m_interestWildcard>>
      /\ UNCHANGED <<m_peers, state, answer, back, session, held, unaware>>
      /\ pipe'[k] = IF k \in m_peers THEN Append(pipe[k], m) ELSE pipe[k]
      /\ missed'[k] = IF k \in m_peers THEN missed[k] \ about
                      ELSE IF k \in unaware THEN missed[k] \cup {m} ELSE missed[k]
  BY Zenon DEF Tell, LinkTypes, Alive, interestVars, linkVars, remoteVars
<1>1. /\ m \in Messages /\ Says(updates, m)
      /\ \A n : Says(updates, n) <=> m = n \/ Says(Tail(updates), n)
  BY <1>0, TailSays DEF LinkTypes
<1>2. PICK s \in AllTopics : m \in {Subscribe(s), Unsubscribe(s)}
  BY <1>1 DEF UpdatesInv
<1>3. m # ConnectMessage /\ m # DisconnectMessage
  BY <1>2, MessageFacts
<1>4. \A t \in Interest : m # Unsubscribe(t)
  BY <1>1 DEF UpdatesInv
<1>5. \A t : Subscribe(t) \in about => t = s
  BY <1>2 DEF Subscribe, Unsubscribe
<1>6. Interest' = Interest
  BY <1>0 DEF Interest
<1>7. k \in Links /\ pipe[k] \in Seq(Messages)
  BY Zenon DEF Alive, LinkTypes
<1> HIDE DEF m
<1>8. CASE k \in m_peers
  <2>1. /\ \A n : Says(pipe'[k], n) <=> Says(pipe[k], n) \/ m = n
        /\ \A t : m = Subscribe(t) => LastSays(pipe'[k], t)
        /\ \A t : LastSays(pipe[k], t) /\ m # Unsubscribe(t) => LastSays(pipe'[k], t)
        /\ ConnectsFirst(pipe[k]) => ConnectsFirst(pipe'[k])
    BY SMTT(30), <1>0, <1>1, <1>3, <1>7, <1>8, AppendSays
  <2>2. Renewing(k) => Renewing(k)'
    BY <1>0, <1>3, <2>1 DEF Renewing
  <2>3. ASSUME NEW t \in Interest' \ Missed(k)', \A u \in Interest \ Missed(k) : Covered(k, u)
        PROVE  Covered(k, t)'
    <3>1. CASE m = Subscribe(t)
      BY <2>1, <3>1 DEF Covered, Said
    <3>2. CASE m # Subscribe(t)
      <4>1. Subscribe(t) \notin about
        BY <1>2, <1>4, <1>5, <1>6, <2>3, <3>2
      <4>2. t \in Interest \ Missed(k)
        BY Zenon, <1>0, <1>6, <1>8, <2>3, <4>1 DEF Missed, Subscribe
      <4>3. Covered(k, t) /\ m # Unsubscribe(t)
        BY Zenon, <1>4, <2>3, <4>2
      <4>4. Says(updates, Subscribe(t)) => Says(updates', Subscribe(t))
        BY Zenon, <1>0, <1>1, <3>2
      <4> QED
        BY Zenon, <1>0, <1>3, <2>1, <4>3, <4>4 DEF Covered, Said, Holds
    <3> QED
      BY Zenon, <3>1, <3>2
  <2> QED
    BY Zenon, <1>3, <2>1, <2>2, <2>3 DEF LinkOk
<1>9. CASE k \notin m_peers
  <2>1. pipe'[k] = pipe[k] /\ missed[k] \subseteq missed'[k]
    BY <1>0, <1>9
  <2>2. Renewing(k) => Renewing(k)'
    BY Zenon, <1>0, <2>1 DEF Renewing
  <2>3. ASSUME NEW t \in Interest' \ Missed(k)', \A u \in Interest \ Missed(k) : Covered(k, u)
        PROVE  Covered(k, t)'
    <3>1. t \in Interest \ Missed(k) /\ Subscribe(t) \notin missed'[k]
      BY <1>6, <2>1, <2>3 DEF Missed, Subscribe
    <3>2. k \in unaware => m # Subscribe(t)
      BY <1>0, <1>9, <3>1
    <3>3. Covered(k, t)
      BY <2>3, <3>1
    <3> QED
      BY Zenon, <1>0, <1>1, <1>9, <2>1, <3>2, <3>3 DEF Covered, Said, Holds
  <2> QED
    BY Zenon, <2>1, <2>2, <2>3 DEF LinkOk
<1> QED
  BY Zenon, <1>8, <1>9

(* CONNECT and DISCONNECT are known by their keys.                             *)
LEMMA KeyFacts ==
    ASSUME NEW m \in Messages
    PROVE  /\ m[1] = "CONNECT" <=> m = ConnectMessage
           /\ m[1] = "DISCONNECT" <=> m = DisconnectMessage
<1>1. /\ ConnectMessage[1] = "CONNECT" /\ DisconnectMessage[1] = "DISCONNECT"
      /\ HeartbeatMessage[1] = "HEARTBEAT"
  BY DEF ConnectMessage, DisconnectMessage, HeartbeatMessage
<1>2. m \in {"SUBSCRIBE", "UNSUBSCRIBE"} \X AllTopics => m[1] \in {"SUBSCRIBE", "UNSUBSCRIBE"}
  OBVIOUS
<1> QED
  BY <1>1, <1>2 DEF Messages

(* The first message of a pipe reaches the remote.                             *)
LEMMA DeliverCovered ==
    ASSUME LinkTypes, NEW k \in Alive, LinkOk(k), Deliver(k)
    PROVE  LinkOk(k)'
<1> DEFINE m == Head(pipe[k])
<1>0. /\ k \in Links /\ pipe[k] \in Seq(Messages) /\ pipe[k] # <<>>
      /\ held[k] \in SUBSET AllTopics /\ back[k] \in Seq({"RESET", "UNLINK"})
  BY DEF Alive, LinkTypes, Deliver
<1>1. /\ pipe'[k] = Tail(pipe[k])
      /\ held'[k] = Handled(held[k], m[1], m[2])
      /\ session' = IF m[1] = "DISCONNECT" THEN session \ {k} ELSE session \cup {k}
      /\ back' = AskUnknown(k, m[1])
      /\ UNCHANGED <<m_interest, m_interestSaturated, m_interestWildcard>>
      /\ UNCHANGED <<updates, m_peers, answer, unaware, missed>>
  BY Zenon, <1>0 DEF Deliver, LinkTypes, interestVars, tellVars, linkVars
<1>2. /\ m \in Messages
      /\ \A n : Says(pipe[k], n) <=> m = n \/ Says(pipe'[k], n)
      /\ \A t : LastSays(pipe[k], t) =>
            LastSays(pipe'[k], t) \/ (m = Subscribe(t) /\ ~ Says(pipe'[k], Unsubscribe(t)))
      /\ ConnectsFirst(pipe[k]) => ~ Says(pipe'[k], ConnectMessage) /\ ConnectsFirst(pipe'[k])
  <2> DEFINE q == pipe[k]
  <2>1. q \in Seq(Messages) /\ q # <<>> /\ m = Head(q) /\ pipe'[k] = Tail(q)
    BY Zenon, <1>0, <1>1
  <2> HIDE DEF q, m
  <2>2. /\ Head(q) \in Messages
        /\ \A n : Says(q, n) <=> Head(q) = n \/ Says(Tail(q), n)
        /\ \A t : LastSays(q, t) =>
              LastSays(Tail(q), t) \/ (Head(q) = Subscribe(t) /\ ~ Says(Tail(q), Unsubscribe(t)))
        /\ ConnectsFirst(q) => ~ Says(Tail(q), ConnectMessage) /\ ConnectsFirst(Tail(q))
    BY Zenon, <2>1, TailSays
  <2> QED
    BY Zenon, <2>1, <2>2 DEF q
<1>3. m # DisconnectMessage
  BY Zenon, <1>2 DEF LinkOk
<1>4. /\ m[1] = "CONNECT" <=> m = ConnectMessage
      /\ m[1] = "DISCONNECT" <=> m = DisconnectMessage
  BY Zenon, <1>2, KeyFacts
<1>5. Interest' = Interest /\ Missed(k)' = Missed(k)
  BY Zenon, <1>1 DEF Interest, Missed
<1> HIDE DEF m
<1>6. /\ \A t \in AllTopics : m = Subscribe(t) => t \in held'[k]
      /\ \A t \in held[k] : m # Unsubscribe(t) => t \in held'[k]
  <2> DEFINE T == held[k]
  <2>1. T \in SUBSET AllTopics /\ m \in Messages
    BY <1>0, <1>2
  <2>2. held'[k] = Handled(T, m[1], m[2])
    BY Zenon, <1>1
  <2> HIDE DEF T
  <2>3. /\ \A t \in AllTopics : m = Subscribe(t) => t \in Handled(T, m[1], m[2])
        /\ \A t \in T : m # Unsubscribe(t) /\ m # DisconnectMessage => t \in Handled(T, m[1], m[2])
    BY <2>1, HandledFacts
  <2> QED
    BY Zenon, <1>3, <2>2, <2>3 DEF T
<1>7. ~ Says(pipe'[k], ConnectMessage) /\ ConnectsFirst(pipe'[k]) /\ ~ Says(pipe'[k], DisconnectMessage)
  BY Zenon, <1>2 DEF LinkOk
<1>8. ASSUME NEW t \in AllTopics, Covered(k, t) PROVE Covered(k, t)'
  <2>1. CASE LastSays(pipe[k], t)
    BY Zenon, <1>2, <1>6, <1>7, <2>1 DEF Covered, Said, Holds
  <2>2. CASE Said(k, t) /\ ~ LastSays(pipe[k], t)
    BY Zenon, <1>1, <2>2 DEF Covered, Said
  <2>3. CASE Holds(k, t)
    BY Zenon, <1>2, <1>6, <1>7, <2>3 DEF Covered, Holds
  <2> QED
    BY Zenon, <1>8, <2>1, <2>2, <2>3 DEF Covered
<1>9. CASE Renewing(k)
  <2>1. m # ConnectMessage
    BY Zenon, <1>2, <1>9 DEF Renewing
  <2>2. CASE k \notin session
    <3>1. back' = [back EXCEPT ![k] = Append(back[k], "RESET")]
      BY Zenon, <1>1, <1>3, <1>4, <2>1, <2>2 DEF AskUnknown
    <3>2. Says(Append(back[k], "RESET"), "RESET")
      <4> DEFINE b == back[k]  R == {"RESET", "UNLINK"}
      <4>1. b \in Seq(R) /\ "RESET" \in R
        BY <1>0
      <4> HIDE DEF b, R
      <4>2. Says(Append(b, "RESET"), "RESET")
        BY Zenon, <4>1, AppendSays
      <4> QED
        BY Zenon, <4>2 DEF b
    <3>3. Says(back'[k], "RESET")
      BY Zenon, <1>0, <3>1, <3>2 DEF LinkTypes
    <3> QED
      BY Zenon, <1>7, <3>3 DEF LinkOk, Renewing
  <2>3. CASE k \in session
    <3>1. back' = back
      BY Zenon, <1>1, <2>3 DEF AskUnknown
    <3> QED
      BY Zenon, <1>7, <1>9, <2>3, <3>1 DEF LinkOk, Renewing
  <2> QED
    BY <2>2, <2>3
<1>10. CASE ~ Renewing(k)
  <2>1. \A t \in Interest \ Missed(k) : Covered(k, t) /\ t \in AllTopics
    BY <1>10, InterestType DEF LinkOk
  <2> QED
    BY Zenon, <1>5, <1>7, <1>8, <2>1 DEF LinkOk
<1> QED
  BY <1>9, <1>10

(* The remote forgets a link, and may lose what was on its way.                *)
LEMMA ForgetCovered ==
    ASSUME LinkTypes, NEW k \in Alive, LinkOk(k), RemoteForgets(k)
    PROVE  LinkOk(k)'
<1>0. k \in Links /\ pipe[k] \in Seq(Messages)
  BY DEF Alive, LinkTypes
<1>1. /\ k \notin session'
      /\ UNCHANGED <<m_interest, m_interestSaturated, m_interestWildcard>>
      /\ UNCHANGED <<updates, m_peers, answer, unaware, missed>>
  BY DEF RemoteForgets, interestVars, tellVars, linkVars
<1>2. PICK n \in 0 .. Len(pipe[k]) : pipe'[k] = SubSeq(pipe[k], n + 1, Len(pipe[k]))
  <2>1. CASE UNCHANGED pipe
    <3>1. 0 \in 0 .. Len(pipe[k]) /\ SubSeq(pipe[k], 0 + 1, Len(pipe[k])) = pipe[k]
      BY <1>0, SuffixSays
    <3> QED
      BY <2>1, <3>1
  <2>2. CASE \E n \in 0 .. Len(pipe[k]) : pipe' = [pipe EXCEPT ![k] = SubSeq(@, n + 1, Len(@))]
    BY <1>0, <2>2 DEF LinkTypes
  <2> QED
    BY <2>1, <2>2 DEF RemoteForgets, RemoteSweeps, RemoteRestarts, unlinkInboundPeers
<1>3. /\ n = 0 => pipe'[k] = pipe[k]
      /\ \A m : Says(pipe'[k], m) => Says(pipe[k], m)
      /\ n # 0 /\ ConnectsFirst(pipe[k]) => ~ Says(pipe'[k], ConnectMessage)
      /\ ConnectsFirst(pipe[k]) => ConnectsFirst(pipe'[k])
  BY Zenon, <1>0, <1>2, SuffixSays
<1>4. ConnectsFirst(pipe'[k]) /\ ~ Says(pipe'[k], DisconnectMessage)
  BY <1>3 DEF LinkOk
<1>5. CASE ~ Says(pipe'[k], ConnectMessage)
  BY Zenon, <1>1, <1>4, <1>5 DEF LinkOk, Renewing
<1>6. CASE Says(pipe'[k], ConnectMessage)
  <2>1. pipe'[k] = pipe[k]
    BY Zenon, <1>3, <1>6 DEF LinkOk
  <2>2. \A t \in Interest \ Missed(k) : Said(k, t)
    BY Zenon, <1>6, <2>1 DEF LinkOk, Renewing, Covered
  <2>3. Interest' = Interest /\ Missed(k)' = Missed(k)
    BY Zenon, <1>1 DEF Interest, Missed
  <2>4. \A t : Said(k, t) => Covered(k, t)'
    BY <1>1, <2>1 DEF Said, Covered
  <2> QED
    BY Zenon, <1>4, <2>2, <2>3, <2>4 DEF LinkOk
<1> QED
  BY <1>5, <1>6

(* The answer to a RESET covers the interest of its moment, and goes into the  *)
(* pipe one message after the other.                                           *)
LEMMA AnswerCovered ==
    ASSUME LinkTypes, UpdatesInv, NEW k \in Alive, LinkOk(k), OnReset(k) \/ Answer(k)
    PROVE  LinkOk(k)'
<1>0. /\ k \in Links /\ pipe[k] \in Seq(Messages) /\ answer[k] \in Seq(Messages)
  BY DEF Alive, LinkTypes
<1>1. UNCHANGED <<interestVars, tellVars, linkVars, remoteVars, unaware>>
  BY Zenon DEF OnReset, Answer
<1>2. Interest' = Interest
  BY Zenon, <1>1 DEF interestVars, Interest
<1>3. CASE OnReset(k)
  <2>1. pipe' = pipe /\ answer'[k] = Snapshot
    BY <1>0, <1>3 DEF OnReset, LinkTypes
  <2>2. \A t \in Interest : Says(Snapshot, Subscribe(t))
    BY SnapshotSays
  <2>3. \A t \in Interest' : Covered(k, t)'
    BY Zenon, <1>2, <2>1, <2>2 DEF Covered, Said
  <2> QED
    BY <2>1, <2>3 DEF LinkOk
<1>4. CASE Answer(k)
  <2> DEFINE m == Head(answer[k])
  <2>1. /\ answer[k] # <<>> /\ answer'[k] = Tail(answer[k])
        /\ pipe'[k] = Append(pipe[k], m) /\ back' = back /\ missed' = missed
    BY Zenon, <1>0, <1>4 DEF Answer, LinkTypes
  <2>2. /\ m \in Messages /\ Says(answer[k], m)
        /\ \A n : Says(answer[k], n) <=> m = n \/ Says(answer'[k], n)
    <3> DEFINE a == answer[k]
    <3>1. a \in Seq(Messages) /\ a # <<>> /\ m = Head(a) /\ answer'[k] = Tail(a)
      BY Zenon, <1>0, <2>1
    <3> HIDE DEF a, m
    <3>2. /\ Head(a) \in Messages /\ Says(a, Head(a))
          /\ \A n : Says(a, n) <=> Head(a) = n \/ Says(Tail(a), n)
      BY Zenon, <3>1, TailSays
    <3> QED
      BY Zenon, <3>1, <3>2 DEF a
  <2> HIDE DEF m
  <2>3. PICK s \in AllTopics : m = Subscribe(s)
    BY Zenon, <1>0, <2>2 DEF UpdatesInv
  <2>4. /\ \A n : Says(pipe'[k], n) <=> Says(pipe[k], n) \/ m = n
        /\ \A t : m = Subscribe(t) => LastSays(pipe'[k], t)
        /\ \A t : LastSays(pipe[k], t) /\ m # Unsubscribe(t) => LastSays(pipe'[k], t)
        /\ ConnectsFirst(pipe[k]) /\ m # ConnectMessage => ConnectsFirst(pipe'[k])
    <3> DEFINE q == pipe[k]
    <3>1. q \in Seq(Messages) /\ pipe'[k] = Append(q, m)
      BY Zenon, <1>0, <2>1
    <3> HIDE DEF q
    <3>2. /\ \A n : Says(Append(q, m), n) <=> Says(q, n) \/ m = n
          /\ \A t : m = Subscribe(t) => LastSays(Append(q, m), t)
          /\ \A t : LastSays(q, t) /\ m # Unsubscribe(t) => LastSays(Append(q, m), t)
          /\ ConnectsFirst(q) /\ m # ConnectMessage => ConnectsFirst(Append(q, m))
      BY Zenon, <2>2, <3>1, AppendSays
    <3> QED
      BY Zenon, <3>1, <3>2 DEF q
  <2>5. m # ConnectMessage /\ m # DisconnectMessage /\ \A t : m # Unsubscribe(t)
    BY <2>3, MessageFacts
  <2>6. UNCHANGED <<updates, m_peers, unaware, session, held>>
    BY Zenon, <1>1 DEF tellVars, linkVars, remoteVars
  <2>7. Renewing(k) => Renewing(k)'
    BY Zenon, <2>1, <2>4, <2>5, <2>6 DEF Renewing
  <2>8. \A t : Covered(k, t) => Covered(k, t)'
    BY Zenon, <2>2, <2>4, <2>5, <2>6 DEF Covered, Said, Holds
  <2>9. Missed(k)' = Missed(k)
    BY <1>2, <2>1 DEF Missed
  <2> QED
    BY Zenon, <1>2, <2>4, <2>5, <2>7, <2>8, <2>9 DEF LinkOk
<1> QED
  BY <1>3, <1>4

(* Every step keeps every link covered.                                        *)
LEMMA CoverStep ==
    ASSUME LinkTypes, PeersInv, UpdatesInv, CoverInv, [Next]_vars
    PROVE  CoverInv'
<1> SUFFICES ASSUME NEW k \in Alive' PROVE LinkOk(k)'
  BY DEF CoverInv
<1>0. k \in Links /\ (k \in Alive => LinkOk(k))
  BY DEF Alive, CoverInv
<1>1. ASSUME NEW t \in AllTopics, noteTopicSubscribed(t) PROVE LinkOk(k)'
  <2>1. /\ updates = <<>> /\ unaware' = Dialed
        /\ UNCHANGED <<linkVars, pipe, answer, back, remoteVars, missed>>
    BY <1>1 DEF noteTopicSubscribed, BrokerFree
  <2>2. k \in Alive
    BY <2>1 DEF Alive, linkVars
  <2> QED
    BY <1>0, <1>1, <2>1, <2>2, SubscribedUpdates, ChangeCovered
<1>2. ASSUME NEW t \in AllTopics, noteTopicUnsubscribed(t) PROVE LinkOk(k)'
  <2>1. /\ updates = <<>> /\ unaware' = Dialed
        /\ UNCHANGED <<linkVars, pipe, answer, back, remoteVars, missed>>
    BY <1>2 DEF noteTopicUnsubscribed, BrokerFree
  <2>2. k \in Alive
    BY <2>1 DEF Alive, linkVars
  <2> QED
    BY <1>0, <1>2, <2>1, <2>2, UnsubscribedUpdates, ChangeCovered
<1>3. CASE Tell
  <2>1. k \in Alive
    BY <1>3 DEF Tell, Alive, linkVars
  <2> QED
    BY Zenon, <1>0, <1>3, <2>1, TellCovered
<1>4. CASE LockPeers \/ UNCHANGED vars
  <2>1. UNCHANGED <<interestVars, updates, linkVars, pipe, answer, back, remoteVars, unaware, missed>>
    BY <1>4 DEF LockPeers, vars, tellVars
  <2>2. Interest' = Interest /\ k \in Alive
    BY <2>1 DEF interestVars, Interest, Alive, linkVars
  <2> QED
    BY <1>0, <2>1, <2>2, SameLink DEF linkVars, remoteVars
<1>5. ASSUME NEW l \in Links, addPeer(l) PROVE LinkOk(k)'
  <2>1. /\ UNCHANGED <<interestVars, tellVars, m_peers, active, answer, back, remoteVars>>
        /\ unaware' = unaware \ {l}
    BY <1>5, Zenon DEF addPeer
  <2>2. Interest' = Interest
    BY <2>1 DEF interestVars, Interest
  <2>3. CASE k = l
    <3>1. pipe'[k] = <<ConnectMessage>> \o Snapshot
      BY Zenon, <1>5, <2>3 DEF addPeer, LinkTypes, ConnectMessage
    <3>2. /\ ConnectsFirst(pipe'[k]) /\ ~ Says(pipe'[k], DisconnectMessage)
          /\ \A t \in Interest : LastSays(pipe'[k], t)
      BY Zenon, <3>1, DialSays
    <3>3. \A t \in Interest' : Covered(k, t)'
      BY <2>2, <3>2 DEF Covered, Said
    <3> QED
      BY <3>2, <3>3 DEF LinkOk
  <2>4. CASE k # l
    <3>1. pipe'[k] = pipe[k] /\ missed'[k] = missed[k] /\ state'[k] = state[k]
      BY Zenon, <1>0, <1>5, <2>4 DEF addPeer, LinkTypes
    <3>2. k \in Alive
      BY Zenon, <3>1 DEF Alive
    <3> QED
      BY Zenon, <1>0, <2>1, <2>2, <2>4, <3>1, <3>2, SameLink DEF tellVars, remoteVars
  <2> QED
    BY <2>3, <2>4
<1>6. ASSUME NEW l \in Links, RegisterPeer(l) PROVE LinkOk(k)'
  <2>1. /\ UNCHANGED <<interestVars, tellVars, dials, answer, back, session, held, forgets, unaware,
                       missed>>
        /\ state[l] = "dialed"
    BY <1>6, Zenon DEF RegisterPeer
  <2>2. Interest' = Interest
    BY <2>1 DEF interestVars, Interest
  <2>3. k \in Alive /\ pipe'[k] = pipe[k] /\ (k \in m_peers => k \in m_peers')
    <3>1. CASE k = l
      <4>1. state'[k] # "none"
        BY DEF Alive
      <4>2. UNCHANGED pipe /\ m_peers' = m_peers \cup {l}
        BY <1>0, <1>6, <3>1, <4>1 DEF RegisterPeer, LinkTypes
      <4> QED
        BY <1>0, <2>1, <3>1, <4>2 DEF Alive
    <3>2. CASE k # l
      <4>1. pipe'[k] = pipe[k] /\ state'[k] = state[k] /\ (k \in m_peers => k \in m_peers')
        BY <1>0, <1>6, <3>2 DEF RegisterPeer, LinkTypes
      <4> QED
        BY <4>1 DEF Alive
    <3> QED
      BY <3>1, <3>2
  <2> QED
    BY <1>0, <2>1, <2>2, <2>3, SameLink DEF tellVars
<1>7. ASSUME NEW l \in Links, removePeer(l) PROVE LinkOk(k)'
  <2>1. /\ UNCHANGED <<interestVars, tellVars, dials, answer, back, remoteVars, unaware, missed>>
        /\ m_peers' = m_peers \ {l}
    BY <1>7, Zenon DEF removePeer
  <2>2. Interest' = Interest
    BY <2>1 DEF interestVars, Interest
  <2>3. k # l
    BY Zenon, <1>7 DEF removePeer, LinkTypes, Alive
  <2>4. pipe'[k] = pipe[k] /\ state'[k] = state[k]
    BY Zenon, <1>0, <1>7, <2>3 DEF removePeer, LinkTypes
  <2>5. k \in Alive
    BY <2>4 DEF Alive
  <2> QED
    BY Zenon, <1>0, <2>1, <2>2, <2>3, <2>4, <2>5, SameLink DEF tellVars, remoteVars
<1>8. ASSUME NEW l \in Links, OnReset(l) \/ Answer(l) PROVE LinkOk(k)'
  <2>1. UNCHANGED <<interestVars, tellVars, linkVars, remoteVars, unaware>>
    BY <1>8, Zenon DEF OnReset, Answer
  <2>2. Interest' = Interest /\ k \in Alive
    BY <2>1 DEF interestVars, Interest, Alive, linkVars
  <2>3. CASE k = l
    BY <1>0, <1>8, <2>2, <2>3, AnswerCovered
  <2>4. CASE k # l
    <3>1. /\ pipe'[k] = pipe[k] /\ answer'[k] = answer[k] /\ back'[k] = back[k]
          /\ missed'[k] = missed[k]
      BY <1>0, <1>8, <2>4 DEF OnReset, Answer, LinkTypes
    <3> QED
      BY Zenon, <1>0, <2>1, <2>2, <3>1, SameLink DEF tellVars, linkVars, remoteVars
  <2> QED
    BY <2>3, <2>4
<1>9. ASSUME NEW l \in Links, OnUnlink(l) PROVE LinkOk(k)'
  <2>1. /\ UNCHANGED <<interestVars, tellVars, m_peers, state, dials, pipe, answer, remoteVars>>
        /\ UNCHANGED <<unaware, missed>>
    BY <1>9, Zenon DEF OnUnlink
  <2>2. Interest' = Interest /\ k \in Alive
    BY Zenon, <2>1 DEF interestVars, Interest, Alive
  <2>3. Says(back[k], "RESET") => Says(back'[k], "RESET")
    <3>1. CASE k = l
      <4>1. /\ back[l] \in Seq({"RESET", "UNLINK"}) /\ back[l] # <<>> /\ Head(back[l]) = "UNLINK"
            /\ back'[l] = Tail(back[l])
        BY Zenon, <1>9 DEF OnUnlink, LinkTypes
      <4>2. Says(back[l], "RESET") => Says(Tail(back[l]), "RESET")
        BY <4>1, TailSays
      <4> QED
        BY <3>1, <4>1, <4>2
    <3>2. CASE k # l
      BY Zenon, <1>0, <1>9, <3>2 DEF OnUnlink, LinkTypes
    <3> QED
      BY <3>1, <3>2
  <2>4. Missed(k)' = Missed(k)
    BY <2>1, <2>2 DEF Missed
  <2>5. Renewing(k) => Renewing(k)'
    BY Zenon, <2>1, <2>3 DEF Renewing, remoteVars
  <2>6. \A t : Covered(k, t) => Covered(k, t)'
    BY <2>1 DEF Covered, Said, Holds, tellVars, remoteVars
  <2> QED
    BY <1>0, <2>1, <2>2, <2>4, <2>5, <2>6 DEF LinkOk
<1>10. ASSUME NEW l \in Links, Heartbeat(l) PROVE LinkOk(k)'
  <2>1. UNCHANGED <<interestVars, tellVars, linkVars, answer, back, remoteVars, unaware, missed>>
    BY <1>10, Zenon DEF Heartbeat
  <2>2. Interest' = Interest /\ k \in Alive
    BY Zenon, <2>1 DEF interestVars, Interest, Alive, linkVars
  <2>3. CASE k = l
    <3>1. pipe'[k] = <<HeartbeatMessage>> /\ k \notin session'
      BY Zenon, <1>10, <2>1, <2>3 DEF Heartbeat, LinkTypes, HeartbeatMessage, remoteVars
    <3>2. ConnectsFirst(pipe'[k])
      BY Zenon, <3>1, ShortSays, MessageFacts
    <3>3. ~ Says(pipe'[k], ConnectMessage) /\ ~ Says(pipe'[k], DisconnectMessage)
      BY SMTT(30), <3>1, OneSays, MessageFacts
    <3> QED
      BY <3>1, <3>2, <3>3 DEF LinkOk, Renewing
  <2>4. CASE k # l
    <3>1. pipe'[k] = pipe[k]
      BY Zenon, <1>0, <1>10, <2>4 DEF Heartbeat, LinkTypes
    <3> QED
      BY <1>0, <2>1, <2>2, <3>1, SameLink DEF tellVars, linkVars, remoteVars
  <2> QED
    BY <2>3, <2>4
<1>11. ASSUME NEW l \in Links, Stopped(l) PROVE LinkOk(k)'
  <2>1. /\ UNCHANGED <<interestVars, tellVars, m_peers, active, dials, pipe, answer, remoteVars>>
        /\ UNCHANGED <<unaware, missed>>
    BY <1>11, Zenon DEF Stopped
  <2>2. Interest' = Interest
    BY <2>1 DEF interestVars, Interest
  <2>3. k # l
    BY Zenon, <1>11 DEF Stopped, LinkTypes, Alive
  <2>4. back'[k] = back[k] /\ state'[k] = state[k]
    BY <1>0, <1>11, <2>3 DEF Stopped, LinkTypes
  <2>5. k \in Alive
    BY <2>4 DEF Alive
  <2> QED
    BY <1>0, <2>1, <2>2, <2>4, <2>5, SameLink DEF tellVars, remoteVars
<1>12. ASSUME NEW l \in Links, Deliver(l) \/ RemoteForgets(l) PROVE LinkOk(k)'
  <2>1. UNCHANGED <<interestVars, tellVars, linkVars, answer, unaware, missed>>
    BY <1>12, Zenon DEF Deliver, RemoteForgets
  <2>2. Interest' = Interest /\ k \in Alive
    BY <2>1 DEF interestVars, Interest, Alive, linkVars
  <2>3. CASE k = l
    BY <1>0, <1>12, <2>2, <2>3, DeliverCovered, ForgetCovered
  <2>4. CASE k # l
    <3>1. CASE Deliver(l)
      <4>1. pipe'[k] = pipe[k] /\ held'[k] = held[k] /\ back'[k] = back[k]
        BY <1>0, <2>4, <3>1 DEF Deliver, AskUnknown, LinkTypes
      <4>2. k \in session' => k \in session
        BY Zenon, <2>4, <3>1 DEF Deliver
      <4> QED
        BY Zenon, <1>0, <2>1, <2>2, <4>1, <4>2, SameLink DEF tellVars, linkVars
    <3>2. CASE RemoteForgets(l)
      <4>1. pipe'[k] = pipe[k] /\ held'[k] = held[k] /\ back'[k] = back[k]
        BY <1>0, <2>4, <3>2 DEF RemoteForgets, RemoteSweeps, RemoteRestarts, unlinkInboundPeers, LinkTypes
      <4>2. k \in session' => k \in session
        BY <2>4, <3>2 DEF RemoteForgets
      <4> QED
        BY Zenon, <1>0, <2>1, <2>2, <4>1, <4>2, SameLink DEF tellVars, linkVars
    <3> QED
      BY <1>12, <3>1, <3>2
  <2> QED
    BY <2>3, <2>4
<1> QED
  BY <1>1, <1>2, <1>3, <1>4, <1>5, <1>6, <1>7, <1>8, <1>9, <1>10, <1>11, <1>12
     DEF Next, BrokerStep, WorkerStep, AllTopics
--------------------------------------------------------------------------------
LinksInv == LinkTypes /\ PeersInv /\ UpdatesInv /\ CoverInv

(* A broker without links satisfies the invariant.                             *)
LEMMA InitLinks == Init => LinksInv
<1> SUFFICES ASSUME Init PROVE LinksInv
  OBVIOUS
<1>1. LinkTypes
  <2>1. <<>> \in Seq(Messages) /\ <<>> \in Seq({"RESET", "UNLINK"})
    BY ShortSays, MessageFacts
  <2>2. IsFiniteSet({})
    BY FS_EmptySet
  <2> QED
    BY Zenon, <2>1, <2>2 DEF Init, LinkTypes
<1>2. PeersInv
  BY DEF Init, PeersInv, OneLinkPerAddress
<1>3. UpdatesInv
  BY EmptySays DEF Init, UpdatesInv, Interest
<1>4. CoverInv
  BY DEF Init, CoverInv, Alive
<1> QED
  BY <1>1, <1>2, <1>3, <1>4 DEF LinksInv

(* The invariant holds in every behaviour.                                     *)
LEMMA LinksCorrect == Spec => []LinksInv
<1>1. LinksInv /\ [Next]_vars => LinksInv'
  BY TypesStep, PeersStep, UpdatesStep, CoverStep DEF LinksInv
<1> QED
  BY <1>1, InitLinks, PTL DEF Spec

(* m_peers holds exactly the links whose workers are up, only those are        *)
(* flooded, and a remote that does not know a link holds nothing for it.       *)
THEOREM PeersMatchWorkers == Spec => []TypeOK
<1>1. LinksInv => TypeOK
  BY DEF LinksInv, LinkTypes, PeersInv, TypeOK, AllTopics
<1> QED
  BY <1>1, LinksCorrect, PTL

(* However many threads dial an address, it is linked once.                    *)
THEOREM AddressLinkedOnce == Spec => []OneLinkPerAddress
<1>1. LinksInv => OneLinkPerAddress
  BY DEF LinksInv, PeersInv
<1> QED
  BY <1>1, LinksCorrect, PTL

(* A link whose messages have all arrived covers the interest, but for what    *)
(* went out while it was being dialed: updates and answers to RESETs may       *)
(* interleave in any way, and the remote may forget the link at any point.     *)
THEOREM SettledCovers == Spec => []SettledLinksCover
<1>1. LinksInv => SettledLinksCover
  <2> SUFFICES ASSUME LinksInv, NEW l \in Links, Settled(l) PROVE Covers(l, Interest \ Missed(l))
    BY DEF SettledLinksCover
  <2>1. /\ l \in m_peers /\ l \in session /\ updates = <<>>
        /\ pipe[l] = <<>> /\ answer[l] = <<>> /\ back[l] = <<>>
    BY DEF Settled, BrokerFree
  <2>2. l \in Alive
    BY <2>1 DEF LinksInv, PeersInv, Alive
  <2>3. ~ Renewing(l)
    BY <2>1, EmptySays DEF Renewing
  <2>4. \A t \in Interest \ Missed(l) : Covered(l, t)
    BY Zenon, <2>2, <2>3 DEF LinksInv, CoverInv, LinkOk
  <2>5. \A t : Covered(l, t) => t \in held[l]
    BY <2>1, EmptySays DEF Covered, Said, Holds
  <2> QED
    BY <2>4, <2>5 DEF Covers
<1> QED
  BY <1>1, LinksCorrect, PTL

(* Together: m_peers is the set of the links that are up, each address once.   *)
THEOREM PeersCorrect == Spec => []PeersAreSound
BY PeersMatchWorkers, AddressLinkedOnce, PTL DEF PeersAreSound
================================================================================
