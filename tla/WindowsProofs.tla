----------------------------- MODULE WindowsProofs -----------------------------
(* What the programs on top of a client rest on, for any number of messages,  *)
(* objects and threads: the bindings' poller and Qt calls, and the             *)
(* inspector's window and replays.                                             *)
EXTENDS Bindings, Inspector, SequenceTheorems, WellFoundedInduction, TLAPS

(* What is the end of a sequence still is when both get another element.          *)
LEMMA EndOfAppend ==
    ASSUME NEW M, NEW b \in Seq(M), NEW e \in Seq(M), NEW x \in M, EndOf(b, e)
    PROVE  EndOf(Append(b, x), Append(e, x))
<1>1. Len(Append(b, x)) = Len(b) + 1 /\ Len(Append(e, x)) = Len(e) + 1
  BY AppendProperties
<1>2. Len(b) \in Nat /\ Len(e) \in Nat /\ Len(b) <= Len(e)
  BY DEF EndOf
<1>3. ASSUME NEW i \in 1 .. Len(b) + 1
      PROVE  Append(b, x)[i] = Append(e, x)[Len(e) - Len(b) + i]
  <2>1. CASE i = Len(b) + 1
    BY <1>2, <2>1, AppendProperties
  <2>2. CASE i # Len(b) + 1
    <3>1. i \in 1 .. Len(b) /\ Len(e) - Len(b) + i \in 1 .. Len(e)
      BY <1>2, <2>2
    <3>2. Append(b, x)[i] = b[i] /\ Append(e, x)[Len(e) - Len(b) + i] = e[Len(e) - Len(b) + i]
      BY <3>1, AppendProperties
    <3> QED
      BY <3>1, <3>2 DEF EndOf
  <2> QED
    BY Zenon, <2>1, <2>2
<1> DEFINE c == Append(b, x)
<1> DEFINE f == Append(e, x)
<1>4. Len(c) = Len(b) + 1 /\ Len(f) = Len(e) + 1
  BY <1>1
<1>5. \A i \in 1 .. Len(b) + 1 : c[i] = f[Len(e) - Len(b) + i]
  BY Zenon, <1>3
<1> HIDE DEF c, f
<1>6. \A i \in 1 .. Len(c) : c[i] = f[Len(f) - Len(c) + i]
  BY <1>2, <1>4, <1>5
<1>7. EndOf(c, f)
  BY <1>2, <1>4, <1>6 DEF EndOf
<1> QED
  BY <1>7 DEF c, f

(* Nor does the loss of the first element change that.                            *)
LEMMA EndOfTail ==
    ASSUME NEW M, NEW b \in Seq(M), b # <<>>, NEW e \in Seq(M), EndOf(b, e)
    PROVE  EndOf(Tail(b), e)
<1>1. Len(Tail(b)) = Len(b) - 1 /\ \A i \in 1 .. Len(b) - 1 : Tail(b)[i] = b[i + 1]
  BY HeadTailProperties
<1>2. Len(b) \in Nat /\ Len(e) \in Nat /\ Len(b) <= Len(e)
  BY DEF EndOf
<1> QED
  BY <1>1, <1>2 DEF EndOf

(* The end of a sequence is its suffix.                                           *)
LEMMA EndIsSuffix ==
    ASSUME NEW M, NEW b \in Seq(M), NEW e \in Seq(M), EndOf(b, e)
    PROVE  IsSuffix(b, e)
<1>1. Len(b) \in Nat /\ Len(e) \in Nat /\ Len(b) <= Len(e)
  BY DEF EndOf
<1> DEFINE r == Reverse(b)
<1> DEFINE s == Reverse(e)
<1>2. r \in Seq(M) /\ Len(r) = Len(b) /\ \A i \in 1 .. Len(b) : r[i] = b[Len(b) - i + 1]
  BY <1>1 DEF Reverse
<1>3. s \in Seq(M) /\ Len(s) = Len(e) /\ \A i \in 1 .. Len(e) : s[i] = e[Len(e) - i + 1]
  BY <1>1 DEF Reverse
<1> HIDE DEF r, s
<1>4. ASSUME NEW i \in 1 .. Len(b) PROVE r[i] = s[i]
  <2>1. Len(b) - i + 1 \in 1 .. Len(b) /\ i \in 1 .. Len(e)
    BY <1>1
  <2>2. b[Len(b) - i + 1] = e[Len(e) - Len(b) + (Len(b) - i + 1)]
    BY <2>1 DEF EndOf
  <2>3. Len(e) - Len(b) + (Len(b) - i + 1) = Len(e) - i + 1
    BY <1>1
  <2> QED
    BY <1>2, <1>3, <2>1, <2>2, <2>3
<1>5. SubSeq(r, 1, Len(r)) = SubSeq(s, 1, Len(r))
  <2>1. \A i \in 1 .. Len(r) : r[i] \in M /\ r[i] = s[i]
    BY <1>1, <1>2, <1>4, ElementOfSeq
  <2>2. \A t : (\A i \in 1 .. Len(r) : t[i] \in M /\ t[i] = r[i])
                => /\ SubSeq(t, 1, Len(r)) \in Seq(M) /\ Len(SubSeq(t, 1, Len(r))) = Len(r)
                   /\ \A i \in 1 .. Len(r) : SubSeq(t, 1, Len(r))[i] = r[i]
    BY <1>1, <1>2, SubSeqProperties
  <2> QED
    BY <2>1, <2>2, SeqEqual
<1> QED
  BY <1>1, <1>2, <1>3, <1>5 DEF IsSuffix, IsPrefix, r, s

(* The poller starts in step.                                                     *)
LEMMA PollerStarts == PollInit => PollInv
<1> SUFFICES ASSUME PollInit PROVE PollInv
  OBVIOUS
<1>1. PollTypeOK
  BY DEF PollInit, PollTypeOK
<1>2. \A u \in PollUsers, t \in PollTopics : ~ Pending(u, t)
  BY DEF PollInit, Pending, NoCall
<1>3. TopicsInStep
  BY <1>2 DEF PollInit, TopicsInStep
<1>4. BufferInStep
  BY PollAssumption DEF PollInit, BufferInStep, EndOf
<1> QED
  BY <1>1, <1>3, <1>4 DEF PollInv

(* A call of the user u that leaves it with the topics that it has to register or *)
(* unregister: of those, the ones no other call is about stay in step.            *)
LEMMA CallInStep ==
    ASSUME PollInv, NEW u \in PollUsers, NEW kind \in {"register", "unregister"},
           NEW topics \in SUBSET PollTopics, PollerCall(u, kind, topics),
           m_topics' = IF kind = "register" THEN m_topics \cup topics ELSE m_topics \ topics,
           kind = "register" => topics \cap m_topics = {}
    PROVE  PollInv'
<1> DEFINE others(t) == \E v \in PollUsers \ {u} : t \in user[v][2]
<1>1. /\ user[u] = NoCall /\ user' = [user EXCEPT ![u] = <<kind, topics>>]
      /\ overlapped' = overlapped \cup {t \in topics : others(t)}
      /\ UNCHANGED <<m_buffer, m_dropped, registered, dispatching, enqueued, polled, pollMessages>>
  BY DEF PollerCall
<1>2. PollTypeOK'
  BY <1>1 DEF PollInv, PollTypeOK
<1>3. BufferInStep'
  BY <1>1 DEF PollInv, BufferInStep, EndOf
<1>4. user'[u] = <<kind, topics>> /\ \A v \in PollUsers : v # u => user'[v] = user[v]
  BY <1>1 DEF PollInv, PollTypeOK
<1>5. TopicsInStep'
  <2> SUFFICES ASSUME NEW t \in PollTopics \ overlapped'
               PROVE  /\ \A v, w \in PollUsers : Pending(v, t)' /\ Pending(w, t)' => v = w
                      /\ \A v \in PollUsers : Pending(v, t)' =>
                            IF user'[v][1] = "register" THEN t \in m_topics' /\ registered'[t] = 0
                            ELSE t \notin m_topics'
                      /\ (\A v \in PollUsers : ~ Pending(v, t)') => registered'[t] = IF t \in m_topics' THEN 1 ELSE 0
    BY DEF TopicsInStep
  <2>1. t \in PollTopics \ overlapped
    BY <1>1
  <2>2. ~ Pending(u, t)
    BY <1>1 DEF Pending, NoCall
  <2>3. \A v \in PollUsers : v # u => (Pending(v, t)' <=> Pending(v, t))
    BY <1>4 DEF Pending
  <2>4. Pending(u, t)' <=> t \in topics
    BY <1>4 DEF Pending
  <2>5. CASE t \in topics
    <3>1. \A v \in PollUsers : ~ Pending(v, t)
      BY <1>1, <2>2, <2>5 DEF Pending
    <3>2. registered[t] = IF t \in m_topics THEN 1 ELSE 0
      BY <2>1, <3>1 DEF PollInv, TopicsInStep
    <3> QED
      BY <1>1, <1>4, <2>3, <2>4, <2>5, <3>1, <3>2
  <2>6. CASE t \notin topics
    <3>1. \A v \in PollUsers : Pending(v, t)' <=> Pending(v, t)
      BY <2>2, <2>3, <2>4, <2>6
    <3>2. t \in m_topics' <=> t \in m_topics
      BY <2>6
    <3>3. \A v \in PollUsers : Pending(v, t)' => user'[v] = user[v]
      BY <1>4, <2>4, <2>6
    <3> QED
      BY <1>1, <2>1, <3>1, <3>2, <3>3 DEF PollInv, TopicsInStep
  <2> QED
    BY <2>5, <2>6
<1> QED
  BY <1>2, <1>3, <1>5 DEF PollInv

(* The registration that follows, outside the lock.                               *)
LEMMA RegistersInStep ==
    ASSUME PollInv, NEW u \in PollUsers, NEW topic \in PollTopics, Registers(u, topic)
    PROVE  PollInv'
<1>1. /\ Pending(u, topic)
      /\ registered' = [registered EXCEPT ![topic] = IF user[u][1] = "register" THEN @ + 1 ELSE 0]
      /\ user' = [user EXCEPT ![u] = IF @[2] = {topic} THEN NoCall ELSE <<@[1], @[2] \ {topic}>>]
      /\ UNCHANGED <<m_topics, m_buffer, m_dropped, dispatching, enqueued, polled, overlapped, pollMessages>>
  BY DEF Registers, Pending
<1>2. user[u] # NoCall /\ user[u] \in {"register", "unregister"} \X (SUBSET PollTopics)
  BY <1>1 DEF PollInv, PollTypeOK, Pending, NoCall
<1>3. /\ user'[u] = IF user[u][2] = {topic} THEN NoCall ELSE <<user[u][1], user[u][2] \ {topic}>>
      /\ \A v \in PollUsers : v # u => user'[v] = user[v]
  BY <1>1 DEF PollInv, PollTypeOK
<1>4. registered'[topic] \in Nat /\ \A t \in PollTopics : t # topic => registered'[t] = registered[t]
  BY <1>1 DEF PollInv, PollTypeOK
<1>5. user'[u] \in {NoCall} \cup {"register", "unregister"} \X (SUBSET PollTopics)
  BY <1>2, <1>3
<1>6. PollTypeOK'
  <2>1. registered' \in [PollTopics -> Nat]
    BY <1>1, <1>4 DEF PollInv, PollTypeOK
  <2>2. user' \in [PollUsers -> {NoCall} \cup {"register", "unregister"} \X (SUBSET PollTopics)]
    BY <1>1, <1>3, <1>5 DEF PollInv, PollTypeOK
  <2> QED
    BY <1>1, <2>1, <2>2 DEF PollInv, PollTypeOK
<1>7. BufferInStep'
  BY Zenon, <1>1 DEF PollInv, BufferInStep, EndOf
<1>8. \A t \in PollTopics : t # topic => (Pending(u, t)' <=> Pending(u, t)) /\ (Pending(u, t) => user'[u][1] = user[u][1])
  BY <1>2, <1>3 DEF Pending, NoCall
<1>9. ~ Pending(u, topic)'
  BY <1>2, <1>3 DEF Pending, NoCall
<1>10. TopicsInStep'
  <2> SUFFICES ASSUME NEW t \in PollTopics \ overlapped'
               PROVE  /\ \A v, w \in PollUsers : Pending(v, t)' /\ Pending(w, t)' => v = w
                      /\ \A v \in PollUsers : Pending(v, t)' =>
                            IF user'[v][1] = "register" THEN t \in m_topics' /\ registered'[t] = 0
                            ELSE t \notin m_topics'
                      /\ (\A v \in PollUsers : ~ Pending(v, t)') => registered'[t] = IF t \in m_topics' THEN 1 ELSE 0
    BY DEF TopicsInStep
  <2>1. t \in PollTopics \ overlapped
    BY <1>1
  <2>2. \A v \in PollUsers : v # u => (Pending(v, t)' <=> Pending(v, t))
    BY <1>3 DEF Pending
  <2>3. CASE t = topic
    <3>1. \A v \in PollUsers : ~ Pending(v, t)'
      BY <1>1, <1>9, <2>1, <2>2, <2>3 DEF PollInv, TopicsInStep
    <3>2. IF user[u][1] = "register" THEN t \in m_topics /\ registered[t] = 0 ELSE t \notin m_topics
      BY <1>1, <2>1, <2>3 DEF PollInv, TopicsInStep
    <3>3. registered'[t] = IF user[u][1] = "register" THEN registered[t] + 1 ELSE 0
      BY <1>1, <2>3 DEF PollInv, PollTypeOK
    <3> QED
      BY <1>1, <3>1, <3>2, <3>3
  <2>4. CASE t # topic
    <3>1. \A v \in PollUsers : Pending(v, t)' <=> Pending(v, t)
      BY <1>8, <2>2, <2>4
    <3>2. \A v \in PollUsers : Pending(v, t) => user'[v][1] = user[v][1]
      BY <1>3, <1>8, <2>4
    <3>3. registered'[t] = registered[t]
      BY <1>4, <2>4
    <3> QED
      BY <1>1, <2>1, <3>1, <3>2, <3>3 DEF PollInv, TopicsInStep
  <2> QED
    BY <2>3, <2>4
<1> QED
  BY <1>6, <1>7, <1>10 DEF PollInv

(* A function on 1 .. n is a sequence.                                            *)
LEMMA FunctionIsSeq ==
    ASSUME NEW M, NEW n \in Nat, NEW f \in [1 .. n -> M]
    PROVE  f \in Seq(M)
BY SeqDef, Zenon

(* A message arrives: the processing thread copies the list of callbacks.         *)
LEMMA ArrivesInStep ==
    ASSUME PollInv, NEW topic \in PollTopics, MessageArrives(topic)
    PROVE  PollInv'
<1>1. UNCHANGED <<m_topics, m_buffer, m_dropped, registered, user, enqueued, polled, overlapped>>
  BY DEF MessageArrives
<1>2. pollMessages' \in Nat /\ dispatching' \in Seq(PolledMessages)
  <2>1. registered[topic] \in Nat /\ pollMessages + 1 \in Nat
    BY DEF PollInv, PollTypeOK
  <2>2. dispatching' = [i \in 1 .. registered[topic] |-> <<topic, pollMessages + 1>>]
    BY DEF MessageArrives
  <2>3. <<topic, pollMessages + 1>> \in PolledMessages
    BY <2>1 DEF PolledMessages
  <2>4. dispatching' \in [1 .. registered[topic] -> PolledMessages]
    BY <2>2, <2>3
  <2>5. pollMessages' \in Nat
    BY <2>1 DEF MessageArrives
  <2> QED
    BY <2>1, <2>4, <2>5, FunctionIsSeq
<1>3. PollTypeOK'
  BY <1>1, <1>2 DEF PollInv, PollTypeOK
<1>4. TopicsInStep' /\ BufferInStep'
  BY <1>1 DEF PollInv, TopicsInStep, Pending, BufferInStep, EndOf
<1> QED
  BY <1>3, <1>4 DEF PollInv

(* The processing thread adds to the buffer, at the expense of the oldest.        *)
LEMMA EnqueueInStep ==
    ASSUME PollInv, enqueue
    PROVE  PollInv'
<1> DEFINE x == Head(dispatching)
<1>1. /\ dispatching # <<>> /\ DropsOldest(x) /\ enqueued' = Append(enqueued, x) /\ dispatching' = Tail(dispatching)
      /\ UNCHANGED <<m_topics, registered, user, polled, overlapped, pollMessages>>
  BY DEF enqueue
<1>2. x \in PolledMessages /\ dispatching' \in Seq(PolledMessages)
  BY <1>1, HeadTailProperties DEF PollInv, PollTypeOK
<1> HIDE DEF x
<1>3. /\ m_buffer \in Seq(PolledMessages) /\ enqueued \in Seq(PolledMessages) /\ polled \in Seq(PolledMessages)
      /\ m_dropped \in Nat /\ EndOf(m_buffer, enqueued) /\ Len(m_buffer) <= PollCapacity
      /\ Len(enqueued) = Len(polled) + m_dropped + Len(m_buffer)
  BY DEF PollInv, PollTypeOK, BufferInStep
<1>4. Len(m_buffer) \in Nat /\ Len(enqueued) \in Nat /\ Len(polled) \in Nat
  BY <1>3
<1>5. enqueued' \in Seq(PolledMessages) /\ Len(enqueued') = Len(enqueued) + 1
  BY Zenon, <1>1, <1>2, <1>3, AppendProperties
<1>6. m_buffer' \in Seq(PolledMessages) /\ m_dropped' \in Nat /\ BufferInStep'
  <2>1. CASE Len(m_buffer) >= PollCapacity
    <3> DEFINE rest == Tail(m_buffer)
    <3>1. m_buffer' = Append(rest, x) /\ m_dropped' = m_dropped + 1
      BY <1>1, <2>1 DEF DropsOldest
    <3>2. m_buffer # <<>>
      BY <2>1, PollAssumption
    <3>3. rest \in Seq(PolledMessages) /\ Len(rest) = Len(m_buffer) - 1
      BY <1>3, <3>2, HeadTailProperties
    <3>4. EndOf(rest, enqueued)
      BY <1>3, <3>2, EndOfTail
    <3> HIDE DEF rest
    <3>5. m_buffer' \in Seq(PolledMessages) /\ Len(m_buffer') = Len(rest) + 1
      BY <1>2, <3>1, <3>3, AppendProperties
    <3>6. EndOf(m_buffer', enqueued')
      BY <1>1, <1>2, <1>3, <3>1, <3>3, <3>4, EndOfAppend
    <3> QED
      BY <1>1, <1>3, <1>4, <1>5, <3>1, <3>3, <3>5, <3>6 DEF BufferInStep
  <2>2. CASE ~ (Len(m_buffer) >= PollCapacity)
    <3>1. m_buffer' = Append(m_buffer, x) /\ m_dropped' = m_dropped
      BY <1>1, <2>2 DEF DropsOldest
    <3>2. m_buffer' \in Seq(PolledMessages) /\ Len(m_buffer') = Len(m_buffer) + 1
      BY <1>2, <1>3, <3>1, AppendProperties
    <3>3. EndOf(m_buffer', enqueued')
      BY <1>1, <1>2, <1>3, <3>1, EndOfAppend
    <3> QED
      BY <1>1, <1>3, <1>4, <1>5, <2>2, <3>1, <3>2, <3>3, PollAssumption DEF BufferInStep
  <2> QED
    BY <2>1, <2>2
<1>7. PollTypeOK'
  BY <1>1, <1>2, <1>5, <1>6 DEF PollInv, PollTypeOK
<1>8. TopicsInStep'
  BY <1>1 DEF PollInv, TopicsInStep, Pending
<1> QED
  BY <1>6, <1>7, <1>8 DEF PollInv

(* poll takes the whole buffer.                                                   *)
LEMMA PollInStep ==
    ASSUME PollInv, poll
    PROVE  PollInv'
<1>1. /\ polled' = polled \o m_buffer /\ m_buffer' = <<>>
      /\ UNCHANGED <<m_topics, m_dropped, registered, user, dispatching, enqueued, overlapped, pollMessages>>
  BY DEF poll
<1>2. polled' \in Seq(PolledMessages) /\ Len(polled') = Len(polled) + Len(m_buffer)
  BY <1>1, ConcatProperties DEF PollInv, PollTypeOK
<1>3. Len(polled) \in Nat /\ Len(m_buffer) \in Nat /\ Len(enqueued) \in Nat /\ m_dropped \in Nat
  BY DEF PollInv, PollTypeOK
<1>4. PollTypeOK'
  BY <1>1, <1>2 DEF PollInv, PollTypeOK
<1>5. m_buffer' = <<>> /\ Len(m_buffer') = 0
  BY <1>1
<1>6. BufferInStep'
  BY <1>1, <1>2, <1>3, <1>5, PollAssumption DEF PollInv, BufferInStep, EndOf
<1>7. TopicsInStep'
  BY <1>1 DEF PollInv, TopicsInStep, Pending
<1> QED
  BY <1>4, <1>6, <1>7 DEF PollInv

(* The poller receives what it is subscribed to, for any number of threads that   *)
(* subscribe and unsubscribe, unless their calls overlap on a topic; and it keeps  *)
(* the newest messages, for any capacity, with an account of all the others.      *)
THEOREM PollerCorrect == PollSpec => []PollerIsSound
<1>1. PollInit => PollInv
  BY PollerStarts
<1>2. PollInv /\ [PollNext]_pollVars => PollInv'
  <2> SUFFICES ASSUME PollInv, [PollNext]_pollVars
               PROVE  PollInv'
    OBVIOUS
  <2>1. CASE UNCHANGED pollVars
    BY Zenon, <2>1 DEF pollVars, PollInv, PollTypeOK, TopicsInStep, Pending, BufferInStep, EndOf
  <2>2. ASSUME NEW u \in PollUsers, NEW t \in PollTopics, subscribeTopic(u, t)
        PROVE  PollInv'
    BY <2>2, CallInStep DEF subscribeTopic
  <2>3. ASSUME NEW u \in PollUsers, NEW t \in PollTopics, unsubscribe(u, t)
        PROVE  PollInv'
    BY <2>3, CallInStep DEF unsubscribe
  <2>4. ASSUME NEW u \in PollUsers, unsubscribeAll(u)
        PROVE  PollInv'
    <3>1. m_topics \in SUBSET PollTopics /\ m_topics' = m_topics \ m_topics
      BY <2>4 DEF unsubscribeAll, PollInv, PollTypeOK
    <3> QED
      BY <2>4, <3>1, CallInStep DEF unsubscribeAll
  <2> QED
    BY <2>1, <2>2, <2>3, <2>4, RegistersInStep, ArrivesInStep, EnqueueInStep, PollInStep DEF PollNext
<1>3. PollInv => PollerIsSound
  <2> SUFFICES ASSUME PollInv PROVE PollerIsSound
    OBVIOUS
  <2>1. RegistrationsMatchTopics
    BY DEF PollInv, TopicsInStep, RegistrationsMatchTopics, PollersIdle, Pending, NoCall
  <2>2. PollerKeepsNewest
    BY EndIsSuffix DEF PollInv, PollTypeOK, BufferInStep, PollerKeepsNewest
  <2> QED
    BY <2>1, <2>2 DEF PollerIsSound
<1> QED
  BY <1>1, <1>2, <1>3, PTL DEF PollSpec
--------------------------------------------------------------------------------
(* The object that the processing thread turns to next is one that has lived.     *)
LEMMA NextGuarded ==
    ASSUME QtInv, qtBatch[2] # <<>>
    PROVE  /\ Head(qtBatch[2]) \in 1 .. objects /\ Tail(qtBatch[2]) \in Seq(Nat)
           /\ \A i \in DOMAIN Tail(qtBatch[2]) : Tail(qtBatch[2])[i] \in 1 .. objects
<1> DEFINE guards == qtBatch[2]
<1>1. guards \in Seq(Nat) /\ guards # <<>> /\ \A i \in DOMAIN guards : guards[i] \in 1 .. objects
  BY DEF QtInv, QtTypeOK, QtRegistrationsInStep
<1> HIDE DEF guards
<1>2. guards \in Seq(1 .. objects)
  <2>1. guards \in [1 .. Len(guards) -> 1 .. objects] /\ Len(guards) \in Nat
    BY <1>1
  <2> QED
    BY <2>1, SeqDef, Zenon
<1>3. Head(guards) \in 1 .. objects /\ Tail(guards) \in Seq(1 .. objects)
  BY <1>1, <1>2, HeadTailProperties
<1>4. Tail(guards) \in Seq(Nat) /\ \A i \in DOMAIN Tail(guards) : Tail(guards)[i] \in 1 .. objects
  BY <1>1, <1>3, HeadTailProperties, LenProperties
<1> QED
  BY <1>3, <1>4 DEF guards

(* Objects come and go, and register.                                             *)
LEMMA ContextsInStep ==
    ASSUME QtInv, ContextCreated \/ qtRegisterCallback \/ qtUnregisterCallback \/ ContextDestroyed
    PROVE  QtInv'
<1>1. CASE ContextCreated
  <2>1. alive = 0 /\ qtRegistered = <<>> /\ alive' = objects + 1 /\ objects' = objects + 1
    BY <1>1 DEF ContextCreated, QtInv, QtRegistrationsInStep
  <2>2. UNCHANGED <<qtRegistered, connections, qtBatch, qtEvents, qtMade, undefined, raced>>
    BY <1>1 DEF ContextCreated
  <2>3. ~ raced => qtBatch[1] # "posts" /\ DOMAIN qtEvents = {}
    <3>1. qtBatch[1] = "posts" => Head(qtBatch[2]) \in 1 .. objects
      BY NextGuarded DEF QtInv, QtRegistrationsInStep
    <3>2. objects \in Nat /\ \A i \in DOMAIN qtEvents : qtEvents[i] # 0
      BY DEF QtInv, QtTypeOK, QtRegistrationsInStep
    <3>3. ASSUME ~ raced PROVE qtBatch[1] # "posts" /\ \A i \in DOMAIN qtEvents : FALSE
      BY <2>1, <3>1, <3>2, <3>3 DEF QtInv, QtCallsInStep
    <3> QED
      BY Zenon, <3>3
  <2>4. QtTypeOK'
    BY <2>1, <2>2 DEF QtInv, QtTypeOK
  <2>5. QtRegistrationsInStep'
    BY <2>1, <2>2 DEF QtInv, QtTypeOK, QtRegistrationsInStep
  <2>6. QtCallsInStep'
    BY <2>2, <2>3, Zenon DEF QtInv, QtCallsInStep
  <2> QED
    BY <2>4, <2>5, <2>6 DEF QtInv
<1>2. CASE qtRegisterCallback
  <2>1. /\ alive # 0 /\ qtRegistered' = Append(qtRegistered, alive) /\ connections' = connections + 1
        /\ UNCHANGED <<alive, objects, qtBatch, qtEvents, qtMade, undefined, raced>>
    BY <1>2 DEF qtRegisterCallback
  <2>2. qtRegistered' \in Seq(Nat) /\ \A i \in DOMAIN qtRegistered' : qtRegistered'[i] = alive
    BY <2>1, AppendProperties DEF QtInv, QtTypeOK, QtRegistrationsInStep
  <2>3. QtTypeOK' /\ QtRegistrationsInStep'
    BY <2>1, <2>2 DEF QtInv, QtTypeOK, QtRegistrationsInStep
  <2>4. QtCallsInStep'
    BY <2>1, Zenon DEF QtInv, QtCallsInStep
  <2> QED
    BY <2>3, <2>4 DEF QtInv
<1>3. CASE qtUnregisterCallback
  <2>1. qtRegistered' = <<>> /\ UNCHANGED <<alive, objects, connections, qtBatch, qtEvents, qtMade, undefined, raced>>
    BY <1>3 DEF qtUnregisterCallback
  <2>2. QtTypeOK' /\ QtRegistrationsInStep'
    BY <2>1 DEF QtInv, QtTypeOK, QtRegistrationsInStep
  <2>3. QtCallsInStep'
    BY <2>1, Zenon DEF QtInv, QtCallsInStep
  <2> QED
    BY <2>2, <2>3 DEF QtInv
<1>4. CASE ContextDestroyed
  <2>1. /\ alive' = 0 /\ qtEvents' = <<>> /\ connections' = 0 /\ qtRegistered' = <<>>
        /\ raced' = (raced \/ qtBatch[1] = "posts") /\ UNCHANGED <<objects, qtBatch, qtMade, undefined>>
    BY <1>4 DEF ContextDestroyed, QtInv, QtRegistrationsInStep
  <2>2. QtTypeOK' /\ QtRegistrationsInStep'
    BY <2>1 DEF QtInv, QtTypeOK, QtRegistrationsInStep
  <2>3. DOMAIN qtEvents' = {}
    BY <2>1
  <2>4. QtCallsInStep'
    BY <2>1, <2>3, Zenon DEF QtInv, QtCallsInStep
  <2> QED
    BY <2>2, <2>4 DEF QtInv
<1> QED
  BY <1>1, <1>2, <1>3, <1>4

(* The processing thread, and the object's own.                                   *)
LEMMA CallsInStep ==
    ASSUME QtInv, QtMessage \/ LooksAtGuard \/ invokeMethod \/ EventLoop
    PROVE  QtInv'
<1>1. CASE QtMessage
  <2>1. /\ qtBatch' = <<"looks", qtRegistered>> /\ qtRegistered # <<>>
        /\ UNCHANGED <<alive, objects, qtRegistered, connections, qtEvents, qtMade, undefined, raced>>
    BY <1>1 DEF QtMessage
  <2>2. \A i \in DOMAIN qtRegistered : qtRegistered[i] \in 1 .. objects
    BY <2>1 DEF QtInv, QtTypeOK, QtRegistrationsInStep
  <2>3. QtTypeOK' /\ QtRegistrationsInStep'
    BY <2>1, <2>2 DEF QtInv, QtTypeOK, QtRegistrationsInStep
  <2>4. qtBatch'[1] = "looks"
    BY <2>1
  <2>5. QtCallsInStep'
    BY <2>1, <2>4 DEF QtInv, QtCallsInStep
  <2> QED
    BY <2>3, <2>5 DEF QtInv
<1>2. CASE LooksAtGuard
  <2>1. /\ qtBatch[2] # <<>>
        /\ qtBatch' = IF alive = Head(qtBatch[2]) THEN <<"posts", qtBatch[2]>> ELSE <<"looks", Tail(qtBatch[2])>>
        /\ UNCHANGED <<alive, objects, qtRegistered, connections, qtEvents, qtMade, undefined, raced>>
    BY <1>2 DEF LooksAtGuard, Guarded
  <2>2. CASE alive = Head(qtBatch[2])
    <3>1. qtBatch' = <<"posts", qtBatch[2]>>
      BY <2>1, <2>2
    <3>2. QtTypeOK' /\ QtRegistrationsInStep'
      BY <2>1, <3>1 DEF QtInv, QtTypeOK, QtRegistrationsInStep
    <3>3. qtBatch'[2] = qtBatch[2]
      BY <3>1
    <3>4. QtCallsInStep'
      BY <2>1, <2>2, <3>3, Zenon DEF QtInv, QtCallsInStep
    <3> QED
      BY <3>2, <3>4 DEF QtInv
  <2>3. CASE alive # Head(qtBatch[2])
    <3>1. qtBatch' = <<"looks", Tail(qtBatch[2])>>
      BY <2>1, <2>3
    <3>2. QtTypeOK' /\ QtRegistrationsInStep'
      <4>1. /\ Tail(qtBatch[2]) \in Seq(Nat)
            /\ \A i \in DOMAIN Tail(qtBatch[2]) : Tail(qtBatch[2])[i] \in 1 .. objects
        BY <2>1, NextGuarded
      <4>2. qtBatch' \in {"looks", "posts"} \X Seq(Nat) /\ qtBatch'[1] = "looks" /\ qtBatch'[2] = Tail(qtBatch[2])
        BY Zenon, <3>1, <4>1
      <4>3. QtTypeOK'
        BY <2>1, <4>2 DEF QtInv, QtTypeOK
      <4>4. QtRegistrationsInStep'
        BY <2>1, <4>1, <4>2 DEF QtInv, QtRegistrationsInStep
      <4> QED
        BY <4>3, <4>4
    <3>3. qtBatch'[1] = "looks"
      BY <3>1
    <3>4. QtCallsInStep'
      BY <2>1, <3>3 DEF QtInv, QtCallsInStep
    <3> QED
      BY <3>2, <3>4 DEF QtInv
  <2> QED
    BY <2>2, <2>3
<1>3. CASE invokeMethod
  <2>1. /\ qtBatch[1] = "posts" /\ qtBatch' = <<"looks", Tail(qtBatch[2])>>
        /\ UNCHANGED <<alive, objects, qtRegistered, connections, qtMade, raced>>
    BY <1>3 DEF invokeMethod
  <2>2. qtBatch[2] # <<>>
    BY <2>1 DEF QtInv, QtRegistrationsInStep
  <2>3. /\ Head(qtBatch[2]) \in 1 .. objects /\ Tail(qtBatch[2]) \in Seq(Nat)
        /\ \A i \in DOMAIN Tail(qtBatch[2]) : Tail(qtBatch[2])[i] \in 1 .. objects
    BY <2>2, NextGuarded
  <2>4. CASE alive # 0 /\ qtEvents' = Append(qtEvents, Head(qtBatch[2])) /\ undefined' = undefined
    <3> DEFINE guarded == Head(qtBatch[2])
    <3>1. guarded \in 1 .. objects /\ (~ raced => guarded = alive) /\ qtEvents' = Append(qtEvents, guarded)
      BY <2>1, <2>3, <2>4 DEF QtInv, QtCallsInStep
    <3> HIDE DEF guarded
    <3>2. qtEvents \in Seq(Nat) /\ guarded \in Nat /\ objects \in Nat
      BY <3>1 DEF QtInv, QtTypeOK
    <3>3. /\ qtEvents' \in Seq(Nat) /\ DOMAIN qtEvents' = 1 .. Len(qtEvents) + 1
          /\ \A i \in 1 .. Len(qtEvents) : qtEvents'[i] = qtEvents[i]
          /\ qtEvents'[Len(qtEvents) + 1] = guarded
      BY <3>1, <3>2, AppendProperties
    <3>4. \A i \in DOMAIN qtEvents' : qtEvents'[i] = guarded \/ \E j \in DOMAIN qtEvents : qtEvents'[i] = qtEvents[j]
      BY <3>2, <3>3
    <3>5. \A i \in DOMAIN qtEvents' : qtEvents'[i] \in 1 .. objects
      BY <3>1, <3>4, Zenon DEF QtInv, QtRegistrationsInStep
    <3>6. ~ raced => \A i \in DOMAIN qtEvents' : qtEvents'[i] = alive
      BY <3>1, <3>4, Zenon DEF QtInv, QtCallsInStep
    <3>7. QtTypeOK' /\ QtRegistrationsInStep'
      BY Zenon, <2>1, <2>3, <3>3, <3>5 DEF QtInv, QtTypeOK, QtRegistrationsInStep
    <3>8. qtBatch'[1] = "looks"
      BY <2>1
    <3>9. QtCallsInStep'
      BY <2>1, <2>4, <3>6, <3>8 DEF QtInv, QtCallsInStep
    <3> QED
      BY <3>7, <3>9 DEF QtInv
  <2>5. CASE alive = 0 /\ undefined' = TRUE /\ qtEvents' = qtEvents
    <3>1. raced
      <4>1. objects \in Nat /\ Head(qtBatch[2]) # alive
        BY <2>3, <2>5 DEF QtInv, QtTypeOK
      <4> QED
        BY <2>1, <4>1, Zenon DEF QtInv, QtCallsInStep
    <3>2. QtTypeOK' /\ QtRegistrationsInStep'
      BY Zenon, <2>1, <2>3, <2>5 DEF QtInv, QtTypeOK, QtRegistrationsInStep
    <3>3. QtCallsInStep'
      BY <2>1, <3>1, Zenon DEF QtCallsInStep
    <3> QED
      BY <3>2, <3>3 DEF QtInv
  <2> QED
    BY Zenon, <1>3, <2>4, <2>5 DEF invokeMethod
<1>4. CASE EventLoop
  <2>1. /\ qtEvents # <<>> /\ qtMade' = qtMade \cup {<<Head(qtEvents), alive>>} /\ qtEvents' = Tail(qtEvents)
        /\ UNCHANGED <<alive, objects, qtRegistered, connections, qtBatch, undefined, raced>>
    BY <1>4 DEF EventLoop
  <2>2. /\ qtEvents \in Seq(Nat) /\ 1 \in DOMAIN qtEvents /\ Head(qtEvents) = qtEvents[1]
        /\ qtEvents' \in Seq(Nat)
        /\ \A i \in DOMAIN qtEvents' : i + 1 \in DOMAIN qtEvents /\ qtEvents'[i] = qtEvents[i + 1]
    <3>1. qtEvents \in Seq(Nat) /\ Len(qtEvents) \in Nat
      BY DEF QtInv, QtTypeOK
    <3>2. qtEvents' \in Seq(Nat) /\ Len(qtEvents') = Len(qtEvents) - 1
      BY <2>1, <3>1, HeadTailProperties
    <3> QED
      BY <2>1, <3>1, <3>2, HeadTailProperties
  <2>3. ~ raced => Head(qtEvents) = alive
    BY <2>2, Zenon DEF QtInv, QtCallsInStep
  <2>4. QtTypeOK' /\ QtRegistrationsInStep'
    BY <2>1, <2>2 DEF QtInv, QtTypeOK, QtRegistrationsInStep
  <2>5. <<Head(qtEvents), alive>>[1] = Head(qtEvents) /\ <<Head(qtEvents), alive>>[2] = alive
    OBVIOUS
  <2>6. ASSUME ~ raced PROVE \A made \in qtMade' : made[1] = made[2]
    BY <2>1, <2>3, <2>5, <2>6 DEF QtInv, QtCallsInStep
  <2>7. QtCallsInStep'
    BY <2>1, <2>2, <2>6, Zenon DEF QtInv, QtCallsInStep
  <2> QED
    BY <2>4, <2>7 DEF QtInv
<1> QED
  BY <1>1, <1>2, <1>3, <1>4

(* The Qt adapter's calls reach only objects that live, and the objects they were *)
(* meant for, whatever comes to live at the same address, unless an object is     *)
(* destroyed right between the look at its guard and the post.                    *)
THEOREM QtCallsCorrect == QtSpec => []QtCallsReachTheLiving
<1>1. QtInit => QtInv
  <2>1. QtInit => QtTypeOK /\ QtRegistrationsInStep
    <3> SUFFICES ASSUME QtInit PROVE QtTypeOK /\ QtRegistrationsInStep
      OBVIOUS
    <3>1. qtBatch = <<"looks", <<>>>> /\ qtBatch[1] = "looks" /\ qtBatch[2] = <<>>
      BY DEF QtInit
    <3>2. QtTypeOK
      <4>1. <<>> \in Seq(Nat)
        BY EmptySeq
      <4>2. qtBatch \in {"looks", "posts"} \X Seq(Nat)
        BY Zenon, <3>1, <4>1
      <4> QED
        BY <4>1, <4>2 DEF QtInit, QtTypeOK
    <3>3. QtRegistrationsInStep
      BY <3>1 DEF QtInit, QtRegistrationsInStep
    <3> QED
      BY <3>2, <3>3
  <2>2. QtInit => QtCallsInStep
    BY DEF QtInit, QtCallsInStep
  <2> QED
    BY <2>1, <2>2 DEF QtInv
<1>2. QtInv /\ [QtNext]_qtVars => QtInv'
  <2>1. CASE UNCHANGED qtVars
    BY <2>1 DEF qtVars, QtInv, QtTypeOK, QtRegistrationsInStep, QtCallsInStep
  <2> QED
    BY <2>1, ContextsInStep, CallsInStep DEF QtNext
<1>3. QtInv => QtCallsReachTheLiving
  <2>1. QtRegistrationsInStep => DestroyedLeavesNothing
    BY DEF QtRegistrationsInStep, DestroyedLeavesNothing, Range
  <2>2. QtCallsInStep => GuardKeepsCalls
    BY Zenon DEF QtCallsInStep, GuardKeepsCalls
  <2> QED
    BY <2>1, <2>2 DEF QtInv, QtCallsReachTheLiving
<1> QED
  BY <1>1, <1>2, <1>3, PTL DEF QtSpec
--------------------------------------------------------------------------------
(* A set of naturals that is not empty has a least element.                       *)
LEMMA LeastUuid == ASSUME NEW S, S \subseteq Nat, S # {} PROVE Min(S) \in S
<1>1. \E n \in S : \A m \in S : ~ (<<m, n>> \in OpToRel(<, Nat))
    BY WFMin, NatLessThanWellFounded, Zenon
<1>2. \A m, n \in Nat : m < n => <<m, n>> \in OpToRel(<, Nat)
    BY Zenon DEF OpToRel
<1>3. \E n \in S : \A m \in S : ~ (m < n)
    BY <1>1, <1>2, Zenon
<1> HIDE <1>1, <1>2
<1>4. \E n \in S : \A m \in S : n <= m
    BY <1>3
<1> QED BY <1>4, Zenon DEF Min

(* A row is shown if the filter accepts it.                                       *)
LEMMA AcceptedAre ==
    ASSUME NEW history, NEW topics, NEW text, NEW id
    PROVE  id \in Accepted(history, topics, text) <=>
               \E i \in DOMAIN history : filterAcceptsRow(history[i], topics, text) /\ history[i].id = id
BY Zenon DEF Accepted

(* Nothing is shown when no topic is checked.                                     *)
LEMMA NoneAccepted == ASSUME NEW history, NEW text PROVE Accepted(history, {}, text) = {}
BY Zenon DEF Accepted, filterAcceptsRow

(* The selection stays among the rows that remain, and so do its details.         *)
LEMMA SelectionRemains ==
    ASSUME SelectionInStep, NEW rows, RowsRemain(rows)
    PROVE  /\ selected' # 0 => selected' = details' /\ selected' \in rows
           /\ selected = 0 => selected' = 0
<1>1. selected' \in Reselected(rows) /\ details' \in Detailed(selected')
    BY Zenon DEF RowsRemain
<1>2. CASE selected \in rows \cup {0}
  <2>1. selected' = selected
      BY Zenon, <1>1, <1>2 DEF Reselected
  <2>2. details' = details
      BY Zenon, <1>1, <2>1 DEF Detailed
  <2> QED BY <1>2, <2>1, <2>2 DEF SelectionInStep
<1>3. CASE selected \notin rows \cup {0}
  <2>1. selected' \in rows \cup {0} /\ selected # 0
      BY <1>1, <1>3 DEF Reselected, NextRows, LastRows
  <2>2. selected' # selected
      BY <1>3, <2>1
  <2>3. selected' # 0 => details' = selected'
      BY <1>1, <2>2 DEF Detailed
  <2> QED BY <2>1, <2>3
<1> QED BY <1>2, <1>3

(* The window opens on the local broker, with nothing captured.                   *)
LEMMA InspectorStarts == InspectorInit => InspectorInv
<1> SUFFICES ASSUME InspectorInit PROVE InspectorInv
    OBVIOUS
<1> USE DEF InspectorInit
<1>1. InspectorTypeOK
    BY DEF InspectorTypeOK, Endpoints
<1>2. BrokersInStep
    BY DEF BrokersInStep
<1>3. PostedIsOfAttached /\ FilterInStep /\ SelectionInStep
    BY DEF PostedIsOfAttached, FilterInStep, SelectionInStep
<1>4. TableShowsChecked
    BY DEF TableShowsChecked, Accepted
<1>5. CaptureIsOfAttached /\ SelectorShowsAttached /\ ReplayGoesToAttached
    BY DEF CaptureIsOfAttached, SelectorShowsAttached, ReplayGoesToAttached
<1> QED BY <1>1, <1>2, <1>3, <1>4, <1>5 DEF InspectorInv, WindowShowsAttached

(* The running worker posts packets of the broker attached to.                    *)
LEMMA PostsInStep ==
    ASSUME InspectorInv, NEW content \in Contents, packetReceived(content)
    PROVE  InspectorInv'
<1> DEFINE packet == [id |-> packets + 1, topic |-> content.topic, contains |-> content.contains, from |-> tapEndpoint]
<1>1. packet \in Packets /\ packet.from = m_currentEndpoint
  <2>1. content.topic \in PacketTopics /\ content.contains \in SUBSET SearchTexts
      BY Zenon, InspectorAssumption
  <2>2. packets + 1 \in Nat /\ tapEndpoint \in Endpoints /\ tapEndpoint = m_currentEndpoint
      BY DEF InspectorInv, InspectorTypeOK
  <2> QED BY Zenon, <2>1, <2>2 DEF Packets
<1>2. uiQueue' = Append(uiQueue, packet) /\ packets' = packets + 1
    BY DEF packetReceived
<1>3. UNCHANGED <<m_discoveredBrokers, quiet, selectorItems, selectorShown, tapEndpoint, m_currentEndpoint,
                  m_injectorAddress, m_packetHistory, m_knownTopics, unchecked, filterBar, m_allowedTopics, m_searchText, visible,
                  selected, details, stats, advertised, postedBefore>>
    BY DEF packetReceived, brokerList, attachment, captureView, filterVars, proxyModel
<1> HIDE DEF packet
<1>4. InspectorTypeOK'
  <2>1. uiQueue \in Seq(Packets) /\ packets \in Nat
      BY Zenon DEF InspectorInv, InspectorTypeOK
  <2>2. uiQueue' \in Seq(Packets) /\ packets' \in Nat
      BY <1>1, <1>2, <2>1
  <2> QED BY Zenon, <1>3, <2>2 DEF InspectorInv, InspectorTypeOK
<1>5. PostedIsOfAttached'
  <2> uiQueue \in Seq(Packets)
      BY Zenon DEF InspectorInv, InspectorTypeOK
  <2>1. /\ Len(uiQueue) \in Nat /\ DOMAIN uiQueue = 1 .. Len(uiQueue)
        /\ DOMAIN uiQueue' = 1 .. (Len(uiQueue) + 1)
        /\ \A i \in 1 .. Len(uiQueue) : uiQueue'[i] = uiQueue[i]
        /\ uiQueue'[Len(uiQueue) + 1] = packet
      BY <1>1, <1>2, LenProperties
  <2>2. \A i \in DOMAIN uiQueue' : i \in DOMAIN uiQueue \/ i = Len(uiQueue) + 1
      BY <2>1
  <2> QED BY <1>1, <1>3, <2>1, <2>2 DEF InspectorInv, PostedIsOfAttached
<1>6. BrokersInStep' /\ FilterInStep' /\ SelectionInStep'
    BY Zenon, <1>3 DEF InspectorInv, BrokersInStep, FilterInStep, SelectionInStep
<1>7. WindowShowsAttached'
    BY Zenon, <1>3 DEF InspectorInv, WindowShowsAttached, TableShowsChecked, CaptureIsOfAttached,
                SelectorShowsAttached, ReplayGoesToAttached
<1> QED BY <1>4, <1>5, <1>6, <1>7 DEF InspectorInv

(* A list of brokers that changes is offered again, with the attached one shown.  *)
LEMMA ListInStep ==
    ASSUME InspectorInv,
           UNCHANGED <<uiQueue, attachment, captureView, packets, postedBefore>>,
           DOMAIN m_discoveredBrokers' \subseteq Uuids,
           \A u \in DOMAIN m_discoveredBrokers' :
              /\ m_discoveredBrokers'[u] \in [endpoint : TapEndpoints, router : RouterEndpoints]
              /\ <<m_discoveredBrokers'[u].endpoint, m_discoveredBrokers'[u].router>> \in advertised',
           advertised \subseteq advertised',
           refreshBrokerList(m_discoveredBrokers')
    PROVE  InspectorInv'
<1>1. UNCHANGED <<tapEndpoint, m_currentEndpoint,
                  m_injectorAddress, m_packetHistory, m_knownTopics, unchecked, filterBar, m_allowedTopics, m_searchText, visible,
                  selected, details, stats, uiQueue, packets, postedBefore>>
    BY Zenon DEF attachment, captureView, filterVars, proxyModel
<1>2. InspectorTypeOK'
    BY Zenon, <1>1 DEF InspectorInv, InspectorTypeOK
<1>3. BrokersInStep'
    BY Zenon DEF InspectorInv, BrokersInStep, refreshBrokerList
<1>4. PostedIsOfAttached' /\ FilterInStep' /\ SelectionInStep'
    BY Zenon, <1>1 DEF InspectorInv, PostedIsOfAttached, FilterInStep, SelectionInStep
<1>5. SelectorShowsAttached'
    BY Zenon, <1>1 DEF refreshBrokerList, SelectionKept, SelectorShowsAttached
<1>6. TableShowsChecked' /\ CaptureIsOfAttached'
    BY Zenon, <1>1 DEF InspectorInv, WindowShowsAttached, TableShowsChecked, CaptureIsOfAttached
<1>7. ReplayGoesToAttached'
    BY Zenon, <1>1 DEF InspectorInv, WindowShowsAttached, ReplayGoesToAttached
<1> QED BY <1>2, <1>3, <1>4, <1>5, <1>6, <1>7 DEF InspectorInv, WindowShowsAttached

(* A beacon adds a broker or changes what one advertises.                         *)
LEMMA BeaconInStep ==
    ASSUME InspectorInv, NEW uuid \in Uuids, NEW endpoint \in TapEndpoints, NEW router \in RouterEndpoints,
           onBeaconHeard(uuid, endpoint, router)
    PROVE  InspectorInv'
<1> DEFINE broker == [endpoint |-> endpoint, router |-> router]
<1>1. /\ m_discoveredBrokers' = [u \in DOMAIN m_discoveredBrokers \cup {uuid} |->
                                    IF u = uuid THEN broker ELSE m_discoveredBrokers[u]]
      /\ advertised' = advertised \cup {<<endpoint, router>>}
      /\ UNCHANGED <<uiQueue, attachment, captureView, packets, postedBefore>>
    BY DEF onBeaconHeard
<1>2. /\ broker \in [endpoint : TapEndpoints, router : RouterEndpoints]
      /\ broker.endpoint = endpoint /\ broker.router = router
    OBVIOUS
<1>3. \/ /\ uuid \in DOMAIN m_discoveredBrokers /\ m_discoveredBrokers[uuid] = broker
         /\ UNCHANGED <<selectorItems, selectorShown>>
      \/ refreshBrokerList(m_discoveredBrokers')
    BY DEF onBeaconHeard
<1> HIDE DEF broker
<1>4. /\ DOMAIN m_discoveredBrokers' \subseteq Uuids
      /\ \A u \in DOMAIN m_discoveredBrokers' :
            /\ m_discoveredBrokers'[u] \in [endpoint : TapEndpoints, router : RouterEndpoints]
            /\ <<m_discoveredBrokers'[u].endpoint, m_discoveredBrokers'[u].router>> \in advertised'
    BY <1>1, <1>2 DEF InspectorInv, InspectorTypeOK, BrokersInStep
<1>5. advertised \subseteq advertised'
    BY <1>1
<1>6. ASSUME uuid \in DOMAIN m_discoveredBrokers, m_discoveredBrokers[uuid] = broker,
             UNCHANGED <<selectorItems, selectorShown>>
      PROVE  refreshBrokerList(m_discoveredBrokers')
  <2>1. /\ DOMAIN m_discoveredBrokers' = DOMAIN m_discoveredBrokers
        /\ \A u \in DOMAIN m_discoveredBrokers : m_discoveredBrokers'[u] = m_discoveredBrokers[u]
      BY <1>1, <1>6
  <2>2. selectorItems' = {localTap} \cup {m_discoveredBrokers'[u].endpoint : u \in DOMAIN m_discoveredBrokers'}
      BY <1>6, <2>1 DEF InspectorInv, BrokersInStep
  <2>3. selectorShown' = SelectionKept(selectorItems')
      BY Zenon, <1>6 DEF InspectorInv, WindowShowsAttached, SelectorShowsAttached, SelectionKept
  <2> QED BY Zenon, <2>2, <2>3 DEF refreshBrokerList
<1> QED BY Zenon, <1>1, <1>3, <1>4, <1>5, <1>6, ListInStep

(* A broker that has gone quiet leaves the list.                                  *)
LEMMA ExpiryInStep == ASSUME InspectorInv, expireDiscoveredBrokers PROVE InspectorInv'
<1>1. /\ m_discoveredBrokers' = [u \in DOMAIN m_discoveredBrokers \ quiet |-> m_discoveredBrokers[u]]
      /\ UNCHANGED <<uiQueue, attachment, captureView, packets, postedBefore>>
      /\ advertised' = advertised /\ refreshBrokerList(m_discoveredBrokers')
    BY DEF expireDiscoveredBrokers
<1>2. /\ DOMAIN m_discoveredBrokers' \subseteq Uuids
      /\ \A u \in DOMAIN m_discoveredBrokers' :
            /\ m_discoveredBrokers'[u] \in [endpoint : TapEndpoints, router : RouterEndpoints]
            /\ <<m_discoveredBrokers'[u].endpoint, m_discoveredBrokers'[u].router>> \in advertised'
    BY <1>1 DEF InspectorInv, InspectorTypeOK, BrokersInStep
<1> QED BY Zenon, <1>1, <1>2, ListInStep

(* The window attaches to a broker on the list, and its injector to a router that *)
(* this broker has advertised.                                                    *)
LEMMA AttachInStep ==
    ASSUME InspectorInv, NEW endpoint \in Endpoints, onBrokerSelected(endpoint)
    PROVE  InspectorInv'
<1>1. /\ endpoint \in selectorItems /\ selectorShown' = endpoint /\ attachTo(endpoint)
      /\ UNCHANGED <<uiQueue, m_discoveredBrokers, selectorItems, packets, advertised>>
    BY Zenon DEF onBrokerSelected
<1>2. BrokersInStep'
    BY <1>1 DEF InspectorInv, BrokersInStep
<1>3. CASE endpoint = m_currentEndpoint
  <2>1. UNCHANGED <<tapEndpoint, m_currentEndpoint, m_injectorAddress, m_packetHistory, m_knownTopics,
                    unchecked, filterBar, m_allowedTopics, m_searchText, visible, selected, details, stats, postedBefore>>
      BY <1>1, <1>3 DEF attachTo, attachment, captureView, filterVars, proxyModel
  <2>2. InspectorTypeOK' /\ PostedIsOfAttached' /\ FilterInStep' /\ SelectionInStep'
      BY <1>1, <2>1 DEF InspectorInv, InspectorTypeOK, PostedIsOfAttached, FilterInStep, SelectionInStep
  <2>3. SelectorShowsAttached'
      BY Zenon, <1>1, <1>3, <2>1 DEF SelectorShowsAttached
  <2>4. TableShowsChecked' /\ CaptureIsOfAttached' /\ ReplayGoesToAttached'
      BY <1>1, <2>1 DEF InspectorInv, WindowShowsAttached, TableShowsChecked, CaptureIsOfAttached,
                        ReplayGoesToAttached
  <2> QED BY <1>2, <2>2, <2>3, <2>4 DEF InspectorInv, WindowShowsAttached
<1>4. CASE endpoint # m_currentEndpoint
  <2>1. /\ m_packetHistory' = <<>> /\ visible' = {} /\ selected' = 0 /\ m_knownTopics' = {}
        /\ stats' = "--" /\ UNCHANGED <<filterBar, m_searchText>> /\ tapEndpoint' = endpoint /\ m_currentEndpoint' = endpoint
        /\ m_injectorAddress' = routerEndpointForTap(endpoint)
        /\ postedBefore' = IdsIn(uiQueue)
      BY <1>1, <1>4 DEF attachTo, clearCapture, Restarted, retargetInjector
  <2>2. InspectorTypeOK'
    <3>1. <<>> \in Seq(Packets)
        OBVIOUS
    <3> QED BY Zenon, <1>1, <2>1, <3>1 DEF InspectorInv, InspectorTypeOK
  <2>3. PostedIsOfAttached'
      BY Zenon, <1>1, <2>1 DEF PostedIsOfAttached, IdsIn
  <2>4. FilterInStep' /\ SelectionInStep'
      BY <2>1 DEF InspectorInv, FilterInStep, SelectionInStep
  <2>5. TableShowsChecked'
      BY <2>1 DEF TableShowsChecked, Accepted
  <2>6. CaptureIsOfAttached' /\ SelectorShowsAttached'
      BY <1>1, <2>1 DEF CaptureIsOfAttached, SelectorShowsAttached
  <2>7. ReplayGoesToAttached'
    <3> DEFINE of == {u \in DOMAIN m_discoveredBrokers : m_discoveredBrokers[u].endpoint = endpoint}
    <3>1. CASE of = {}
      <4>1. routerEndpointForTap(endpoint) = defaultRouter
          BY <3>1 DEF routerEndpointForTap
      <4>2. endpoint = localTap
          BY <1>1, <3>1 DEF InspectorInv, BrokersInStep
      <4> QED BY <1>1, <2>1, <4>1, <4>2 DEF InspectorInv, BrokersInStep, ReplayGoesToAttached
    <3>2. CASE of # {}
      <4>1. of \subseteq Nat
          BY Zenon, InspectorAssumption DEF InspectorInv, InspectorTypeOK
      <4>2. Min(of) \in of
          BY <3>2, <4>1, LeastUuid
      <4>3. routerEndpointForTap(endpoint) = m_discoveredBrokers[Min(of)].router
          BY <3>2, Zenon DEF routerEndpointForTap
      <4>4. Min(of) \in DOMAIN m_discoveredBrokers /\ m_discoveredBrokers[Min(of)].endpoint = endpoint
          BY <4>2
      <4> HIDE DEF of
      <4> QED BY <1>1, <2>1, <4>3, <4>4 DEF InspectorInv, BrokersInStep, ReplayGoesToAttached
    <3> QED BY <3>1, <3>2
  <2> QED BY <1>2, <2>2, <2>3, <2>4, <2>5, <2>6, <2>7 DEF InspectorInv, WindowShowsAttached
<1> QED BY <1>3, <1>4

(* Trimming leaves the newest rows, and at least one.                             *)
LEMMA TrimLeavesRows ==
    ASSUME NEW history \in Seq(Packets), history # <<>>
    PROVE  /\ Trimmed(history) \in Seq(Packets) /\ Trimmed(history) # <<>>
           /\ \A i \in DOMAIN Trimmed(history) : \E j \in DOMAIN history : Trimmed(history)[i] = history[j]
<1>1. CASE Len(history) > MaxPacketHistory
  <2> DEFINE n == Len(history)
             s == SubSeq(history, TrimChunk + 1, n)
  <2>1. n \in Nat /\ TrimChunk \in Nat /\ TrimChunk < n /\ DOMAIN history = 1 .. n
      BY <1>1, InspectorAssumption, LenProperties
  <2>2. \A i \in TrimChunk + 1 .. n : history[i] \in Packets
      BY <2>1, ElementOfSeq
  <2>3. /\ s \in Seq(Packets) /\ Len(s) = n - TrimChunk
        /\ \A i \in 1 .. n - TrimChunk : s[i] = history[i + TrimChunk]
    <3>1. /\ s \in Seq(Packets)
          /\ Len(s) = IF TrimChunk + 1 <= n THEN n - (TrimChunk + 1) + 1 ELSE 0
          /\ \A i \in 1 .. n - (TrimChunk + 1) + 1 : s[i] = history[TrimChunk + 1 + i - 1]
      <4> HIDE DEF n
      <4> QED BY <2>1, <2>2, SubSeqProperties
    <3> HIDE DEF n, s
    <3> QED BY <2>1, <3>1
  <2> HIDE DEF s, n
  <2>4. s # <<>>
      BY <2>1, <2>3
  <2>5. DOMAIN s = 1 .. n - TrimChunk /\ \A i \in 1 .. n - TrimChunk : i + TrimChunk \in 1 .. n
      BY <2>1, <2>3, LenProperties
  <2>6. Trimmed(history) = s
      BY Zenon, <1>1 DEF Trimmed, s, n
  <2> QED BY <2>1, <2>3, <2>4, <2>5, <2>6
<1>2. CASE ~ (Len(history) > MaxPacketHistory)
    BY <1>2 DEF Trimmed
<1> QED BY <1>1, <1>2

(* A packet is shown if its topic is checked, as it is if it is new.              *)
LEMMA PacketInStep == ASSUME InspectorInv, onNewPacket PROVE InspectorInv'
<1> DEFINE packet == Head(uiQueue)
           appended == Append(m_packetHistory, packet)
           history == Trimmed(appended)
<1>1. /\ uiQueue # <<>> /\ uiQueue' = Tail(uiQueue) /\ m_packetHistory' = history
      /\ RowsRemain(Accepted(history, m_allowedTopics, m_searchText))
      /\ NewTopic(packet.topic, history)
    BY DEF onNewPacket
<1>2. UNCHANGED <<m_discoveredBrokers, selectorItems, selectorShown, tapEndpoint, m_currentEndpoint,
                  m_injectorAddress, unchecked, filterBar, packets, advertised, postedBefore>>
    BY DEF onNewPacket, brokerList, attachment
<1>3. uiQueue \in Seq(Packets) /\ m_packetHistory \in Seq(Packets)
    BY DEF InspectorInv, InspectorTypeOK
<1>4. /\ packet \in Packets /\ uiQueue' \in Seq(Packets)
      /\ packet.from = m_currentEndpoint \/ packet.id \in postedBefore
      /\ \A i \in DOMAIN uiQueue' : i + 1 \in DOMAIN uiQueue /\ uiQueue'[i] = uiQueue[i + 1]
  <2>1. /\ Len(uiQueue) \in Nat \ {0} /\ DOMAIN uiQueue = 1 .. Len(uiQueue) /\ packet = uiQueue[1]
        /\ Tail(uiQueue) \in Seq(Packets) /\ packet \in Packets
        /\ Len(Tail(uiQueue)) = Len(uiQueue) - 1 /\ DOMAIN Tail(uiQueue) = 1 .. (Len(uiQueue) - 1)
        /\ \A i \in 1 .. (Len(uiQueue) - 1) : Tail(uiQueue)[i] = uiQueue[i + 1]
      BY <1>1, <1>3, LenProperties, HeadTailProperties, EmptySeq
  <2>2. 1 \in DOMAIN uiQueue
      BY <2>1
  <2>3. packet.from = m_currentEndpoint \/ packet.id \in postedBefore
      BY <2>1, <2>2 DEF InspectorInv, PostedIsOfAttached
  <2> HIDE DEF packet
  <2> QED BY <1>1, <2>1, <2>3
<1> HIDE DEF packet
<1>5. /\ appended \in Seq(Packets) /\ appended # <<>>
      /\ \A i \in DOMAIN appended : appended[i] = packet \/ \E j \in DOMAIN m_packetHistory : appended[i] = m_packetHistory[j]
  <2>1. /\ Len(m_packetHistory) \in Nat /\ DOMAIN m_packetHistory = 1 .. Len(m_packetHistory)
        /\ appended \in Seq(Packets) /\ Len(appended) = Len(m_packetHistory) + 1
        /\ DOMAIN appended = 1 .. (Len(m_packetHistory) + 1)
        /\ \A i \in 1 .. Len(m_packetHistory) : appended[i] = m_packetHistory[i]
        /\ appended[Len(m_packetHistory) + 1] = packet
      BY <1>3, <1>4, LenProperties
  <2>2. \A i \in DOMAIN appended : i \in DOMAIN m_packetHistory \/ i = Len(m_packetHistory) + 1
      BY <2>1
  <2>3. appended # <<>>
      BY <2>1
  <2> HIDE DEF appended
  <2> QED BY <2>1, <2>2, <2>3
<1> HIDE DEF appended
<1>6. /\ history \in Seq(Packets) /\ history # <<>>
      /\ \A i \in DOMAIN history : history[i] = packet \/ \E j \in DOMAIN m_packetHistory : history[i] = m_packetHistory[j]
  <2>1. \A i \in DOMAIN history : \E j \in DOMAIN appended : history[i] = appended[j]
      BY <1>5, TrimLeavesRows
  <2>2. history \in Seq(Packets) /\ history # <<>>
      BY <1>5, TrimLeavesRows
  <2> HIDE DEF history
  <2> QED BY <1>5, <2>1, <2>2
<1> HIDE DEF history
<1>7. /\ m_knownTopics' = m_knownTopics \cup {packet.topic}
      /\ m_allowedTopics' = m_knownTopics' \ unchecked /\ m_searchText' = filterBar
      /\ visible' = Accepted(history, m_allowedTopics', m_searchText')
  <2>1. CASE packet.topic \in m_knownTopics
    <3>1. /\ m_knownTopics' = m_knownTopics \cup {packet.topic}
          /\ m_allowedTopics' = m_allowedTopics /\ m_searchText' = m_searchText
          /\ visible' = Accepted(history, m_allowedTopics, m_searchText)
        BY Zenon, <1>1, <2>1 DEF NewTopic, updateFilters
    <3>2. m_allowedTopics = m_knownTopics \ unchecked /\ m_searchText = filterBar
        BY <2>1 DEF InspectorInv, FilterInStep
    <3>3. m_knownTopics' = m_knownTopics
        BY <2>1, <3>1
    <3> QED BY <3>1, <3>2, <3>3
  <2>2. CASE packet.topic \notin m_knownTopics
      BY Zenon, <1>1, <2>2 DEF NewTopic, updateFilters
  <2> QED BY <2>1, <2>2
<1>8. InspectorTypeOK'
    BY Zenon, <1>1, <1>2, <1>4, <1>6 DEF InspectorInv, InspectorTypeOK
<1>9. BrokersInStep'
    BY Zenon, <1>2 DEF InspectorInv, BrokersInStep
<1>10. PostedIsOfAttached'
    BY <1>2, <1>4 DEF InspectorInv, PostedIsOfAttached
<1>11. FilterInStep'
    BY <1>2, <1>7 DEF FilterInStep
<1>12. SelectionInStep'
  <2> DEFINE rows == Accepted(history, m_allowedTopics, m_searchText)
  <2>1. /\ selected' # 0 => selected' = details' /\ selected' \in rows
        /\ selected = 0 => selected' = 0
      BY Zenon, <1>1, SelectionRemains DEF InspectorInv
  <2>2. CASE m_knownTopics = {}
    <3>1. visible = {}
      <4>1. m_knownTopics \ unchecked = {}
          BY <2>2
      <4> QED BY Zenon, <4>1, NoneAccepted DEF InspectorInv, WindowShowsAttached, TableShowsChecked
    <3>2. selected = 0
        BY <3>1 DEF InspectorInv, SelectionInStep
    <3> QED BY <2>1, <3>2 DEF SelectionInStep
  <2>3. CASE m_knownTopics # {}
    <3>1. m_allowedTopics \subseteq m_allowedTopics' /\ m_searchText' = m_searchText
        BY <1>7, <2>3 DEF InspectorInv, FilterInStep
    <3>2. rows \subseteq visible'
        BY Zenon, <1>7, <3>1 DEF Accepted, filterAcceptsRow
    <3> HIDE DEF rows
    <3> QED BY Zenon, <2>1, <3>2 DEF SelectionInStep
  <2> QED BY <2>2, <2>3
<1>13. TableShowsChecked'
    BY <1>1, <1>2, <1>7 DEF TableShowsChecked
<1>14. CaptureIsOfAttached'
    BY <1>1, <1>2, <1>4, <1>6 DEF InspectorInv, WindowShowsAttached, CaptureIsOfAttached
<1>15. SelectorShowsAttached' /\ ReplayGoesToAttached'
    BY Zenon, <1>2 DEF InspectorInv, WindowShowsAttached, SelectorShowsAttached, ReplayGoesToAttached
<1> QED BY <1>8, <1>9, <1>10, <1>11, <1>12, <1>13, <1>14, <1>15 DEF InspectorInv, WindowShowsAttached

(* The menu's topics and the filter bar's text are applied to the table at once.  *)
LEMMA FiltersInStep ==
    ASSUME InspectorInv,
           \/ \E t \in PacketTopics : TopicToggled(t)
           \/ \E x \in {NoText} \cup SearchTexts : TextChanged(x)
    PROVE  InspectorInv'
<1> USE DEF TopicToggled, TextChanged
<1>1. /\ m_allowedTopics' = m_knownTopics \ unchecked' /\ m_searchText' = filterBar'
      /\ visible' = Accepted(m_packetHistory, m_knownTopics \ unchecked', filterBar')
      /\ RowsRemain(visible')
    BY Zenon DEF applyFilters, updateFilters
<1>2. UNCHANGED <<uiQueue, m_discoveredBrokers, selectorItems, selectorShown, tapEndpoint, m_currentEndpoint,
                  m_injectorAddress, m_packetHistory, m_knownTopics, stats, packets, advertised,
                  postedBefore>>
    BY Zenon DEF applyFilters, brokerList, attachment
<1>3. InspectorTypeOK' /\ BrokersInStep' /\ PostedIsOfAttached'
    BY <1>2 DEF InspectorInv, InspectorTypeOK, BrokersInStep, PostedIsOfAttached
<1>4. FilterInStep' /\ SelectionInStep'
  <2>1. FilterInStep'
      BY <1>1, <1>2 DEF FilterInStep
  <2>2. SelectionInStep'
      BY Zenon, <1>1, SelectionRemains DEF InspectorInv, SelectionInStep
  <2> QED BY <2>1, <2>2
<1>5. TableShowsChecked'
    BY <1>1, <1>2 DEF TableShowsChecked
<1>6. CaptureIsOfAttached' /\ SelectorShowsAttached' /\ ReplayGoesToAttached'
    BY Zenon, <1>2 DEF InspectorInv, WindowShowsAttached, CaptureIsOfAttached, SelectorShowsAttached,
                ReplayGoesToAttached
<1> QED BY <1>3, <1>4, <1>5, <1>6 DEF InspectorInv, WindowShowsAttached

(* Selecting a row, replaying it and a broker's silence change no view.           *)
LEMMA ViewsInStep ==
    ASSUME InspectorInv,
           \/ \E id \in 1 .. MaxPackets : onSelectionChanged(id)
           \/ \E u \in Uuids : GoesQuiet(u)
           \/ replaySelectedMessage
           \/ UNCHANGED inspectorVars
    PROVE  InspectorInv'
<1>1. UNCHANGED <<uiQueue, m_discoveredBrokers, selectorItems, selectorShown, tapEndpoint, m_currentEndpoint,
                  m_injectorAddress, m_packetHistory, m_knownTopics, unchecked, filterBar, m_allowedTopics, m_searchText, visible, stats,
                  packets, advertised, postedBefore>>
    BY Zenon DEF onSelectionChanged, GoesQuiet, replaySelectedMessage, inspectorVars, brokerList, attachment,
           captureView, filterVars, proxyModel
<1>2. SelectionInStep'
  <2>1. \/ UNCHANGED <<selected, details>>
        \/ selected' = details' /\ selected' \in visible
      BY Zenon DEF onSelectionChanged, GoesQuiet, replaySelectedMessage, inspectorVars, captureView, filterVars, proxyModel
  <2> QED BY <1>1, <2>1 DEF InspectorInv, SelectionInStep
<1>3. InspectorTypeOK' /\ BrokersInStep' /\ PostedIsOfAttached' /\ FilterInStep'
    BY <1>1 DEF InspectorInv, InspectorTypeOK, BrokersInStep, PostedIsOfAttached, FilterInStep
<1>4. WindowShowsAttached'
    BY Zenon, <1>1 DEF InspectorInv, WindowShowsAttached, TableShowsChecked, CaptureIsOfAttached,
                SelectorShowsAttached, ReplayGoesToAttached
<1> QED BY <1>2, <1>3, <1>4 DEF InspectorInv

(* Every step of the window keeps the invariant.                                  *)
LEMMA InspectorInStep == InspectorInv /\ [InspectorNext]_inspectorVars => InspectorInv'
BY PostsInStep, BeaconInStep, ExpiryInStep, AttachInStep, PacketInStep, FiltersInStep, ViewsInStep, Zenon
DEF InspectorNext, Endpoints

(* The window, its capture and its injector are those of the broker it is         *)
(* attached to, for every number of brokers, packets and rows kept.               *)
THEOREM WindowCorrect == InspectorSpec => []WindowShowsAttached
<1>1. InspectorInv => WindowShowsAttached
    BY DEF InspectorInv
<1> QED BY <1>1, InspectorStarts, InspectorInStep, PTL DEF InspectorSpec

(* What is replayed is the packet whose details are on display.                   *)
THEOREM ReplayCorrect == InspectorSpec => ReplaysWhatIsShown
<1>1. InspectorInv /\ [InspectorNext]_inspectorVars =>
          [injected' # <<>> => injected'[2] = details]_inspectorVars
  <2> SUFFICES ASSUME InspectorInv, InspectorNext, injected' # <<>> PROVE injected'[2] = details
      BY Zenon
  <2>1. replaySelectedMessage
      BY Zenon DEF InspectorNext
  <2>2. selected # 0 /\ injected'[2] = m_packetHistory[SourceRow(selected)].id
      BY <2>1 DEF replaySelectedMessage
  <2>3. selected = details /\ selected \in visible
      BY <2>2 DEF InspectorInv, SelectionInStep
  <2>4. \E i \in DOMAIN m_packetHistory : m_packetHistory[i].id = selected
      BY <2>3, AcceptedAre DEF InspectorInv, WindowShowsAttached, TableShowsChecked
  <2>5. m_packetHistory[SourceRow(selected)].id = selected
      BY <2>4, Zenon DEF SourceRow
  <2> QED BY <2>2, <2>3, <2>5
<1> QED BY <1>1, InspectorStarts, InspectorInStep, PTL DEF InspectorSpec, ReplaysWhatIsShown
================================================================================
