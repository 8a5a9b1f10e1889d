----------------------------- MODULE ZmqWorkerProofs -----------------------------
(* For any number of messages, any bounds of the queues and any interleaving:  *)
(* no data overtakes control on a client's worker, no control is lost, and     *)
(* sync answers for what was queued before it.                                 *)
EXTENDS ZmqWorker, SequenceTheorems, FiniteSetTheorems, TLAPS

(* A sequence over a set is one over a larger set.                             *)
LEMMA SeqGrows == ASSUME NEW S, NEW T, S \subseteq T PROVE Seq(S) \subseteq Seq(T)
<1> SUFFICES ASSUME NEW q \in Seq(S) PROVE q \in Seq(T)
  OBVIOUS
<1>1. \A i \in 1 .. Len(q) : q[i] \in T
  BY ElementOfSeq
<1>2. Len(q) \in Nat /\ q = [i \in 1 .. Len(q) |-> q[i]]
  BY LenProperties
<1>3. q \in [1 .. Len(q) -> T]
  BY <1>1, <1>2, Zenon
<1>4. [1 .. Len(q) -> T] \in {[1 .. n -> T] : n \in Nat}
  BY <1>2, Zenon
<1> QED
  BY <1>3, <1>4, SeqDef, Zenon

(* What remains of a sequence when some of it is cut off in front and behind.  *)
LEMMA Cut ==
    ASSUME NEW M, NEW q \in Seq(M), NEW d \in Nat, NEW e \in Nat, d <= e, e <= Len(q)
    PROVE  /\ SubSeq(q, d + 1, e) \in Seq(M) /\ Len(SubSeq(q, d + 1, e)) = e - d
           /\ \A i \in 1 .. e - d : SubSeq(q, d + 1, e)[i] = q[i + d]
<1>1. Len(q) \in Nat /\ \A i \in 1 .. Len(q) : q[i] \in M
  BY LenProperties, ElementOfSeq
<1>2. \A i \in d + 1 .. e : q[i] \in M
  BY <1>1
<1>3. /\ SubSeq(q, d + 1, e) \in Seq(M)
      /\ Len(SubSeq(q, d + 1, e)) = (IF d + 1 <= e THEN e - (d + 1) + 1 ELSE 0)
      /\ \A i \in 1 .. e - (d + 1) + 1 : SubSeq(q, d + 1, e)[i] = q[d + 1 + i - 1]
  BY <1>2, SubSeqProperties
<1> DEFINE r == SubSeq(q, d + 1, e)
<1>4. /\ r \in Seq(M) /\ Len(r) = (IF d + 1 <= e THEN e - (d + 1) + 1 ELSE 0)
      /\ \A i \in 1 .. e - (d + 1) + 1 : r[i] = q[d + 1 + i - 1]
  BY <1>3
<1> HIDE DEF r
<1>5. r \in Seq(M) /\ Len(r) = e - d /\ \A i \in 1 .. e - d : r[i] = q[i + d]
  BY <1>4
<1> QED
  BY <1>5 DEF r

(* Two sequences, one behind the other.                                        *)
LEMMA Joined ==
    ASSUME NEW M, NEW q \in Seq(M), NEW r \in Seq(M)
    PROVE  /\ q \o r \in Seq(M) /\ Len(q \o r) = Len(q) + Len(r)
           /\ \A i \in 1 .. Len(q) : (q \o r)[i] = q[i]
           /\ \A i \in 1 .. Len(r) : (q \o r)[i + Len(q)] = r[i]
           /\ \A i \in 1 .. Len(q) + Len(r) : i \in 1 .. Len(q) \/ (i - Len(q) \in 1 .. Len(r) /\ (q \o r)[i] = r[i - Len(q)])
<1> DEFINE s == q \o r
           m == Len(q)
           n == Len(r)
<1>1. m \in Nat /\ n \in Nat
  BY LenProperties
<1>2. /\ s \in Seq(M) /\ Len(s) = m + n
      /\ \A i \in 1 .. m + n : s[i] = IF i <= m THEN q[i] ELSE r[i - m]
  BY ConcatProperties
<1> HIDE DEF s, m, n
<1>3. \A i \in 1 .. m : s[i] = q[i]
  BY <1>1, <1>2
<1>4. \A i \in 1 .. n : s[i + m] = r[i]
  <2> TAKE i \in 1 .. n
  <2>1. i + m \in 1 .. m + n /\ ~ (i + m <= m) /\ (i + m) - m = i
    BY <1>1
  <2> QED
    BY <1>2, <2>1
<1>5. \A i \in 1 .. m + n : i \in 1 .. m \/ (i - m \in 1 .. n /\ s[i] = r[i - m])
  BY <1>1, <1>2
<1> QED
  BY <1>2, <1>3, <1>4, <1>5 DEF s, m, n

(* A stretch of a sequence.                                                    *)
PartOf(r, q) == \E d \in Nat : Len(r) + d <= Len(q) /\ \A i \in 1 .. Len(r) : r[i] = q[i + d]

(* Sequences that grow stay so when they are cut and when they are joined.     *)
LEMMA IncreasingParts ==
    ASSUME NEW q \in Seq(Int), NEW r \in Seq(Int), PartOf(r, q), Increasing(q)
    PROVE  /\ Increasing(r)
           /\ \A s \in Seq(Int) : /\ Below(q, s) => Below(r, s)
                                  /\ Below(s, q) => Below(s, r)
<1> PICK d \in Nat : Len(r) + d <= Len(q) /\ \A i \in 1 .. Len(r) : r[i] = q[i + d]
  BY Zenon DEF PartOf
<1>1. DOMAIN q = 1 .. Len(q) /\ DOMAIN r = 1 .. Len(r) /\ Len(q) \in Nat /\ Len(r) \in Nat
  BY LenProperties
<1>2. \A i \in 1 .. Len(r) : i + d \in 1 .. Len(q)
  BY <1>1
<1>3. Increasing(r)
  <2> SUFFICES ASSUME NEW i \in 1 .. Len(r), NEW j \in 1 .. Len(r), i < j PROVE r[i] < r[j]
    BY <1>1 DEF Increasing
  <2>1. i + d < j + d
    OBVIOUS
  <2> QED
    BY Zenon, <1>1, <1>2, <2>1 DEF Increasing
<1>4. ASSUME NEW s \in Seq(Int), Below(q, s) PROVE Below(r, s)
  BY Zenon, <1>1, <1>2, <1>4 DEF Below
<1>5. ASSUME NEW s \in Seq(Int), Below(s, q) PROVE Below(s, r)
  BY Zenon, <1>1, <1>2, <1>5 DEF Below
<1> QED
  BY <1>3, <1>4, <1>5

(* And a chain of two that grows is one sequence that does.                    *)
LEMMA IncreasingJoined ==
    ASSUME NEW q \in Seq(Int), NEW r \in Seq(Int), Increasing(q), Increasing(r), Below(q, r)
    PROVE  /\ q \o r \in Seq(Int) /\ Increasing(q \o r)
           /\ \A s \in Seq(Int) : Below(q, s) /\ Below(r, s) => Below(q \o r, s)
<1> DEFINE s == q \o r
           m == Len(q)
           n == Len(r)
<1>1. m \in Nat /\ n \in Nat /\ DOMAIN q = 1 .. m /\ DOMAIN r = 1 .. n
  BY LenProperties
<1>2. /\ s \in Seq(Int) /\ Len(s) = m + n
      /\ \A i \in 1 .. m : s[i] = q[i]
      /\ \A i \in 1 .. m + n : i \in 1 .. m \/ (i - m \in 1 .. n /\ s[i] = r[i - m])
  BY Joined
<1> HIDE DEF s, m, n
<1>3. DOMAIN s = 1 .. m + n
  BY <1>2, LenProperties
<1>4. Increasing(s)
  <2> SUFFICES ASSUME NEW i \in 1 .. m + n, NEW j \in 1 .. m + n, i < j PROVE s[i] < s[j]
    BY <1>3 DEF Increasing
  <2>1. CASE i \in 1 .. m /\ j \in 1 .. m
    BY Zenon, <1>1, <1>2, <2>1 DEF Increasing
  <2>2. CASE i \in 1 .. m /\ j \notin 1 .. m
    BY Zenon, <1>1, <1>2, <2>2 DEF Below
  <2>3. CASE i \notin 1 .. m
    <3>1. j \notin 1 .. m
      BY <1>1, <2>3
    <3>2. i - m \in 1 .. n /\ j - m \in 1 .. n /\ i - m < j - m /\ s[i] = r[i - m] /\ s[j] = r[j - m]
      BY <1>1, <1>2, <2>3, <3>1
    <3> QED
      BY Zenon, <1>1, <3>2 DEF Increasing
  <2> QED
    BY <2>1, <2>2, <2>3
<1>5. ASSUME NEW t \in Seq(Int), Below(q, t), Below(r, t) PROVE Below(s, t)
  BY Zenon, <1>1, <1>2, <1>3, <1>5 DEF Below
<1> QED
  BY <1>2, <1>4, <1>5 DEF s

(* What Wire::send takes and what is left: the pipe is never overfull, and the *)
(* messages are parted at one place.                                           *)
LEMMA Sent ==
    ASSUME WorkerTypeOK, NEW M, NEW q \in Seq(M)
    PROVE  LET f == Len(Fitting(q))
           IN  /\ f \in 0 .. Len(q) /\ Len(pipe) + f <= PipeLimit
               /\ Fitting(q) \in Seq(M) /\ \A i \in 1 .. f : Fitting(q)[i] = q[i]
               /\ Refused(q) \in Seq(M) /\ Len(Refused(q)) = Len(q) - f
               /\ \A i \in 1 .. Len(q) - f : Refused(q)[i] = q[i + f]
<1> DEFINE n == Len(q)
           room == PipeLimit - Len(pipe)
           f == IF n > room THEN room ELSE n
<1>1. n \in Nat /\ room \in Nat /\ Len(pipe) \in Nat
  BY LenProperties, WorkerAssumption DEF WorkerTypeOK
<1>2. f \in 0 .. n /\ Len(pipe) + f <= PipeLimit
  BY <1>1, WorkerAssumption
<1>3. Fitting(q) = SubSeq(q, 0 + 1, f)
  BY DEF Fitting
<1>4. f \in Nat /\ 0 <= f /\ f <= Len(q) /\ n <= Len(q) /\ n \in Nat /\ f <= n
  BY <1>1, <1>2
<1> HIDE DEF f
<1>5. Fitting(q) \in Seq(M) /\ Len(Fitting(q)) = f - 0 /\ \A i \in 1 .. f - 0 : Fitting(q)[i] = q[i + 0]
  BY <1>3, <1>4, Cut
<1>6. Len(Fitting(q)) = f /\ \A i \in 1 .. f : Fitting(q)[i] = q[i]
  BY <1>4, <1>5
<1>7. Refused(q) = SubSeq(q, f + 1, n)
  BY <1>6 DEF Refused
<1>8. Refused(q) \in Seq(M) /\ Len(Refused(q)) = n - f /\ \A i \in 1 .. n - f : Refused(q)[i] = q[i + f]
  BY <1>4, <1>7, Cut
<1> QED
  BY <1>2, <1>5, <1>6, <1>8

(* What a backlog keeps: its newest, and all of it within the limit.           *)
LEMMA KeptIs ==
    ASSUME NEW M, NEW q \in Seq(M), NEW limit \in Nat
    PROVE  \E d \in 0 .. Len(q) :
              /\ Kept(q, limit) \in Seq(M) /\ Len(Kept(q, limit)) = Len(q) - d
              /\ \A i \in 1 .. Len(q) - d : Kept(q, limit)[i] = q[i + d]
              /\ Len(q) <= limit => d = 0
<1> DEFINE n == Len(q)
           d == IF n > limit THEN n - limit ELSE 0
<1>1. n \in Nat
  BY LenProperties
<1>2. d \in 0 .. n /\ d \in Nat /\ n <= Len(q) /\ d <= n /\ (n <= limit => d = 0)
  BY <1>1
<1>3. Kept(q, limit) = SubSeq(q, d + 1, n)
  <2>1. (IF n > limit THEN n - limit + 1 ELSE 1) = d + 1
    BY <1>1
  <2> QED
    BY <2>1 DEF Kept
<1> HIDE DEF d
<1>4. Kept(q, limit) \in Seq(M) /\ Len(Kept(q, limit)) = n - d /\ \A i \in 1 .. n - d : Kept(q, limit)[i] = q[i + d]
  BY <1>1, <1>2, <1>3, Cut
<1> QED
  BY <1>2, <1>4

(* Where a message waits.                                                      *)
LEMMA WaitingIs ==
    Waiting = Range(m_controlQueue) \cup Range(m_dataQueue) \cup Range(controlBacklog)
                  \cup Range(dataBacklog) \cup Range(batch)
BY DEF Waiting

(* What the types say of the numbers that wait and of those in the pipe.       *)
LEMMA TypesSay ==
    ASSUME WorkerTypeOK
    PROVE  /\ queued \in Nat /\ Accepted \subseteq Messages /\ Messages \subseteq Int
           /\ \A S : Range(S) = {S[i] : i \in DOMAIN S}
           /\ \A q \in {m_controlQueue, controlBacklog} : q \in Seq(Int) /\ Range(q) \subseteq control
           /\ \A q \in {m_dataQueue, dataBacklog, batch} : q \in Seq(Int) /\ Range(q) \subseteq Accepted \ control
           /\ Waiting \subseteq Accepted
           /\ Len(pipe) \in Nat /\ DOMAIN pipe = 1 .. Len(pipe)
           /\ \A i \in DOMAIN pipe : pipe[i] \in Accepted \cup Signals /\ pipe[i] \in Int
<1>1. queued \in Nat /\ Accepted \subseteq Messages /\ Messages \subseteq Int /\ control \subseteq Int
  BY WorkerAssumption DEF WorkerTypeOK, Accepted, Messages
<1>2. \A M : \A q \in Seq(M) : Range(q) \subseteq M
  BY LenProperties, ElementOfSeq DEF Range
<1>3. ASSUME NEW q \in {m_controlQueue, controlBacklog} PROVE q \in Seq(Int) /\ Range(q) \subseteq control
  <2>1. q \in Seq(control)
    BY DEF WorkerTypeOK
  <2> QED
    BY Zenon, <1>1, <1>2, <2>1, SeqGrows
<1>4. ASSUME NEW q \in {m_dataQueue, dataBacklog, batch} PROVE q \in Seq(Int) /\ Range(q) \subseteq Accepted \ control
  <2>1. q \in Seq(Accepted \ control) /\ Accepted \ control \subseteq Int
    BY <1>1 DEF WorkerTypeOK
  <2> QED
    BY <1>2, <2>1, SeqGrows
<1>5. Waiting \subseteq Accepted
  BY <1>3, <1>4, WaitingIs DEF WorkerTypeOK
<1>6. /\ Len(pipe) \in Nat /\ DOMAIN pipe = 1 .. Len(pipe)
      /\ \A i \in DOMAIN pipe : pipe[i] \in Accepted \cup Signals
  BY LenProperties, ElementOfSeq DEF WorkerTypeOK
<1>7. Signals \subseteq Int
  BY DEF Signals, CONNECT, HEARTBEAT
<1>8. \A S : Range(S) = {S[i] : i \in DOMAIN S}
  BY DEF Range
<1> QED
  BY Zenon, <1>1, <1>3, <1>4, <1>5, <1>6, <1>7, <1>8

(* Sending messages that wait, in their order, from a queue that nothing is    *)
(* ahead of.                                                                   *)
LEMMA SendingKeepsOrder ==
    ASSUME WorkerTypeOK, ControlGoesFirst, NEW q \in Seq(Accepted), Range(q) \subseteq Waiting, Increasing(q),
           SendBatch(q), link' = link, control' = control, Waiting' \subseteq Waiting,
           \A i \in 1 .. Len(Fitting(q)), e \in Waiting' : e < q[i] => MayOvertake(q[i], e)
    PROVE  /\ ControlGoesFirst'
           /\ pipe' \in Seq(Accepted \cup Signals) /\ Len(pipe') <= PipeLimit
           /\ Len(pipe') = Len(pipe) + Len(Fitting(q))
           /\ \A i \in 1 .. Len(pipe) : pipe'[i] = pipe[i]
           /\ \A i \in 1 .. Len(Fitting(q)) : pipe'[i + Len(pipe)] = q[i]
<1> DEFINE f == Len(Fitting(q))
           n == Len(pipe)
<1>1. /\ f \in 0 .. Len(q) /\ n + f <= PipeLimit
      /\ Fitting(q) \in Seq(Accepted) /\ \A i \in 1 .. f : Fitting(q)[i] = q[i]
  BY Sent
<1>2. /\ n \in Nat /\ DOMAIN pipe = 1 .. n /\ Len(q) \in Nat /\ DOMAIN q = 1 .. Len(q) /\ Accepted \subseteq Messages
      /\ \A i \in 1 .. Len(q) : q[i] \in Accepted /\ q[i] \in Waiting /\ q[i] \in Int
  <2>1. DOMAIN q = 1 .. Len(q) /\ Len(q) \in Nat /\ \A i \in 1 .. Len(q) : q[i] \in Accepted
    BY LenProperties, ElementOfSeq
  <2> QED
    BY <2>1, TypesSay
<1>3. /\ pipe \in Seq(Accepted \cup Signals) /\ Fitting(q) \in Seq(Accepted \cup Signals)
  BY <1>1, SeqGrows DEF WorkerTypeOK
<1>4. /\ pipe' \in Seq(Accepted \cup Signals) /\ Len(pipe') = n + f
      /\ \A i \in 1 .. n : pipe'[i] = pipe[i]
      /\ \A i \in 1 .. f : pipe'[i + n] = Fitting(q)[i]
      /\ \A i \in 1 .. n + f : i \in 1 .. n \/ (i - n \in 1 .. f /\ pipe'[i] = Fitting(q)[i - n])
  <2>1. pipe' = pipe \o Fitting(q)
    BY DEF SendBatch
  <2> QED
    BY <1>3, <2>1, Joined
<1>5. DOMAIN pipe' = 1 .. n + f
  BY <1>4, LenProperties
<1> HIDE DEF f, n
<1>6. \A i \in 1 .. n + f : i \in 1 .. n \/ (i - n \in 1 .. f /\ i - n \in 1 .. Len(q) /\ pipe'[i] = q[i - n])
  BY <1>1, <1>2, <1>4
<1>7. ASSUME NEW i \in 1 .. n + f, NEW e \in Messages, e < pipe'[i],
             e \in Waiting' \/ \E j \in i + 1 .. n + f : pipe'[j] = e
      PROVE  MayOvertake(pipe'[i], e)
  <2>1. CASE i \in 1 .. n
    <3>1. e \in Waiting \/ \E j \in i + 1 .. n : pipe[j] = e
      <4>1. CASE e \in Waiting'
        BY <4>1
      <4>2. ASSUME NEW j \in i + 1 .. n + f, pipe'[j] = e PROVE e \in Waiting \/ \E k \in i + 1 .. n : pipe[k] = e
        <5>1. j \in 1 .. n + f
          BY <1>1, <1>2
        <5>2. CASE j \in 1 .. n
          BY <1>4, <4>2, <5>2
        <5>3. CASE j \notin 1 .. n
          BY <1>2, <1>6, <4>2, <5>1, <5>3
        <5> QED
          BY <5>2, <5>3
      <4> QED
        BY <1>7, <4>1, <4>2
    <3>2. e < pipe[i]
      BY <1>4, <1>7, <2>1
    <3>3. MayOvertake(pipe[i], e)
      BY <1>2, <2>1, <3>1, <3>2 DEF ControlGoesFirst, n
    <3> QED
      BY <1>4, <2>1, <3>3
  <2>2. CASE i \notin 1 .. n
    <3>1. i - n \in 1 .. f /\ i - n \in 1 .. Len(q) /\ pipe'[i] = q[i - n]
      BY <1>6, <2>2
    <3>2. ~ \E j \in i + 1 .. n + f : pipe'[j] = e
      <4> SUFFICES ASSUME NEW j \in i + 1 .. n + f, pipe'[j] = e PROVE FALSE
        OBVIOUS
      <4>1. j \in 1 .. n + f /\ j \notin 1 .. n /\ i - n < j - n
        BY <1>1, <1>2, <3>1
      <4>2. j - n \in 1 .. Len(q) /\ pipe'[j] = q[j - n]
        BY <1>6, <4>1
      <4>3. q[i - n] < q[j - n]
        BY <1>2, <3>1, <4>1, <4>2 DEF Increasing
      <4> QED
        BY <1>2, <1>7, <3>1, <4>2, <4>3
    <3> QED
      BY <1>7, <3>1, <3>2 DEF f
  <2> QED
    BY <2>1, <2>2
<1>8. ControlGoesFirst'
  <2> SUFFICES ASSUME NEW i \in DOMAIN pipe',
                      NEW e \in (Waiting' \cup {pipe'[j] : j \in i + 1 .. Len(pipe')}) \cap Messages,
                      e < pipe'[i]
               PROVE  MayOvertake(pipe'[i], e)
    BY DEF ControlGoesFirst, MayOvertake
  <2> QED
    BY <1>4, <1>5, <1>7
<1> QED
  BY <1>1, <1>4, <1>8 DEF f, n

(* Losing what is in front of the pipe, or nothing.                            *)
LEMMA DroppingKeepsOrder ==
    ASSUME WorkerTypeOK, ControlGoesFirst, NEW d \in 0 .. Len(pipe), Len(pipe') = Len(pipe) - d,
           pipe' \in Seq(Accepted \cup Signals), \A i \in 1 .. Len(pipe) - d : pipe'[i] = pipe[i + d],
           link' = link, control' = control, Waiting' \subseteq Waiting
    PROVE  ControlGoesFirst'
<1> DEFINE n == Len(pipe)
<1>1. n \in Nat /\ DOMAIN pipe = 1 .. n /\ DOMAIN pipe' = 1 .. n - d
  BY TypesSay, LenProperties
<1> SUFFICES ASSUME NEW i \in 1 .. n - d, NEW e \in Messages, e < pipe'[i],
                    e \in Waiting' \/ \E j \in i + 1 .. n - d : pipe'[j] = e
             PROVE  MayOvertake(pipe'[i], e)
  BY <1>1 DEF ControlGoesFirst, MayOvertake
<1> HIDE DEF n
<1>2. i + d \in 1 .. n /\ pipe'[i] = pipe[i + d]
  BY <1>1 DEF n
<1>3. e \in Waiting \/ \E j \in (i + d) + 1 .. n : pipe[j] = e
  <2>1. ASSUME NEW j \in i + 1 .. n - d, pipe'[j] = e PROVE \E k \in (i + d) + 1 .. n : pipe[k] = e
    <3>1. j + d \in (i + d) + 1 .. n /\ j \in 1 .. n - d /\ n - d = Len(pipe) - d
      BY <1>1 DEF n
    <3>2. pipe[j + d] = e
      BY <2>1, <3>1
    <3> QED
      BY <3>1, <3>2
  <2> QED
    BY <2>1
<1> QED
  BY <1>1, <1>2, <1>3 DEF ControlGoesFirst, n

(* Appending to a queue of the right kind the number that follows all others.  *)
LEMMA AppendedLast ==
    ASSUME NEW q \in Seq(Int), NEW x \in Int, Increasing(q), \A i \in DOMAIN q : q[i] < x
    PROVE  /\ Append(q, x) \in Seq(Int) /\ Increasing(Append(q, x)) /\ Range(Append(q, x)) = Range(q) \cup {x}
           /\ \A r \in Seq(Int) : Below(r, q) /\ (\A i \in DOMAIN r : r[i] < x) => Below(r, Append(q, x))
<1> DEFINE n == Len(q)
           r == Append(q, x)
<1>1. /\ n \in Nat /\ DOMAIN q = 1 .. n /\ r \in Seq(Int) /\ DOMAIN r = 1 .. (n + 1)
      /\ \A i \in 1 .. n : r[i] = q[i]
      /\ r[n + 1] = x
  BY LenProperties
<1> HIDE DEF n, r
<1>2. \A i \in 1 .. (n + 1) : i \in 1 .. n \/ i = n + 1
  BY <1>1
<1>3. n + 1 \in 1 .. (n + 1) /\ \A i \in 1 .. n : i \in 1 .. (n + 1)
  BY <1>1
<1>4. Range(r) = Range(q) \cup {x}
  BY <1>1, <1>2, <1>3 DEF Range
<1>5. Increasing(r)
  BY <1>1, <1>2 DEF Increasing
<1>6. ASSUME NEW s \in Seq(Int), Below(s, q), \A i \in DOMAIN s : s[i] < x PROVE Below(s, r)
  BY <1>1, <1>2, <1>6 DEF Below
<1> QED
  BY <1>1, <1>4, <1>5, <1>6 DEF r

(* Nothing is queued in the beginning.                                         *)
LEMMA OrderStarts == Init => OrderInv
<1> SUFFICES ASSUME Init PROVE OrderInv
  OBVIOUS
<1>1. DOMAIN <<>> = {} /\ \A M : <<>> \in Seq(M)
  OBVIOUS
<1>2. pipe = <<CONNECT>> /\ pipe \in Seq(Accepted \cup Signals) /\ Len(pipe) = 1 /\ DOMAIN pipe = 1 .. 1 /\ pipe[1] = -1
  BY DEF Init, Signals, CONNECT
<1>3. WorkerTypeOK
  <2>1. queued \in 0 .. MaxMessages /\ Len(pipe) <= PipeLimit
    BY <1>2, WorkerAssumption DEF Init
  <2> QED
    BY <1>1, <1>2, <2>1 DEF Init, WorkerTypeOK
<1>4. ControlChain /\ DataChain
  BY <1>1 DEF Init, ControlChain, DataChain, Increasing, Below
<1>5. ControlGoesFirst
  BY <1>2 DEF ControlGoesFirst, Messages
<1> QED
  BY <1>3, <1>4, <1>5 DEF OrderInv, Init

(* A producer's message is the newest of all.                                  *)
LEMMA ProducersKeepOrder == OrderInv /\ (writeControlMessage \/ writeMessage) => OrderInv'
<1> SUFFICES ASSUME OrderInv, writeControlMessage \/ writeMessage PROVE OrderInv'
  OBVIOUS
<1> DEFINE x == queued + 1
<1>1. WorkerTypeOK
  BY DEF OrderInv
<1>2. /\ queued' = x /\ x \in 0 .. MaxMessages /\ x \in Int /\ x \in Messages /\ x \notin Accepted
      /\ Accepted' = Accepted \cup {x} /\ \A y \in Accepted : y \in Int /\ y < x
  BY <1>1, WorkerAssumption DEF writeControlMessage, writeMessage, WorkerTypeOK, Accepted, Messages
<1>3. /\ UNCHANGED <<link, controlBacklog, dataBacklog, batch, pipe, back, pc>>
      /\ x \notin control
  BY <1>1, <1>2 DEF writeControlMessage, writeMessage, loopVars, wireVars, WorkerTypeOK
<1>4. /\ \A q \in {m_controlQueue, controlBacklog, m_dataQueue, dataBacklog, batch} :
            q \in Seq(Int) /\ \A i \in DOMAIN q : q[i] < x
      /\ Waiting \subseteq Accepted
      /\ \A i \in DOMAIN pipe : pipe[i] \in Accepted \cup Signals /\ pipe[i] \in Int /\ ~ (x < pipe[i])
  <2>1. \A S : Range(S) = {S[i] : i \in DOMAIN S}
    BY <1>1, TypesSay
  <2>2. ASSUME NEW q \in {m_controlQueue, controlBacklog, m_dataQueue, dataBacklog, batch}
        PROVE  q \in Seq(Int) /\ Range(q) \subseteq Accepted
    BY <1>1, TypesSay DEF WorkerTypeOK
  <2>3. ASSUME NEW i \in DOMAIN pipe PROVE pipe[i] \in Accepted \cup Signals /\ pipe[i] \in Int /\ ~ (x < pipe[i])
    <3>1. pipe[i] \in Accepted \cup Signals
      BY <1>1, TypesSay
    <3>2. CASE pipe[i] \in Accepted
      BY <1>2, <3>2
    <3>3. CASE pipe[i] \in Signals
      <4>1. x > 0
        BY <1>1, TypesSay
      <4> QED
        BY <1>2, <3>3, <4>1 DEF Signals, CONNECT, HEARTBEAT
    <3> QED
      BY <3>1, <3>2, <3>3
  <2> QED
    BY <1>1, <1>2, <2>1, <2>2, <2>3, TypesSay
<1>5. ASSUME Waiting' = Waiting \cup {x}, control' \cap Accepted = control PROVE ControlGoesFirst'
  <2> SUFFICES ASSUME NEW i \in DOMAIN pipe,
                      NEW e \in (Waiting \cup {x} \cup {pipe[j] : j \in i + 1 .. Len(pipe)}) \cap Messages, e < pipe[i]
               PROVE  \/ pipe[i] \in control' /\ e \notin control'
                      \/ link /\ pipe[i] \notin control' /\ e \in control'
    BY <1>3, <1>5 DEF ControlGoesFirst, MayOvertake
  <2>1. e # x
    BY <1>4
  <2>2. MayOvertake(pipe[i], e)
    BY <2>1, <1>3 DEF OrderInv, ControlGoesFirst
  <2>3. e \in Accepted /\ pipe[i] \in Accepted
    <3>1. e \in Int /\ e > 0
      BY <1>1, TypesSay DEF Messages
    <3>2. e \in Accepted \cup Signals
      <4>1. \A j \in i + 1 .. Len(pipe) : j \in DOMAIN pipe
        BY <1>1, TypesSay
      <4> QED
        BY <1>4, <2>1, <4>1
    <3>3. \A y \in Signals : ~ (y > 0)
      BY DEF Signals, CONNECT, HEARTBEAT
    <3>4. pipe[i] \in Int /\ pipe[i] > 0
      BY <1>4, <3>1
    <3> QED
      BY <1>4, <3>1, <3>2, <3>3, <3>4, Zenon
  <2> QED
    BY <1>5, <2>2, <2>3 DEF MayOvertake
<1>6. pipe' \in Seq((Accepted \cup Signals)')  /\ Len(pipe') <= PipeLimit
  <2>1. Accepted \cup Signals \subseteq Accepted' \cup Signals
    BY <1>2
  <2> QED
    BY <1>1, <1>3, <2>1, SeqGrows DEF WorkerTypeOK, Signals
<1>7. CASE writeControlMessage
  <2>1. control' = control \cup {x} /\ m_controlQueue' = Append(m_controlQueue, x) /\ m_dataQueue' = m_dataQueue
    BY <1>2, <1>7 DEF writeControlMessage
  <2>2. /\ Increasing(m_controlQueue') /\ Range(m_controlQueue') = Range(m_controlQueue) \cup {x}
        /\ Below(controlBacklog, m_controlQueue')
    BY <1>2, <1>4, <2>1, AppendedLast DEF OrderInv, ControlChain
  <2>3. controlBacklog \in Seq(control') /\ m_controlQueue' \in Seq(control')
    <3>1. m_controlQueue \in Seq(control') /\ controlBacklog \in Seq(control')
      BY <1>1, <2>1, SeqGrows DEF WorkerTypeOK
    <3>2. x \in control' /\ \A M : \A q \in Seq(M), y \in M : Append(q, y) \in Seq(M)
      BY <2>1
    <3> QED
      BY <2>1, <3>1, <3>2, Zenon
  <2>4. Accepted' \ control' = Accepted \ control /\ control' \subseteq Accepted' /\ control' \cap Accepted = control
    BY <1>1, <1>2, <2>1 DEF WorkerTypeOK
  <2>5. WorkerTypeOK'
    BY <1>1, <1>2, <1>3, <1>6, <2>1, <2>3, <2>4 DEF WorkerTypeOK
  <2>6. Waiting' = Waiting \cup {x}
    BY <1>3, <2>1, <2>2, WaitingIs DEF Waiting
  <2>7. ControlChain' /\ DataChain'
    BY <1>3, <2>1, <2>2 DEF OrderInv, ControlChain, DataChain
  <2> QED
    BY <1>3, <1>5, <2>4, <2>5, <2>6, <2>7 DEF OrderInv
<1>8. CASE writeMessage
  <2>1. control' = control /\ m_dataQueue' = Append(m_dataQueue, x) /\ m_controlQueue' = m_controlQueue
    BY <1>2, <1>8 DEF writeMessage
  <2>2. /\ Increasing(m_dataQueue') /\ Range(m_dataQueue') = Range(m_dataQueue) \cup {x}
        /\ Below(dataBacklog, m_dataQueue') /\ Below(batch, m_dataQueue')
    BY <1>2, <1>4, <2>1, AppendedLast DEF OrderInv, DataChain
  <2>3. /\ dataBacklog \in Seq(Accepted' \ control') /\ batch \in Seq(Accepted' \ control')
        /\ m_dataQueue' \in Seq(Accepted' \ control')
    <3>1. Accepted \ control \subseteq Accepted' \ control'
      BY <1>2, <2>1
    <3>2. /\ m_dataQueue \in Seq(Accepted' \ control') /\ dataBacklog \in Seq(Accepted' \ control')
          /\ batch \in Seq(Accepted' \ control')
      BY <1>1, <3>1, SeqGrows DEF WorkerTypeOK
    <3>3. x \in Accepted' \ control' /\ \A M : \A q \in Seq(M), y \in M : Append(q, y) \in Seq(M)
      BY <1>2, <1>3, <2>1
    <3> QED
      BY <2>1, <3>2, <3>3, Zenon
  <2>4. control' \subseteq Accepted' /\ control' \cap Accepted = control
    BY <1>1, <1>2, <2>1 DEF WorkerTypeOK
  <2>5. WorkerTypeOK'
    BY <1>1, <1>2, <1>3, <1>6, <2>1, <2>3, <2>4 DEF WorkerTypeOK
  <2>6. Waiting' = Waiting \cup {x}
    BY <1>3, <2>1, <2>2, WaitingIs DEF Waiting
  <2>7. ControlChain' /\ DataChain'
    BY <1>3, <2>1, <2>2 DEF OrderInv, ControlChain, DataChain
  <2> QED
    BY <1>3, <1>5, <2>4, <2>5, <2>6, <2>7 DEF OrderInv
<1> QED
  BY <1>7, <1>8

(* Control that goes out, from the backlog and the queue or from the backlog   *)
(* alone, leaves in its order, and what is refused stays ahead.                *)
LEMMA ControlSends ==
    ASSUME OrderInv, NEW q \in Seq(control), Increasing(q), SendBatch(q),
           Range(q) \subseteq Range(controlBacklog) \cup Range(m_controlQueue),
           controlBacklog' = Refused(q), UNCHANGED <<link, control, queued, m_dataQueue, batch, dataBacklog, back>>,
           m_controlQueue' = <<>> \/ (m_controlQueue' = m_controlQueue /\ Below(q, m_controlQueue))
    PROVE  (pc' # "encoded" => OrderInv') /\ Range(q) \subseteq Range(pipe') \cup Range(controlBacklog')
<1> DEFINE f == Len(Fitting(q))
<1>1. WorkerTypeOK /\ ControlGoesFirst /\ q \in Seq(Accepted) /\ q \in Seq(Int)
  <2>1. WorkerTypeOK /\ ControlGoesFirst /\ control \subseteq Accepted /\ control \subseteq Int
    BY Zenon, TypesSay DEF OrderInv, WorkerTypeOK
  <2> QED
    BY Zenon, <2>1, SeqGrows
<1>2. /\ f \in 0 .. Len(q) /\ Len(q) \in Nat /\ DOMAIN q = 1 .. Len(q)
      /\ Refused(q) \in Seq(control) /\ Len(Refused(q)) = Len(q) - f
      /\ \A i \in 1 .. Len(q) - f : Refused(q)[i] = q[i + f]
  BY Zenon, <1>1, Sent, LenProperties
<1>3. /\ Refused(q) \in Seq(Int) /\ DOMAIN Refused(q) = 1 .. Len(q) - f
      /\ \A i \in 1 .. Len(Refused(q)) : Refused(q)[i] = q[i + f]
      /\ f \in Nat /\ Len(Refused(q)) + f <= Len(q)
  <2>1. control \subseteq Int
    BY <1>1, TypesSay DEF WorkerTypeOK
  <2> DEFINE r == Refused(q)
  <2>2. r \in Seq(control) /\ Len(r) = Len(q) - f /\ \A i \in 1 .. Len(q) - f : r[i] = q[i + f]
    BY <1>2
  <2> HIDE DEF r, f
  <2>3. r \in Seq(Int) /\ DOMAIN r = 1 .. Len(r)
    BY Zenon, <2>1, <2>2, SeqGrows, LenProperties
  <2>4. f \in Nat /\ Len(r) + f <= Len(q)
    BY <1>2, <2>2
  <2> QED
    BY <2>2, <2>3, <2>4 DEF r
<1>4. Increasing(Refused(q)) /\ (Below(q, m_controlQueue) => Below(Refused(q), m_controlQueue))
  <2> DEFINE r == Refused(q)
  <2>1. m_controlQueue \in Seq(Int)
    BY <1>1, TypesSay
  <2>2. r \in Seq(Int) /\ Len(r) + f <= Len(q) /\ f \in Nat /\ \A i \in 1 .. Len(r) : r[i] = q[i + f]
    BY <1>3
  <2> HIDE DEF r, f
  <2>4. PartOf(r, q)
    BY <2>2 DEF PartOf
  <2>3. Increasing(r) /\ (Below(q, m_controlQueue) => Below(r, m_controlQueue))
    <3>1. /\ Increasing(r)
          /\ \A s \in Seq(Int) : /\ Below(q, s) => Below(r, s)
                                 /\ Below(s, q) => Below(s, r)
      BY <1>1, <2>2, <2>4, IncreasingParts, Zenon
    <3> QED
      BY <2>1, <3>1, Zenon
  <2> QED
    BY <2>3 DEF r
<1>5. DOMAIN <<>> = {} /\ <<>> \in Seq(control) /\ Range(<<>>) = {}
  BY DEF Range
<1>6. Range(Refused(q)) \subseteq Range(q) /\ Range(m_controlQueue') \subseteq Range(m_controlQueue)
  <2>1. \A i \in 1 .. Len(q) - f : i + f \in 1 .. Len(q)
    BY <1>2
  <2> QED
    BY Zenon, <1>2, <1>3, <1>5, <2>1 DEF Range
<1>7. Waiting' \subseteq Waiting /\ Range(q) \subseteq Waiting
  <2>1. Waiting' = Range(m_controlQueue') \cup Range(m_dataQueue) \cup Range(Refused(q))
                       \cup Range(dataBacklog) \cup Range(batch)
    BY DEF Waiting
  <2> QED
    BY <1>6, <2>1, WaitingIs
<1>8. ASSUME NEW i \in 1 .. f, NEW e \in Waiting', e < q[i] PROVE MayOvertake(q[i], e)
  <2>1. i \in 1 .. Len(q) /\ q[i] \in control /\ q[i] \in Int
    BY <1>1, <1>2, ElementOfSeq
  <2>2. e \notin Range(Refused(q))
    <3> SUFFICES ASSUME NEW j \in 1 .. Len(q) - f, e = q[j + f] PROVE FALSE
      BY Zenon, <1>2, <1>3 DEF Range
    <3>1. j + f \in 1 .. Len(q) /\ i < j + f
      BY <1>2
    <3>2. q[j + f] \in Int
      BY <1>1, <3>1, ElementOfSeq
    <3>3. i \in DOMAIN q /\ j + f \in DOMAIN q
      BY Zenon, <1>2, <2>1, <3>1
    <3>4. q[i] < q[j + f]
      BY Zenon, <3>1, <3>3 DEF Increasing
    <3> HIDE DEF f
    <3> QED
      BY <1>8, <2>1, <3>2, <3>4
  <2>3. e \notin Range(m_controlQueue')
    <3>1. CASE m_controlQueue' = <<>>
      BY <1>5, <3>1
    <3>2. CASE m_controlQueue' = m_controlQueue /\ Below(q, m_controlQueue)
      <4> SUFFICES ASSUME NEW j \in DOMAIN m_controlQueue, e = m_controlQueue[j] PROVE FALSE
        BY <3>2 DEF Range
      <4>1. m_controlQueue[j] \in Int
        BY <1>1, TypesSay, LenProperties, ElementOfSeq
      <4> QED
        BY <1>2, <1>8, <2>1, <3>2, <4>1 DEF Below
    <3> QED
      BY <3>1, <3>2
  <2>4. e \in Range(m_dataQueue) \cup Range(dataBacklog) \cup Range(batch)
    BY <1>8, <2>2, <2>3 DEF Waiting
  <2>5. e \notin control
    BY <1>1, <2>4, TypesSay
  <2> QED
    BY <2>1, <2>5 DEF MayOvertake
<1>9. /\ ControlGoesFirst' /\ pipe' \in Seq(Accepted \cup Signals) /\ Len(pipe') <= PipeLimit
      /\ Len(pipe') = Len(pipe) + f
      /\ \A i \in 1 .. f : pipe'[i + Len(pipe)] = q[i]
  BY Zenon, <1>1, <1>7, <1>8, SendingKeepsOrder
<1>10. m_controlQueue' \in Seq(control)
  BY Zenon, <1>1, <1>5 DEF WorkerTypeOK
<1>11. WorkerTypeOK'
  <2>1. Accepted' = Accepted
    BY DEF Accepted
  <2> QED
    BY <1>1, <1>2, <1>9, <1>10, <2>1 DEF WorkerTypeOK, Signals
<1>12. ControlChain' /\ DataChain'
  <2>1. Increasing(m_controlQueue') /\ Below(controlBacklog', m_controlQueue')
    <3>1. CASE m_controlQueue' = <<>>
      BY <1>5, <3>1 DEF Increasing, Below
    <3>2. CASE m_controlQueue' = m_controlQueue /\ Below(q, m_controlQueue)
      BY <1>4, <3>2 DEF OrderInv, ControlChain
    <3> QED
      BY <3>1, <3>2
  <2> QED
    BY <1>4, <2>1 DEF OrderInv, ControlChain, DataChain
<1>13. Range(q) \subseteq Range(pipe') \cup Range(controlBacklog')
  <2> SUFFICES ASSUME NEW i \in 1 .. Len(q) PROVE q[i] \in Range(pipe') \cup Range(Refused(q))
    BY <1>2 DEF Range
  <2>1. CASE i \in 1 .. f
    <3>1. DOMAIN pipe' = 1 .. Len(pipe) + f /\ Len(pipe) \in Nat
      BY <1>1, <1>9, LenProperties, TypesSay
    <3>2. i + Len(pipe) \in 1 .. Len(pipe) + f
      BY <1>2, <2>1, <3>1
    <3> QED
      BY Zenon, <1>9, <2>1, <3>1, <3>2 DEF Range
  <2>2. CASE i \notin 1 .. f
    <3>1. i - f \in 1 .. Len(q) - f /\ (i - f) + f = i
      BY <1>2, <2>2
    <3>2. Refused(q)[i - f] = q[i]
      BY <1>2, <3>1
    <3> QED
      BY Zenon, <1>3, <3>1, <3>2 DEF Range
  <2> QED
    BY <2>1, <2>2
<1> QED
  BY <1>9, <1>11, <1>12, <1>13 DEF OrderInv

(* Data that goes out, from a queue that none is ahead of, when no control     *)
(* waits or on a link.                                                         *)
LEMMA DataSends ==
    ASSUME OrderInv, NEW q \in {batch, dataBacklog, m_dataQueue}, SendBatch(q), link \/ ControlIsOut,
           UNCHANGED <<link, control, queued, m_controlQueue, controlBacklog, back>>,
           \/ q = dataBacklog /\ dataBacklog' = <<>> /\ UNCHANGED <<batch, m_dataQueue>>
           \/ q = batch /\ dataBacklog = <<>> /\ batch' = <<>> /\ UNCHANGED <<dataBacklog, m_dataQueue>>
           \/ q = m_dataQueue /\ link /\ m_dataQueue' = <<>> /\ UNCHANGED <<dataBacklog, batch>>,
           pc' = "encoded" => link
    PROVE  OrderInv'
<1>1. WorkerTypeOK /\ ControlGoesFirst /\ DataChain /\ (link => dataBacklog = <<>> /\ batch = <<>>)
  BY DEF OrderInv
<1>2. DOMAIN <<>> = {} /\ <<>> \in Seq(Accepted \ control) /\ Range(<<>>) = {}
  BY DEF Range
<1>3. q \in Seq(Accepted \ control) /\ q \in Seq(Accepted) /\ Increasing(q) /\ Range(q) \subseteq Waiting
      /\ q \in Seq(Int) /\ DOMAIN q = 1 .. Len(q) /\ Len(q) \in Nat
  <2>1. q \in Seq(Accepted \ control) /\ Accepted \ control \subseteq Accepted
    BY <1>1 DEF WorkerTypeOK
  <2> QED
    BY Zenon, <1>1, <2>1, SeqGrows, WaitingIs, TypesSay, LenProperties DEF DataChain
<1>4. /\ Waiting' \subseteq Waiting
      /\ \A e \in Waiting' : e < 0 \/ e \in control \/ \E r \in {batch, m_dataQueue} : e \in Range(r) /\ Below(q, r)
  <2>1. Waiting' = Range(m_controlQueue) \cup Range(m_dataQueue') \cup Range(controlBacklog)
                       \cup Range(dataBacklog') \cup Range(batch')
    BY DEF Waiting
  <2>2. Range(m_controlQueue) \subseteq control /\ Range(controlBacklog) \subseteq control
    BY Zenon, <1>1, TypesSay
  <2>3. CASE q = dataBacklog /\ dataBacklog' = <<>> /\ UNCHANGED <<batch, m_dataQueue>>
    BY <1>1, <1>2, <2>1, <2>2, <2>3, WaitingIs DEF DataChain
  <2>4. CASE q = batch /\ dataBacklog = <<>> /\ batch' = <<>> /\ UNCHANGED <<dataBacklog, m_dataQueue>>
    BY <1>1, <1>2, <2>1, <2>2, <2>4, WaitingIs DEF DataChain
  <2>5. CASE q = m_dataQueue /\ link /\ m_dataQueue' = <<>> /\ UNCHANGED <<dataBacklog, batch>>
    BY Zenon, <1>1, <1>2, <2>1, <2>2, <2>5, WaitingIs DEF DataChain
  <2> QED
    BY <2>3, <2>4, <2>5
<1>5. ASSUME NEW i \in 1 .. Len(Fitting(q)), NEW e \in Waiting', e < q[i] PROVE MayOvertake(q[i], e)
  <2>1. i \in 1 .. Len(q) /\ q[i] \in Accepted \ control /\ q[i] \in Int
    <3>1. Len(Fitting(q)) \in 0 .. Len(q)
      BY Zenon, <1>1, <1>3, Sent
    <3> QED
      BY <1>3, <3>1, ElementOfSeq
  <2>2. e \in Int /\ ~ (e < 0)
    BY <1>1, <1>4, TypesSay DEF Messages
  <2>3. ASSUME NEW r \in {batch, m_dataQueue}, e \in Range(r), Below(q, r) PROVE FALSE
    <3>1. PICK j \in DOMAIN r : e = r[j]
      BY <2>3 DEF Range
    <3> QED
      BY <1>3, <1>5, <2>1, <2>2, <2>3, <3>1 DEF Below
  <2>4. e \in control
    BY <1>4, <2>2, <2>3
  <2>5. link
    <3>1. ControlIsOut => e \notin Range(m_controlQueue) \cup Range(controlBacklog)
      BY <1>2 DEF ControlIsOut
    <3>2. e \in Range(m_controlQueue) \cup Range(controlBacklog)
      BY <1>1, <1>4, <2>4, WaitingIs, TypesSay
    <3> QED
      BY <3>1, <3>2
  <2> QED
    BY <2>1, <2>4, <2>5 DEF MayOvertake
<1>6. ControlGoesFirst' /\ pipe' \in Seq(Accepted \cup Signals) /\ Len(pipe') <= PipeLimit
  BY <1>1, <1>3, <1>4, <1>5, SendingKeepsOrder
<1>7. WorkerTypeOK'
  <2>1. Accepted' = Accepted
    BY DEF Accepted
  <2> QED
    BY Zenon, <1>1, <1>2, <1>6, <2>1 DEF WorkerTypeOK, Signals
<1>8. ControlChain' /\ DataChain' /\ (link' => dataBacklog' = <<>> /\ batch' = <<>>)
  BY <1>1, <1>2 DEF OrderInv, ControlChain, DataChain, Increasing, Below
<1> QED
  BY <1>6, <1>7, <1>8 DEF OrderInv

(* Steps that move no message.                                                 *)
LEMMA OrderStays ==
    ASSUME OrderInv, back' \in Seq({"HEARTBEAT_ACK", "RESET"}), pc' = "encoded" => link,
           UNCHANGED <<link, control, queued, m_controlQueue, m_dataQueue, controlBacklog, dataBacklog, batch, pipe>>
    PROVE  OrderInv'
<1>1. WorkerTypeOK'
  BY DEF OrderInv, WorkerTypeOK, Accepted, Signals
<1>2. Waiting' = Waiting
  BY DEF Waiting
<1>3. ControlGoesFirst'
  BY <1>2 DEF OrderInv, ControlGoesFirst, MayOvertake
<1> QED
  BY <1>1, <1>3 DEF OrderInv, ControlChain, DataChain

(* A pipe that loses its front, or becomes that of a new socket.               *)
LEMMA PipeLoses ==
    ASSUME OrderInv, back' \in Seq({"HEARTBEAT_ACK", "RESET"}), pc' = "encoded" => link,
           UNCHANGED <<link, control, queued, m_controlQueue, m_dataQueue, controlBacklog, dataBacklog, batch>>,
           pipe' = <<CONNECT>> \/ \E n \in 0 .. Len(pipe) : pipe' = SubSeq(pipe, n + 1, Len(pipe))
    PROVE  OrderInv'
<1>1. WorkerTypeOK /\ ControlGoesFirst /\ Waiting' = Waiting /\ Accepted' = Accepted
  BY DEF OrderInv, Waiting, Accepted
<1>2. pipe' \in Seq(Accepted \cup Signals) /\ Len(pipe') <= PipeLimit /\ ControlGoesFirst'
  <2>1. CASE pipe' = <<CONNECT>>
    <3>1. pipe' \in Seq(Accepted \cup Signals) /\ Len(pipe') = 1 /\ DOMAIN pipe' = 1 .. 1 /\ pipe'[1] = -1
      BY <2>1 DEF Signals, CONNECT
    <3>2. ControlGoesFirst'
      BY <3>1 DEF ControlGoesFirst, Messages
    <3> QED
      BY <3>1, <3>2, WorkerAssumption
  <2>2. ASSUME NEW n \in 0 .. Len(pipe), pipe' = SubSeq(pipe, n + 1, Len(pipe))
        PROVE  pipe' \in Seq(Accepted \cup Signals) /\ Len(pipe') <= PipeLimit /\ ControlGoesFirst'
    <3>1. Len(pipe) \in Nat /\ n \in Nat /\ n <= Len(pipe) /\ Len(pipe) <= Len(pipe)
      BY <1>1, TypesSay
    <3>2. pipe \in Seq(Accepted \cup Signals) /\ Len(pipe) <= PipeLimit
      BY <1>1 DEF WorkerTypeOK
    <3>3. /\ pipe' \in Seq(Accepted \cup Signals) /\ Len(pipe') = Len(pipe) - n
          /\ \A i \in 1 .. Len(pipe) - n : pipe'[i] = pipe[i + n]
      BY <2>2, <3>1, <3>2, Cut
    <3>4. ControlGoesFirst'
      BY <1>1, <3>3, DroppingKeepsOrder
    <3> QED
      BY <3>1, <3>2, <3>3, <3>4, WorkerAssumption
  <2> QED
    BY <2>1, <2>2
<1>3. WorkerTypeOK'
  BY <1>1, <1>2 DEF WorkerTypeOK, Signals
<1> QED
  BY <1>2, <1>3 DEF OrderInv, ControlChain, DataChain

(* A heartbeat behind.                                                         *)
LEMMA BeatKeepsOrder ==
    ASSUME OrderInv, sendHeartbeat, pc' = "encoded" => link,
           UNCHANGED <<link, control, queued, m_controlQueue, m_dataQueue, controlBacklog, dataBacklog, batch, back>>
    PROVE  OrderInv'
<1>1. WorkerTypeOK /\ ControlGoesFirst /\ Waiting' = Waiting /\ Accepted' = Accepted
  BY DEF OrderInv, Waiting, Accepted
<1>2. CASE pipe' = pipe
  BY <1>1, <1>2, OrderStays DEF WorkerTypeOK
<1>3. CASE pipe' # pipe
  <2> DEFINE n == Len(pipe)
  <2>1. Len(pipe) < PipeLimit /\ pipe' = Append(pipe, HEARTBEAT)
    BY <1>3 DEF sendHeartbeat
  <2>2. /\ n \in Nat /\ DOMAIN pipe = 1 .. n /\ pipe' \in Seq(Accepted \cup Signals) /\ DOMAIN pipe' = 1 .. (n + 1)
        /\ Len(pipe') = n + 1
        /\ \A i \in 1 .. n : pipe'[i] = pipe[i]
        /\ pipe'[n + 1] = 0
    <3>1. HEARTBEAT \in Accepted \cup Signals /\ HEARTBEAT = 0 /\ pipe \in Seq(Accepted \cup Signals)
      BY <1>1 DEF Signals, HEARTBEAT, WorkerTypeOK
    <3> HIDE DEF HEARTBEAT
    <3> QED
      BY <2>1, <3>1, LenProperties
  <2> HIDE DEF n
  <2>3. ControlGoesFirst'
    <3> SUFFICES ASSUME NEW i \in 1 .. (n + 1), NEW e \in Messages, e < pipe'[i],
                        e \in Waiting \/ \E j \in i + 1 .. n + 1 : pipe'[j] = e
                 PROVE  MayOvertake(pipe'[i], e)
      BY <1>1, <2>2 DEF ControlGoesFirst, MayOvertake
    <3>1. e \in Int /\ e > 0
      BY DEF Messages
    <3>2. i # n + 1 /\ i \in 1 .. n
      BY <2>2, <3>1
    <3>3. e \in Waiting \/ \E j \in i + 1 .. n : pipe[j] = e
      <4>1. ASSUME NEW j \in i + 1 .. n + 1, pipe'[j] = e PROVE \E k \in i + 1 .. n : pipe[k] = e
        <5>1. j # n + 1
          BY <2>2, <3>1, <4>1
        <5>2. j \in i + 1 .. n /\ j \in 1 .. n
          BY <2>2, <5>1
        <5> QED
          BY <2>2, <4>1, <5>2
      <4> QED
        BY <4>1
    <3> QED
      BY <1>1, <2>2, <3>2, <3>3 DEF ControlGoesFirst, n
  <2>4. WorkerTypeOK'
    <3>1. Len(pipe') <= PipeLimit
      BY <2>1, <2>2, WorkerAssumption DEF n
    <3> QED
      BY <1>1, <2>2, <3>1 DEF WorkerTypeOK, Signals
  <2> QED
    BY <2>3, <2>4 DEF OrderInv, ControlChain, DataChain
<1> QED
  BY <1>2, <1>3

(* Control that waits does so in the backlog or the queue of control, and is   *)
(* kept by every step that leaves it in one of them or puts it in the pipe.    *)
LEMMA ControlStays ==
    ASSUME WorkerTypeOK, WorkerTypeOK', UNCHANGED <<control, queued>>,
           Range(controlBacklog) \cup Range(m_controlQueue)
               \subseteq Range(controlBacklog') \cup Range(m_controlQueue') \cup Range(pipe')
    PROVE  KeepsControl
<1> SUFFICES ASSUME NEW m \in control \cap Waiting PROVE m \in Outstanding'
  BY DEF KeepsControl
<1>1. m \in Messages /\ m \in Range(controlBacklog) \cup Range(m_controlQueue)
  BY Zenon, TypesSay, WaitingIs DEF WorkerTypeOK
<1>2. m \in Waiting' \cup Range(pipe')
  BY <1>1 DEF Waiting
<1> QED
  BY <1>1, <1>2 DEF Outstanding, Messages

(* The chain of control, as one sequence.                                      *)
LEMMA ControlWaiting ==
    ASSUME OrderInv
    PROVE  LET waiting == controlBacklog \o m_controlQueue
           IN  /\ waiting \in Seq(control) /\ waiting \in Seq(Int) /\ Increasing(waiting)
               /\ Len(waiting) = Len(controlBacklog) + Len(m_controlQueue)
               /\ Range(waiting) = Range(controlBacklog) \cup Range(m_controlQueue)
<1>1. /\ controlBacklog \in Seq(control) /\ m_controlQueue \in Seq(control)
      /\ controlBacklog \in Seq(Int) /\ m_controlQueue \in Seq(Int)
      /\ Increasing(controlBacklog) /\ Increasing(m_controlQueue) /\ Below(controlBacklog, m_controlQueue)
  BY TypesSay DEF OrderInv, WorkerTypeOK, ControlChain
<1>2. ASSUME NEW q \in Seq(control), NEW r \in Seq(control) PROVE Range(q \o r) = Range(q) \cup Range(r)
  <2> DEFINE s == q \o r
             m == Len(q)
             n == Len(r)
  <2>1. /\ s \in Seq(control) /\ Len(s) = m + n
        /\ \A i \in 1 .. m : s[i] = q[i]
        /\ \A i \in 1 .. n : s[i + m] = r[i]
        /\ \A i \in 1 .. m + n : i \in 1 .. m \/ (i - m \in 1 .. n /\ s[i] = r[i - m])
    BY Joined
  <2>2. m \in Nat /\ n \in Nat /\ DOMAIN q = 1 .. m /\ DOMAIN r = 1 .. n
    BY LenProperties
  <2> HIDE DEF s, m, n
  <2>3. DOMAIN s = 1 .. m + n
    BY <2>1, LenProperties
  <2>4. /\ \A i \in 1 .. m : i \in 1 .. m + n
        /\ \A i \in 1 .. n : i + m \in 1 .. m + n
    BY <2>2
  <2>5. Range(s) \subseteq Range(q) \cup Range(r)
    BY Zenon, <2>1, <2>2, <2>3 DEF Range
  <2>6. Range(q) \subseteq Range(s)
    BY Zenon, <2>1, <2>2, <2>3, <2>4 DEF Range
  <2>7. Range(r) \subseteq Range(s)
    <3> SUFFICES ASSUME NEW i \in 1 .. n PROVE r[i] \in Range(s)
      BY <2>2 DEF Range
    <3>1. i + m \in DOMAIN s /\ s[i + m] = r[i]
      BY <2>1, <2>3, <2>4
    <3> QED
      BY <3>1, Zenon DEF Range
  <2> QED
    BY <2>5, <2>6, <2>7 DEF s
<1> QED
  BY Zenon, <1>1, <1>2, Joined, IncreasingJoined

(* What is kept of it.                                                         *)
LEMMA ControlKept ==
    ASSUME OrderInv, NEW limit \in Nat
    PROVE  LET waiting == controlBacklog \o m_controlQueue
               kept == Kept(waiting, limit)
           IN  /\ kept \in Seq(control) /\ Increasing(kept)
               /\ Range(kept) \subseteq Range(controlBacklog) \cup Range(m_controlQueue)
               /\ Len(controlBacklog) + Len(m_controlQueue) <= limit =>
                     Range(controlBacklog) \cup Range(m_controlQueue) \subseteq Range(kept)
<1> DEFINE waiting == controlBacklog \o m_controlQueue
           kept == Kept(waiting, limit)
<1>1. /\ waiting \in Seq(control) /\ waiting \in Seq(Int) /\ Increasing(waiting)
      /\ Len(waiting) = Len(controlBacklog) + Len(m_controlQueue)
      /\ Range(waiting) = Range(controlBacklog) \cup Range(m_controlQueue)
  BY ControlWaiting
<1> HIDE DEF waiting
<1>2. PICK d \in 0 .. Len(waiting) :
         /\ kept \in Seq(control) /\ Len(kept) = Len(waiting) - d
         /\ \A i \in 1 .. Len(waiting) - d : kept[i] = waiting[i + d]
         /\ Len(waiting) <= limit => d = 0
  BY Zenon, <1>1, KeptIs
<1>3. Len(waiting) \in Nat /\ DOMAIN waiting = 1 .. Len(waiting) /\ DOMAIN kept = 1 .. Len(kept) /\ kept \in Seq(Int)
  <2>1. control \subseteq Int
    BY TypesSay DEF OrderInv, WorkerTypeOK
  <2> QED
    BY Zenon, <1>1, <1>2, <2>1, LenProperties, SeqGrows
<1> HIDE DEF kept
<1>4. PartOf(kept, waiting)
  <2>1. d \in Nat /\ Len(kept) + d <= Len(waiting) /\ \A i \in 1 .. Len(kept) : kept[i] = waiting[i + d]
    BY <1>2, <1>3
  <2> QED
    BY <2>1, Zenon DEF PartOf
<1>5. Increasing(kept)
  BY <1>1, <1>3, <1>4, IncreasingParts, Zenon
<1>6. Range(kept) \subseteq Range(waiting)
  <2>1. \A i \in 1 .. Len(kept) : i + d \in 1 .. Len(waiting)
    BY <1>2, <1>3
  <2> QED
    BY Zenon, <1>2, <1>3, <2>1 DEF Range
<1>7. d = 0 => Range(waiting) \subseteq Range(kept)
  BY <1>2, <1>3 DEF Range
<1>8. Len(waiting) <= limit => Range(waiting) \subseteq Range(kept)
  BY <1>2, <1>7
<1> QED
  BY <1>1, <1>2, <1>5, <1>6, <1>8 DEF waiting, kept

(* No step reorders what may not be, and none loses control it should keep.    *)
LEMMA OrderKeeps == OrderInv /\ [Next]_vars => OrderInv' /\ KeepsControl
<1> SUFFICES ASSUME OrderInv, [Next]_vars PROVE OrderInv' /\ KeepsControl
  OBVIOUS
<1>1. WorkerTypeOK /\ ControlChain /\ DataChain /\ ControlGoesFirst
  BY DEF OrderInv
<1>2. \A M : <<>> \in Seq(M)
  OBVIOUS
<1>3. ASSUME OrderInv', UNCHANGED <<control, queued, controlBacklog, m_controlQueue>> PROVE KeepsControl
  BY <1>1, <1>3, ControlStays DEF OrderInv
<1>4. CASE UNCHANGED vars
  <2>1. UNCHANGED <<link, control, queued, m_controlQueue, m_dataQueue, controlBacklog, dataBacklog, batch, pipe, back, pc>>
    BY <1>4 DEF vars, queueVars, loopVars, wireVars
  <2>2. OrderInv'
    BY Zenon, <1>1, <2>1, OrderStays DEF WorkerTypeOK, OrderInv
  <2> QED
    BY <1>3, <2>1, <2>2
<1>5. CASE writeControlMessage \/ writeMessage
  <2>1. OrderInv'
    BY <1>5, ProducersKeepOrder
  <2>2. KeepsControl
    <3> SUFFICES ASSUME NEW m \in control \cap Waiting PROVE m \in Outstanding'
      BY DEF KeepsControl
    <3>1. m \in Messages /\ m \in Range(controlBacklog) \cup Range(m_controlQueue)
      BY <1>1, TypesSay, WaitingIs DEF WorkerTypeOK
    <3>2. Range(m_controlQueue) \subseteq Range(m_controlQueue') /\ controlBacklog' = controlBacklog
      <4>1. CASE writeMessage
        BY <4>1 DEF writeMessage, loopVars
      <4>2. CASE writeControlMessage
        <5>1. m_controlQueue' = Append(m_controlQueue, queued + 1) /\ controlBacklog' = controlBacklog
          BY <4>2 DEF writeControlMessage, loopVars
        <5>2. /\ m_controlQueue \in Seq(Int) /\ queued + 1 \in Int /\ Increasing(m_controlQueue)
              /\ \A i \in DOMAIN m_controlQueue : m_controlQueue[i] < queued + 1
          <6>1. \A i \in DOMAIN m_controlQueue : m_controlQueue[i] \in 1 .. queued
            BY <1>1, TypesSay DEF WorkerTypeOK, Accepted, Range
          <6> QED
            BY <1>1, <6>1, TypesSay DEF ControlChain
        <5>3. Range(m_controlQueue') = Range(m_controlQueue) \cup {queued + 1}
          BY <5>1, <5>2, AppendedLast
        <5> QED
          BY <5>1, <5>3
      <4> QED
        BY <1>5, <4>1, <4>2
    <3>3. m \in Waiting'
      BY <3>1, <3>2 DEF Waiting
    <3> QED
      BY <3>1, <3>3 DEF Outstanding, Messages
  <2> QED
    BY <2>1, <2>2
<1>6. CASE \/ SyncCall \/ SyncStep \/ SyncTimesOut \/ AskControl \/ AskData \/ TakeRequest \/ SetTarget \/ Stop
  <2>1. UNCHANGED <<link, control, queued, m_controlQueue, m_dataQueue, controlBacklog, dataBacklog, batch, pipe, back>>
    BY <1>6 DEF SyncCall, SyncStep, SyncChecks, SyncWaits, StopNotifies, SyncTimesOut, AskControl, AskData, TakeRequest, SetTarget, Stop,
                queueVars, loopVars, wireVars
  <2>2. pc' = "encoded" => pc = "encoded"
    BY <1>6 DEF SyncCall, SyncStep, SyncChecks, SyncWaits, StopNotifies, SyncTimesOut, AskControl, AskData, TakeRequest, SetTarget, Stop
  <2>3. OrderInv'
    BY <1>1, <2>1, <2>2, OrderStays DEF OrderInv, WorkerTypeOK
  <2> QED
    BY <1>3, <2>1, <2>3
<1>7. CASE Poll
  <2>1. UNCHANGED <<link, control, queued, m_controlQueue, m_dataQueue, controlBacklog, dataBacklog, batch, pipe>>
    BY <1>7 DEF Poll, queueVars
  <2>2. back' \in Seq({"HEARTBEAT_ACK", "RESET"}) /\ pc' # "encoded"
    <3>1. \A M : \A q \in Seq(M) : q # <<>> => Tail(q) \in Seq(M)
      OBVIOUS
    <3>2. pc' # "encoded" /\ (back' = back \/ (back # <<>> /\ back' = Tail(back)))
      BY <1>7 DEF Poll
    <3> QED
      BY <1>1, <3>1, <3>2, Zenon DEF WorkerTypeOK
  <2>3. OrderInv'
    BY <2>1, <2>2, OrderStays
  <2> QED
    BY <1>3, <2>1, <2>3
<1>8. CASE DrainControl \/ FinalDrain
  <2> DEFINE waiting == controlBacklog \o m_controlQueue
             kept == Kept(waiting, CONTROL_BACKLOG_LIMIT)
             both == Range(controlBacklog) \cup Range(m_controlQueue)
  <2>1. /\ UNCHANGED <<link, control, queued, m_dataQueue, batch, dataBacklog, back>>
        /\ m_controlQueue' = <<>> /\ pc' # "encoded"
        /\ \/ SendBatch(kept) /\ controlBacklog' = Refused(kept)
           \/ SendBatch(waiting) /\ controlBacklog' = Refused(waiting)
    BY <1>8 DEF DrainControl, FinalDrain
  <2>2. /\ kept \in Seq(control) /\ Increasing(kept) /\ Range(kept) \subseteq both
        /\ Len(controlBacklog) + Len(m_controlQueue) <= CONTROL_BACKLOG_LIMIT => both \subseteq Range(kept)
    BY ControlKept, WorkerAssumption
  <2>3. waiting \in Seq(control) /\ Increasing(waiting) /\ Range(waiting) = both
    BY ControlWaiting
  <2>4. CASE SendBatch(kept) /\ controlBacklog' = Refused(kept)
    <3> HIDE DEF kept, waiting
    <3>1. OrderInv' /\ Range(kept) \subseteq Range(pipe') \cup Range(controlBacklog')
      BY <2>1, <2>2, <2>4, ControlSends
    <3>2. CASE Len(controlBacklog) + Len(m_controlQueue) <= CONTROL_BACKLOG_LIMIT
      <4>1. both \subseteq Range(controlBacklog') \cup Range(m_controlQueue') \cup Range(pipe')
        BY <2>2, <3>1, <3>2
      <4> QED
        BY <1>1, <2>1, <3>1, <4>1, ControlStays DEF OrderInv
    <3>3. CASE ~ (Len(controlBacklog) + Len(m_controlQueue) <= CONTROL_BACKLOG_LIMIT)
      <4>1. Len(controlBacklog) + Len(m_controlQueue) > CONTROL_BACKLOG_LIMIT
        BY <1>1, <3>3, LenProperties, WorkerAssumption DEF WorkerTypeOK
      <4> QED
        BY <3>1, <4>1 DEF KeepsControl
    <3> QED
      BY <3>2, <3>3
  <2>5. CASE SendBatch(waiting) /\ controlBacklog' = Refused(waiting)
    <3> HIDE DEF kept, waiting
    <3>1. OrderInv' /\ Range(waiting) \subseteq Range(pipe') \cup Range(controlBacklog')
      BY <2>1, <2>3, <2>5, ControlSends
    <3>2. both \subseteq Range(controlBacklog') \cup Range(m_controlQueue') \cup Range(pipe')
      BY <2>3, <3>1
    <3> QED
      BY <1>1, <2>1, <3>1, <3>2, ControlStays DEF OrderInv
  <2> QED
    BY <2>1, <2>4, <2>5
<1>9. CASE Flush
  <2>1. UNCHANGED <<link, control, queued, m_controlQueue, m_dataQueue, batch, back>>
    BY <1>9 DEF Flush, queueVars
  <2>2. CASE SendBatch(controlBacklog) /\ controlBacklog' = Refused(controlBacklog) /\ UNCHANGED <<pc, dataBacklog>>
    <3>1. pc # "encoded"
      BY <1>9 DEF Flush
    <3>2. controlBacklog \in Seq(control) /\ Increasing(controlBacklog) /\ Below(controlBacklog, m_controlQueue)
      BY <1>1 DEF WorkerTypeOK, ControlChain
    <3>3. OrderInv' /\ Range(controlBacklog) \subseteq Range(pipe') \cup Range(controlBacklog')
      BY <2>1, <2>2, <3>1, <3>2, ControlSends
    <3>4. Range(controlBacklog) \cup Range(m_controlQueue)
              \subseteq Range(controlBacklog') \cup Range(m_controlQueue') \cup Range(pipe')
      BY <2>1, <3>3
    <3> QED
      BY <1>1, <2>1, <3>3, <3>4, ControlStays DEF OrderInv
  <2>3. CASE pc' = "stopped" /\ controlBacklog' = <<>> /\ dataBacklog' = <<>> /\ UNCHANGED pipe
    <3>1. DOMAIN <<>> = {} /\ Range(<<>>) = {}
      BY DEF Range
    <3>2. WorkerTypeOK'
      BY <1>1, <1>2, <2>1, <2>3 DEF WorkerTypeOK, Accepted, Signals
    <3>3. Waiting' \subseteq Waiting
      <4>1. Waiting' = Range(m_controlQueue) \cup Range(m_dataQueue) \cup Range(<<>>) \cup Range(<<>>) \cup Range(batch)
        BY <2>1, <2>3 DEF Waiting
      <4> QED
        BY <3>1, <4>1, WaitingIs
    <3>4. ControlGoesFirst'
      BY <1>1, <2>1, <2>3, <3>3 DEF ControlGoesFirst, MayOvertake
    <3>5. ControlChain' /\ DataChain'
      BY Zenon, <1>1, <2>1, <2>3, <3>1 DEF ControlChain, DataChain, Increasing, Below
    <3> QED
      BY <2>1, <2>3, <3>2, <3>4, <3>5 DEF OrderInv, KeepsControl
  <2> QED
    BY <1>9, <2>2, <2>3 DEF Flush
<1>10. CASE DrainData
  <2>1. UNCHANGED <<link, control, queued, m_controlQueue, controlBacklog, dataBacklog, pipe, back>> /\ pc' # "encoded"
    BY <1>10 DEF DrainData, wireVars
  <2>2. CASE ~ (isOnline /\ ~ link)
    <3>1. UNCHANGED <<batch, m_dataQueue>>
      BY <1>10, <2>2 DEF DrainData
    <3>2. OrderInv'
      BY <1>1, <2>1, <3>1, OrderStays DEF WorkerTypeOK
    <3> QED
      BY <1>3, <2>1, <3>2
  <2>3. CASE isOnline /\ ~ link
    <3>1. batch' = m_dataQueue /\ m_dataQueue' = <<>>
      BY <1>10, <2>3 DEF DrainData
    <3>2. DOMAIN <<>> = {} /\ Range(<<>>) = {}
      BY DEF Range
    <3>3. WorkerTypeOK'
      BY <1>1, <1>2, <2>1, <3>1 DEF WorkerTypeOK, Accepted, Signals
    <3>4. Waiting' \subseteq Waiting
      <4>1. Waiting' = Range(m_controlQueue) \cup Range(<<>>) \cup Range(controlBacklog) \cup Range(dataBacklog)
                           \cup Range(m_dataQueue)
        BY <2>1, <3>1 DEF Waiting
      <4> QED
        BY <3>2, <4>1, WaitingIs
    <3>5. ControlGoesFirst'
      BY <1>1, <2>1, <3>4 DEF ControlGoesFirst, MayOvertake
    <3>6. ControlChain' /\ DataChain'
      BY <1>1, <2>1, <3>1, <3>2 DEF ControlChain, DataChain, Increasing, Below
    <3>7. OrderInv'
      BY <2>1, <2>3, <3>3, <3>5, <3>6 DEF OrderInv
    <3> QED
      BY <1>3, <2>1, <3>7
  <2> QED
    BY <2>2, <2>3
<1>11. CASE Gate
  <2>1. /\ UNCHANGED <<link, control, queued, m_controlQueue, m_dataQueue, controlBacklog, back>>
        /\ pc' # "encoded" /\ batch' = <<>>
    BY <1>11 DEF Gate, queueVars
  <2>2. CASE NothingAhead /\ SendBatch(batch) /\ UNCHANGED dataBacklog
    <3>1. OrderInv'
      BY <2>1, <2>2, DataSends DEF NothingAhead
    <3> QED
      BY <1>3, <2>1, <3>1
  <2>3. CASE dataBacklog' = Kept(dataBacklog \o batch, DATA_BACKLOG_LIMIT) /\ UNCHANGED pipe
    <3> DEFINE data == Accepted \ control
               waiting == dataBacklog \o batch
               kept == Kept(waiting, DATA_BACKLOG_LIMIT)
    <3>1. /\ dataBacklog \in Seq(data) /\ batch \in Seq(data) /\ data \subseteq Int
          /\ dataBacklog \in Seq(Int) /\ batch \in Seq(Int) /\ m_dataQueue \in Seq(Int)
      BY <1>1, TypesSay DEF WorkerTypeOK
    <3>2. waiting \in Seq(data) /\ waiting \in Seq(Int) /\ Increasing(waiting) /\ Below(waiting, m_dataQueue)
      BY Zenon, <1>1, <3>1, Joined, IncreasingJoined DEF DataChain
    <3>3. Range(waiting) \subseteq Range(dataBacklog) \cup Range(batch)
      <4> HIDE DEF data
      <4>1. /\ Len(waiting) = Len(dataBacklog) + Len(batch)
            /\ \A i \in 1 .. Len(dataBacklog) : waiting[i] = dataBacklog[i]
            /\ \A i \in 1 .. Len(dataBacklog) + Len(batch) :
                  i \in 1 .. Len(dataBacklog) \/ (i - Len(dataBacklog) \in 1 .. Len(batch) /\ waiting[i] = batch[i - Len(dataBacklog)])
        BY <3>1, Joined
      <4>2. /\ DOMAIN waiting = 1 .. Len(waiting) /\ DOMAIN dataBacklog = 1 .. Len(dataBacklog)
            /\ DOMAIN batch = 1 .. Len(batch)
        BY <3>1, <3>2, LenProperties
      <4> HIDE DEF waiting
      <4> QED
        BY <4>1, <4>2, Zenon DEF Range
    <3> HIDE DEF waiting, data
    <3>4. PICK d \in 0 .. Len(waiting) : /\ kept \in Seq(data) /\ Len(kept) = Len(waiting) - d
                                         /\ \A i \in 1 .. Len(waiting) - d : kept[i] = waiting[i + d]
      <4>1. DATA_BACKLOG_LIMIT \in Nat /\ waiting \in Seq(data)
        BY <3>2, WorkerAssumption
      <4> QED
        BY <4>1, KeptIs, Zenon DEF kept
    <3> HIDE DEF kept
    <3>5. Len(waiting) \in Nat /\ DOMAIN waiting = 1 .. Len(waiting) /\ DOMAIN kept = 1 .. Len(kept) /\ kept \in Seq(Int)
      BY Zenon, <3>1, <3>2, <3>4, LenProperties, SeqGrows
    <3>6. PartOf(kept, waiting)
      <4>1. d \in Nat /\ Len(kept) + d <= Len(waiting) /\ \A i \in 1 .. Len(kept) : kept[i] = waiting[i + d]
        BY <3>4, <3>5
      <4> QED
        BY <4>1, Zenon DEF PartOf
    <3>7. Increasing(kept) /\ Below(kept, m_dataQueue)
      BY <3>1, <3>2, <3>5, <3>6, IncreasingParts, Zenon
    <3>8. Range(kept) \subseteq Range(waiting)
      <4>1. \A i \in 1 .. Len(kept) : i + d \in 1 .. Len(waiting)
        BY <3>4, <3>5
      <4> QED
        BY Zenon, <3>4, <3>5, <4>1 DEF Range
    <3>9. dataBacklog' = kept
      BY <2>3 DEF kept, waiting
    <3>10. DOMAIN <<>> = {} /\ Range(<<>>) = {}
      BY DEF Range
    <3>11. WorkerTypeOK'
      BY <1>1, <1>2, <2>1, <2>3, <3>4, <3>9 DEF WorkerTypeOK, Accepted, Signals, data
    <3>12. Waiting' \subseteq Waiting
      <4>1. Waiting' = Range(m_controlQueue) \cup Range(m_dataQueue) \cup Range(controlBacklog)
                           \cup Range(kept) \cup Range(<<>>)
        BY <2>1, <3>9 DEF Waiting
      <4> QED
        BY <3>3, <3>8, <3>10, <4>1, WaitingIs
    <3>13. ControlGoesFirst'
      BY <1>1, <2>1, <2>3, <3>12 DEF ControlGoesFirst, MayOvertake
    <3>14. ControlChain' /\ DataChain'
      BY Zenon, <1>1, <2>1, <3>7, <3>9, <3>10 DEF ControlChain, DataChain, Increasing, Below
    <3>15. link => dataBacklog' = <<>>
      <4> SUFFICES ASSUME link PROVE Len(kept) = 0
        BY <3>4, <3>9, EmptySeq
      <4>1. waiting = <<>> \o <<>>
        BY DEF OrderInv, waiting
      <4>2. waiting = <<>>
        BY <4>1
      <4> QED
        BY <3>4, <4>2
    <3>16. OrderInv'
      BY <2>1, <3>11, <3>13, <3>14, <3>15 DEF OrderInv
    <3> QED
      BY <1>3, <2>1, <3>16
  <2> QED
    BY <1>11, <2>2, <2>3 DEF Gate
<1>12. CASE SendBacklog
  <2>1. /\ UNCHANGED <<link, control, queued, m_controlQueue, m_dataQueue, controlBacklog, batch, back>>
        /\ pc' = "encoded" => link
    BY <1>12 DEF SendBacklog, queueVars
  <2>2. CASE BacklogGoes /\ SendBatch(dataBacklog) /\ dataBacklog' = <<>>
    <3>1. OrderInv'
      BY <2>1, <2>2, DataSends DEF BacklogGoes
    <3> QED
      BY <1>3, <2>1, <3>1
  <2>3. CASE UNCHANGED <<dataBacklog, pipe>>
    <3>1. OrderInv'
      BY <1>1, <2>1, <2>3, OrderStays DEF WorkerTypeOK
    <3> QED
      BY <1>3, <2>1, <3>1
  <2> QED
    BY <1>12, <2>2, <2>3 DEF SendBacklog
<1>13. CASE DrainEncoded
  <2>1. /\ UNCHANGED <<link, control, queued, m_controlQueue, controlBacklog, dataBacklog, batch, back>>
        /\ pc' # "encoded" /\ link /\ SendBatch(m_dataQueue) /\ m_dataQueue' = <<>>
    BY <1>13 DEF DrainEncoded, loopVars, OrderInv
  <2>2. OrderInv'
    BY <2>1, DataSends
  <2> QED
    BY <1>3, <2>1, <2>2
<1>14. CASE SyncBeat \/ \E due, silent \in BOOLEAN : LoopTail(due, silent)
  <2>1. /\ UNCHANGED <<link, control, queued, m_controlQueue, m_dataQueue, controlBacklog, dataBacklog, batch, back>>
        /\ pc' # "encoded" /\ (sendHeartbeat \/ UNCHANGED pipe)
    BY <1>14 DEF SyncBeat, LoopTail, queueVars, loopVars
  <2>2. OrderInv'
    BY <1>1, <2>1, BeatKeepsOrder, OrderStays DEF WorkerTypeOK
  <2> QED
    BY <1>3, <2>1, <2>2
<1>15. CASE Start
  <2>1. /\ UNCHANGED <<link, control, queued, m_controlQueue, m_dataQueue, controlBacklog, dataBacklog, batch>>
        /\ pc' # "encoded" /\ pipe' = <<CONNECT>> /\ back' = <<>>
    BY <1>15 DEF Start, queueVars
  <2>2. OrderInv'
    BY <1>2, <2>1, PipeLoses
  <2> QED
    BY <1>3, <2>1, <2>2
<1>16. CASE BrokerHandles
  <2>1. /\ UNCHANGED <<link, control, queued, m_controlQueue, m_dataQueue, controlBacklog, dataBacklog, batch, pc>>
        /\ pipe # <<>> /\ pipe' = Tail(pipe)
        /\ \E r \in {<<>>, <<"RESET">>}, h \in {<<>>, <<"HEARTBEAT_ACK">>} : back' = back \o r \o h
    BY Zenon, <1>16 DEF BrokerHandles, queueVars, loopVars
  <2>2. back' \in Seq({"HEARTBEAT_ACK", "RESET"})
    <3>1. \A M : \A q, r, h \in Seq(M) : q \o r \o h \in Seq(M)
      OBVIOUS
    <3>2. <<>> \in Seq({"HEARTBEAT_ACK", "RESET"}) /\ <<"RESET">> \in Seq({"HEARTBEAT_ACK", "RESET"})
          /\ <<"HEARTBEAT_ACK">> \in Seq({"HEARTBEAT_ACK", "RESET"})
      OBVIOUS
    <3>3. PICK r \in {<<>>, <<"RESET">>}, h \in {<<>>, <<"HEARTBEAT_ACK">>} : back' = back \o r \o h
      BY Zenon, <2>1
    <3>4. r \in Seq({"HEARTBEAT_ACK", "RESET"}) /\ h \in Seq({"HEARTBEAT_ACK", "RESET"})
      BY <3>2, <3>3, Zenon
    <3>5. back \in Seq({"HEARTBEAT_ACK", "RESET"})
      BY <1>1 DEF WorkerTypeOK
    <3> QED
      BY <3>1, <3>3, <3>4, <3>5, Zenon
  <2>3. Tail(pipe) = SubSeq(pipe, 1 + 1, Len(pipe)) /\ 1 \in 0 .. Len(pipe)
    <3>1. pipe \in Seq(Accepted \cup Signals) /\ Len(pipe) \in Nat
      BY <1>1, TypesSay DEF WorkerTypeOK
    <3>2. Len(pipe) # 0
      BY <2>1, <3>1, EmptySeq
    <3>3. 1 \in 0 .. Len(pipe)
      BY <3>1, <3>2
    <3> QED
      BY <3>1, <3>3
  <2>4. OrderInv'
    BY <2>1, <2>2, <2>3, PipeLoses DEF OrderInv
  <2> QED
    BY <1>3, <2>1, <2>4
<1>17. CASE BrokerRestarts
  <2>1. /\ UNCHANGED <<link, control, queued, m_controlQueue, m_dataQueue, controlBacklog, dataBacklog, batch, pc>>
        /\ \E n \in 0 .. Len(pipe) : pipe' = SubSeq(pipe, n + 1, Len(pipe))
        /\ back' = <<>>
    BY <1>17 DEF BrokerRestarts, queueVars, loopVars
  <2>2. OrderInv'
    BY <1>2, <2>1, PipeLoses DEF OrderInv
  <2> QED
    BY <1>3, <2>1, <2>2
<1> QED
  BY <1>4, <1>5, <1>6, <1>7, <1>8, <1>9, <1>10, <1>11, <1>12, <1>13, <1>14, <1>15, <1>16, <1>17, Zenon DEF Next, LoopStep

--------------------------------------------------------------------------------
(* Counting.  Where a value stands in a sequence, and how often.               *)
Places(q, v) == {j \in DOMAIN q : q[j] = v}
PlacesBefore(i, q, v) == {j \in Places(q, v) : j < i}

(* Places can be counted, and none are fewer than some.                        *)
LEMMA Counted ==
    ASSUME NEW M, NEW q \in Seq(M), NEW v, NEW i \in Int
    PROVE  /\ IsFiniteSet(Places(q, v)) /\ Cardinality(Places(q, v)) \in Nat /\ Places(q, v) \subseteq Int
           /\ IsFiniteSet(PlacesBefore(i, q, v)) /\ Cardinality(PlacesBefore(i, q, v)) \in Nat
           /\ Cardinality(PlacesBefore(i, q, v)) <= Cardinality(Places(q, v))
<1>1. DOMAIN q = 1 .. Len(q) /\ Len(q) \in Nat
  BY LenProperties
<1>2. IsFiniteSet(1 .. Len(q)) /\ Places(q, v) \in SUBSET (1 .. Len(q)) /\ PlacesBefore(i, q, v) \in SUBSET Places(q, v)
  BY <1>1, FS_Interval DEF Places, PlacesBefore
<1>3. IsFiniteSet(Places(q, v)) /\ Cardinality(Places(q, v)) \in Nat
  BY <1>2, FS_Subset, FS_CardinalityType, Zenon
<1>4. /\ IsFiniteSet(PlacesBefore(i, q, v)) /\ Cardinality(PlacesBefore(i, q, v)) \in Nat
      /\ Cardinality(PlacesBefore(i, q, v)) <= Cardinality(Places(q, v))
  BY <1>2, <1>3, FS_Subset, FS_CardinalityType, Zenon
<1> QED
  BY <1>1, <1>2, <1>3, <1>4

(* Numbers moved by the same amount are as many.                               *)
LEMMA Moved ==
    ASSUME NEW S, S \subseteq Int, IsFiniteSet(S), NEW n \in Int
    PROVE  Cardinality({j - n : j \in S}) = Cardinality(S)
<1> DEFINE T == {j - n : j \in S}
           f == [j \in S |-> j - n]
<1>1. f \in Bijection(S, T)
  <2>1. f \in [S -> T] /\ (\A a, b \in S : f[a] = f[b] => a = b) /\ (\A t \in T : \E a \in S : f[a] = t)
    OBVIOUS
  <2> HIDE DEF f, T
  <2> QED
    BY <2>1, Zenon DEF Bijection, Injection, IsInjective, Surjection
<1>2. ExistsBijection(S, T)
  BY <1>1, Zenon DEF ExistsBijection
<1> HIDE DEF T
<1>3. Cardinality(T) = Cardinality(S)
  BY <1>2, FS_Bijection
<1> QED
  BY <1>3 DEF T

(* What is counted in the rest of a sequence is counted in the sequence.       *)
RestCounts(M, q, n, r, v, i) ==
    /\ r \in Seq(M) /\ DOMAIN r = 1 .. Len(q) - n /\ \A k \in DOMAIN r : k + n \in DOMAIN q /\ r[k] = q[k + n]
    /\ Cardinality(Places(r, v)) = Cardinality({j \in Places(q, v) : n < j})
    /\ Cardinality(PlacesBefore(i, r, v)) = Cardinality({j \in PlacesBefore(i + n, q, v) : n < j})

(* The rest of a sequence counts so.                                           *)
LEMMA CountedInRest ==
    \A M : \A q \in Seq(M) : \A n \in 0 .. Len(q) : \A v : \A i \in Int :
        RestCounts(M, q, n, SubSeq(q, n + 1, Len(q)), v, i)
<1> SUFFICES ASSUME NEW M, NEW q \in Seq(M), NEW n \in 0 .. Len(q), NEW v, NEW i \in Int
             PROVE  RestCounts(M, q, n, SubSeq(q, n + 1, Len(q)), v, i)
  OBVIOUS
<1> DEFINE r == SubSeq(q, n + 1, Len(q))
<1>1. Len(q) \in Nat /\ n \in Nat /\ n <= Len(q) /\ DOMAIN q = 1 .. Len(q)
  BY LenProperties
<1>2. r \in Seq(M) /\ Len(r) = Len(q) - n /\ \A k \in 1 .. Len(q) - n : r[k] = q[k + n]
  <2>1. Len(q) <= Len(q)
    BY <1>1
  <2> QED
    BY <1>1, <2>1, Cut, Zenon
<1> HIDE DEF r
<1>3. DOMAIN r = 1 .. Len(q) - n /\ \A k \in DOMAIN r : k + n \in DOMAIN q /\ r[k] = q[k + n]
  BY <1>1, <1>2, LenProperties
<1>4. ASSUME NEW A, NEW B, IsFiniteSet(B), B \subseteq Int, \A k \in A : k \in Int /\ k + n \in B, \A k \in B : k - n \in A
      PROVE  Cardinality(A) = Cardinality(B)
  <2>1. A = {j - n : j \in B}
    BY <1>1, <1>4
  <2>2. n \in Int
    BY <1>1
  <2>3. Cardinality({j - n : j \in B}) = Cardinality(B)
    BY <1>4, <2>2, Moved, Zenon
  <2> QED
    BY <2>1, <2>3, Zenon
<1> DEFINE A == Places(r, v)
           B == {j \in Places(q, v) : n < j}
           C == PlacesBefore(i, r, v)
           D == {j \in PlacesBefore(i + n, q, v) : n < j}
<1>5. i + n \in Int
  BY <1>1
<1>6. IsFiniteSet(B) /\ B \subseteq Int /\ IsFiniteSet(D) /\ D \subseteq Int
  <2>1. IsFiniteSet(Places(q, v)) /\ Places(q, v) \subseteq Int /\ IsFiniteSet(PlacesBefore(i + n, q, v))
    BY <1>5, Counted, Zenon
  <2>2. B \in SUBSET Places(q, v) /\ D \in SUBSET PlacesBefore(i + n, q, v) /\ D \subseteq Places(q, v)
    BY DEF PlacesBefore
  <2> HIDE DEF B, D
  <2> QED
    BY <2>1, <2>2, FS_Subset, Zenon
<1>7. (\A k \in A : k \in Int /\ k + n \in B) /\ (\A k \in B : k - n \in A)
  BY <1>1, <1>3 DEF Places
<1>8. (\A k \in C : k \in Int /\ k + n \in D) /\ (\A k \in D : k - n \in C)
  BY <1>1, <1>3 DEF Places, PlacesBefore
<1> HIDE DEF A, B, C, D
<1>9. Cardinality(A) = Cardinality(B) /\ Cardinality(C) = Cardinality(D)
  BY <1>4, <1>6, <1>7, <1>8, Zenon
<1> QED
  BY <1>2, <1>3, <1>9 DEF r, A, B, C, D, RestCounts

(* The counts of the invariant are counts of places.                           *)
LEMMA CountsArePlaces ==
    ASSUME NEW out, NEW in, NEW i
    PROVE  /\ ToCome(out, in) = Cardinality(Places(out, HEARTBEAT)) + Cardinality(Places(in, "HEARTBEAT_ACK"))
           /\ ToComeBefore(i, out, in)
                 = Cardinality(PlacesBefore(i, out, HEARTBEAT)) + Cardinality(Places(in, "HEARTBEAT_ACK"))
BY DEF ToCome, ToComeBefore, Heartbeats, Acks, Places, PlacesBefore

(* What is put behind the others waits for no fewer, and no others wait for    *)
(* more.                                                                       *)
LEMMA WaitsBehind ==
    ASSUME NEW out \in Seq(Int), NEW f \in Seq(Int), NEW in, NEW S, NEW n,
           \A k \in DOMAIN f : f[k] # HEARTBEAT /\ f[k] \notin S
    PROVE  /\ ToCome(out \o f, in) = ToCome(out, in)
           /\ Awaits(n, S, out, in) => Awaits(n, S, out \o f, in)
<1> DEFINE q == out \o f
<1>1. /\ q \in Seq(Int) /\ Len(q) = Len(out) + Len(f) /\ \A k \in 1 .. Len(out) : q[k] = out[k]
      /\ \A k \in 1 .. Len(out) + Len(f) : k \in 1 .. Len(out) \/ (k - Len(out) \in 1 .. Len(f) /\ q[k] = f[k - Len(out)])
  BY Joined
<1>2. /\ Len(out) \in Nat /\ Len(f) \in Nat /\ DOMAIN out = 1 .. Len(out) /\ DOMAIN f = 1 .. Len(f)
      /\ DOMAIN q = 1 .. Len(out) + Len(f)
  BY <1>1, LenProperties
<1> HIDE DEF q
<1>3. DOMAIN out \subseteq DOMAIN q
  BY <1>2
<1>4. \A k \in DOMAIN q : k \in DOMAIN out \/ (q[k] # HEARTBEAT /\ q[k] \notin S)
  BY Zenon, <1>1, <1>2
<1>5. \A k \in DOMAIN out : q[k] = out[k]
  BY <1>1, <1>2
<1>6. Places(q, HEARTBEAT) = Places(out, HEARTBEAT)
  BY <1>3, <1>4, <1>5 DEF Places
<1>7. \A i : PlacesBefore(i, q, HEARTBEAT) = PlacesBefore(i, out, HEARTBEAT)
  BY <1>6 DEF PlacesBefore
<1>8. ToCome(q, in) = ToCome(out, in) /\ \A i : ToComeBefore(i, q, in) = ToComeBefore(i, out, in)
  BY <1>6, <1>7, CountsArePlaces
<1>9. Awaits(n, S, out, in) => Awaits(n, S, q, in)
  BY <1>4, <1>5, <1>8 DEF Awaits
<1> QED
  BY <1>8, <1>9 DEF q

(* A heartbeat behind everything is answered after everything.                 *)
LEMMA BeatBehind ==
    ASSUME NEW out \in Seq(Int), NEW in \in Seq({"HEARTBEAT_ACK", "RESET"}), NEW S, HEARTBEAT \notin S, NEW n \in Int
    PROVE  /\ ToCome(out, in) \in Nat /\ ToCome(Append(out, HEARTBEAT), in) = ToCome(out, in) + 1
           /\ Awaits(n, S, out, in) => Awaits(n, S, Append(out, HEARTBEAT), in)
           /\ ToCome(out, in) < n => Awaits(n, S, out, in)
<1> DEFINE q == Append(out, HEARTBEAT)
           last == Len(out) + 1
<1>1. /\ Len(out) \in Nat /\ DOMAIN out = 1 .. Len(out) /\ DOMAIN q = 1 .. last /\ q[last] = HEARTBEAT
      /\ \A k \in 1 .. Len(out) : q[k] = out[k]
  BY DEF HEARTBEAT
<1> HIDE DEF q
<1>2. Places(q, HEARTBEAT) = Places(out, HEARTBEAT) \cup {last} /\ last \notin Places(out, HEARTBEAT)
  BY <1>1 DEF Places
<1>3. \A i \in DOMAIN out : PlacesBefore(i, q, HEARTBEAT) = PlacesBefore(i, out, HEARTBEAT)
  BY <1>1, <1>2 DEF PlacesBefore
<1>4. /\ \A i \in Int : /\ IsFiniteSet(Places(out, HEARTBEAT)) /\ Cardinality(Places(out, HEARTBEAT)) \in Nat
                        /\ Cardinality(PlacesBefore(i, out, HEARTBEAT)) \in Nat
                        /\ Cardinality(PlacesBefore(i, out, HEARTBEAT)) <= Cardinality(Places(out, HEARTBEAT))
      /\ Cardinality(Places(in, "HEARTBEAT_ACK")) \in Nat
  <2>1. 0 \in Int
    OBVIOUS
  <2> QED
    BY <2>1, Counted, Zenon
<1>5. Cardinality(Places(q, HEARTBEAT)) = Cardinality(Places(out, HEARTBEAT)) + 1
  <2>1. 0 \in Int
    OBVIOUS
  <2>2. IsFiniteSet(Places(out, HEARTBEAT))
    BY <1>4, <2>1, Zenon
  <2> QED
    BY Zenon, <1>2, <2>2, FS_AddElement
<1> DEFINE h == Cardinality(Places(out, HEARTBEAT))
           a == Cardinality(Places(in, "HEARTBEAT_ACK"))
<1>6. ToCome(q, in) = ToCome(out, in) + 1 /\ ToCome(out, in) = h + a /\ h \in Nat /\ a \in Nat
  <2>1. ToCome(q, in) = Cardinality(Places(q, HEARTBEAT)) + a /\ ToCome(out, in) = h + a
    BY CountsArePlaces, Zenon
  <2>2. 0 \in Int
    OBVIOUS
  <2>3. h \in Nat /\ a \in Nat
    BY <1>4, <2>2, Zenon
  <2> HIDE DEF a, h
  <2>4. Cardinality(Places(q, HEARTBEAT)) = h + 1
    BY <1>5 DEF h
  <2> QED
    BY <2>1, <2>3, <2>4
<1>7. \A i \in DOMAIN out : i \in Int
  BY <1>1
<1>8. \A i \in DOMAIN out : ToComeBefore(i, out, in) <= ToCome(out, in) /\ ToComeBefore(i, out, in) \in Nat
  <2> SUFFICES ASSUME NEW i \in DOMAIN out
               PROVE  ToComeBefore(i, out, in) <= ToCome(out, in) /\ ToComeBefore(i, out, in) \in Nat
    OBVIOUS
  <2> DEFINE b == Cardinality(PlacesBefore(i, out, HEARTBEAT))
  <2>1. b \in Nat /\ b <= h
    BY <1>4, <1>7, Zenon
  <2>2. ToComeBefore(i, out, in) = b + a
    BY CountsArePlaces, Zenon
  <2> HIDE DEF a, b, h
  <2> QED
    BY <1>6, <2>1, <2>2
<1>9. \A i \in DOMAIN out : ToComeBefore(i, q, in) = ToComeBefore(i, out, in)
  BY <1>3, CountsArePlaces
<1>10. \A i \in DOMAIN q : i = last \/ i \in DOMAIN out
  BY <1>1
<1>11. Awaits(n, S, out, in) => Awaits(n, S, q, in)
  BY <1>1, <1>9, <1>10 DEF Awaits
<1>12. ToCome(out, in) < n => Awaits(n, S, out, in)
  <2> HIDE DEF a, h
  <2> QED
    BY <1>6, <1>8 DEF Awaits
<1> QED
  <2> HIDE DEF a, h
  <2> QED
    BY <1>6, <1>11, <1>12 DEF q

(* What a restart leaves in the pipe waits for no more than before.            *)
LEMMA WaitsNoMore ==
    ASSUME NEW out \in Seq(Int), NEW in \in Seq({"HEARTBEAT_ACK", "RESET"}), NEW d \in 0 .. Len(out), NEW S, NEW n \in Int
    PROVE  LET rest == SubSeq(out, d + 1, Len(out))
           IN  /\ ToCome(rest, <<>>) <= ToCome(out, in)
               /\ Awaits(n, S, out, in) => Awaits(n, S, rest, <<>>)
<1> DEFINE rest == SubSeq(out, d + 1, Len(out))
           h == Cardinality(Places(out, HEARTBEAT))
           a == Cardinality(Places(in, "HEARTBEAT_ACK"))
<1>1. Len(out) \in Nat /\ d \in Nat /\ 0 \in Int /\ DOMAIN out = 1 .. Len(out)
  BY LenProperties
<1>2. Cardinality(Places(<<>>, "HEARTBEAT_ACK")) = 0
  <2>1. Places(<<>>, "HEARTBEAT_ACK") = {}
    BY DEF Places
  <2> QED
    BY Zenon, <2>1, FS_EmptySet
<1>3. /\ rest \in Seq(Int) /\ DOMAIN rest = 1 .. Len(out) - d /\ \A k \in DOMAIN rest : k + d \in DOMAIN out /\ rest[k] = out[k + d]
      /\ Cardinality(Places(rest, HEARTBEAT)) = Cardinality({j \in Places(out, HEARTBEAT) : d < j})
      /\ \A i \in Int : Cardinality(PlacesBefore(i, rest, HEARTBEAT))
                             = Cardinality({j \in PlacesBefore(i + d, out, HEARTBEAT) : d < j})
  <2>1. /\ rest \in Seq(Int) /\ DOMAIN rest = 1 .. Len(out) - d /\ \A k \in DOMAIN rest : k + d \in DOMAIN out /\ rest[k] = out[k + d]
        /\ Cardinality(Places(rest, HEARTBEAT)) = Cardinality({j \in Places(out, HEARTBEAT) : d < j})
    <3>1. RestCounts(Int, out, d, rest, HEARTBEAT, 0)
      BY <1>1, CountedInRest, Zenon
    <3> HIDE DEF rest
    <3> QED
      BY <3>1 DEF RestCounts
  <2>2. ASSUME NEW i \in Int
        PROVE  Cardinality(PlacesBefore(i, rest, HEARTBEAT)) = Cardinality({j \in PlacesBefore(i + d, out, HEARTBEAT) : d < j})
    <3>1. RestCounts(Int, out, d, rest, HEARTBEAT, i)
      BY <1>1, CountedInRest, Zenon
    <3> HIDE DEF rest
    <3> QED
      BY <3>1 DEF RestCounts
  <2> HIDE DEF rest
  <2> QED
    BY <2>1, <2>2
<1> HIDE DEF rest
<1>4. /\ \A i \in Int : /\ IsFiniteSet(Places(out, HEARTBEAT)) /\ IsFiniteSet(PlacesBefore(i, out, HEARTBEAT))
                        /\ Cardinality(Places(out, HEARTBEAT)) \in Nat /\ Cardinality(PlacesBefore(i, out, HEARTBEAT)) \in Nat
      /\ a \in Nat
  BY <1>1, Counted, Zenon
<1>5. h \in Nat /\ Cardinality(Places(rest, HEARTBEAT)) \in Nat /\ Cardinality(Places(rest, HEARTBEAT)) <= h
  <2> DEFINE R == {j \in Places(out, HEARTBEAT) : d < j}
  <2>1. R \in SUBSET Places(out, HEARTBEAT) /\ IsFiniteSet(Places(out, HEARTBEAT)) /\ h \in Nat
    BY Zenon, <1>1, <1>4
  <2> HIDE DEF R, h
  <2>2. IsFiniteSet(R) /\ Cardinality(R) <= h /\ Cardinality(R) \in Nat
    BY <2>1, FS_Subset, FS_CardinalityType, Zenon DEF h
  <2> QED
    BY <1>3, <2>1, <2>2 DEF R
<1>6. ASSUME NEW i \in DOMAIN rest
      PROVE  /\ ToComeBefore(i, rest, <<>>) <= ToComeBefore(i + d, out, in)
             /\ ToComeBefore(i, rest, <<>>) \in Nat /\ ToComeBefore(i + d, out, in) \in Nat
  <2> DEFINE B == PlacesBefore(i + d, out, HEARTBEAT)
             R == {j \in B : d < j}
  <2>1. i \in Int /\ i + d \in Int
    BY <1>1, <1>3
  <2>2. R \in SUBSET B /\ IsFiniteSet(B) /\ Cardinality(B) \in Nat
    BY <1>4, <2>1
  <2>3. Cardinality(PlacesBefore(i, rest, HEARTBEAT)) = Cardinality(R)
    BY <1>3, <2>1, Zenon
  <2> HIDE DEF R
  <2>4. Cardinality(R) <= Cardinality(B) /\ Cardinality(R) \in Nat
    BY <2>2, FS_Subset, FS_CardinalityType, Zenon
  <2> HIDE DEF B
  <2>5. ToComeBefore(i, rest, <<>>) = Cardinality(PlacesBefore(i, rest, HEARTBEAT)) + Cardinality(Places(<<>>, "HEARTBEAT_ACK"))
    BY CountsArePlaces, Zenon
  <2>6. ToComeBefore(i + d, out, in) = Cardinality(B) + a
    BY CountsArePlaces, Zenon DEF B
  <2>7. a \in Nat
    BY <1>4, Zenon
  <2> DEFINE x == Cardinality(R)
             y == Cardinality(B)
  <2>8. ToComeBefore(i, rest, <<>>) = x + 0 /\ x \in Nat /\ y \in Nat /\ x <= y
    BY <1>2, <2>2, <2>3, <2>4, <2>5
  <2> HIDE DEF a, x, y
  <2> QED
    BY <2>6, <2>7, <2>8 DEF y
<1>7. ToCome(rest, <<>>) <= ToCome(out, in)
  <2>1. ToCome(rest, <<>>) = Cardinality(Places(rest, HEARTBEAT)) + Cardinality(Places(<<>>, "HEARTBEAT_ACK"))
    BY CountsArePlaces, Zenon
  <2>2. ToCome(out, in) = h + a
    BY CountsArePlaces, Zenon
  <2> HIDE DEF a, h
  <2> QED
    BY <1>2, <1>4, <1>5, <2>1, <2>2
<1>8. Awaits(n, S, out, in) => Awaits(n, S, rest, <<>>)
  <2> SUFFICES ASSUME Awaits(n, S, out, in), NEW i \in DOMAIN rest, rest[i] \in S PROVE ToComeBefore(i, rest, <<>>) < n
    BY DEF Awaits
  <2>1. ToComeBefore(i + d, out, in) < n
    BY <1>3 DEF Awaits
  <2> HIDE DEF a, h
  <2> QED
    BY <1>6, <2>1
<1> QED
  <2> HIDE DEF a, h
  <2> QED
    BY <1>7, <1>8 DEF rest

(* An acknowledgement that the worker reads is one fewer to come.              *)
LEMMA AckCounts ==
    ASSUME NEW out \in Seq(Int), NEW in \in Seq({"HEARTBEAT_ACK", "RESET"}), in # <<>>, NEW S, NEW n \in Nat
    PROVE  /\ Head(in) = "HEARTBEAT_ACK" => /\ ToCome(out, Tail(in)) = ToCome(out, in) - 1
                                            /\ Awaits(n, S, out, in) => Awaits(OneFewer(n), S, out, Tail(in))
           /\ Head(in) # "HEARTBEAT_ACK" => /\ ToCome(out, Tail(in)) = ToCome(out, in)
                                            /\ Awaits(n, S, out, in) => Awaits(n, S, out, Tail(in))
<1> DEFINE P == Places(in, "HEARTBEAT_ACK")
           a == Cardinality(P)
           b == Cardinality(Places(Tail(in), "HEARTBEAT_ACK"))
<1>1. /\ Tail(in) = SubSeq(in, 1 + 1, Len(in)) /\ 1 \in 0 .. Len(in) /\ 1 \in Int /\ 1 \in DOMAIN in /\ Head(in) = in[1]
      /\ \A j \in DOMAIN in : j \in Int /\ (1 < j \/ j = 1)
  <2>1. Len(in) \in Nat /\ DOMAIN in = 1 .. Len(in) /\ Len(in) # 0
    BY LenProperties, EmptySeq
  <2>2. 1 \in 0 .. Len(in) /\ 1 \in DOMAIN in /\ \A j \in DOMAIN in : j \in Int /\ (1 < j \/ j = 1)
    BY <2>1
  <2> QED
    BY <2>2
<1>2. b = Cardinality({j \in P : 1 < j}) /\ IsFiniteSet(P) /\ a \in Nat
  <2>1. b = Cardinality({j \in P : 1 < j})
    <3>1. RestCounts({"HEARTBEAT_ACK", "RESET"}, in, 1, SubSeq(in, 1 + 1, Len(in)), "HEARTBEAT_ACK", 1)
      BY <1>1, CountedInRest, Zenon
    <3>2. RestCounts({"HEARTBEAT_ACK", "RESET"}, in, 1, Tail(in), "HEARTBEAT_ACK", 1)
      BY <1>1, <3>1, Zenon
    <3> QED
      BY <3>2 DEF RestCounts
  <2>2. IsFiniteSet(P) /\ a \in Nat
    BY <1>1, Counted, Zenon
  <2> QED
    BY <2>1, <2>2
<1>3. {j \in P : 1 < j} = P \ {1} /\ (1 \in P <=> Head(in) = "HEARTBEAT_ACK")
  BY <1>1 DEF Places
<1> HIDE DEF P
<1>4. b = IF Head(in) = "HEARTBEAT_ACK" THEN a - 1 ELSE a
  BY Zenon, <1>2, <1>3, FS_RemoveElement
<1>5. b \in Nat
  <2>1. IsFiniteSet(P \ {1})
    BY Zenon, <1>2, FS_RemoveElement
  <2>2. Cardinality(P \ {1}) \in Nat
    BY Zenon, <2>1, FS_CardinalityType
  <2> QED
    BY Zenon, <1>2, <1>3, <2>2
<1> HIDE DEF a, b
<1>6. ASSUME NEW i \in DOMAIN out
      PROVE  \E x \in Nat : ToComeBefore(i, out, in) = x + a /\ ToComeBefore(i, out, Tail(in)) = x + b
  <2>1. i \in Int
    BY LenProperties
  <2>2. Cardinality(PlacesBefore(i, out, HEARTBEAT)) \in Nat
    BY <2>1, Counted, Zenon
  <2>3. /\ ToComeBefore(i, out, in) = Cardinality(PlacesBefore(i, out, HEARTBEAT)) + a
        /\ ToComeBefore(i, out, Tail(in)) = Cardinality(PlacesBefore(i, out, HEARTBEAT)) + b
    BY CountsArePlaces, Zenon DEF a, b, P
  <2> QED
    BY <2>2, <2>3, Zenon
<1>7. \E x \in Nat : ToCome(out, in) = x + a /\ ToCome(out, Tail(in)) = x + b
  <2>1. Cardinality(Places(out, HEARTBEAT)) \in Nat
    BY <1>1, Counted, Zenon
  <2>2. /\ ToCome(out, in) = Cardinality(Places(out, HEARTBEAT)) + a
        /\ ToCome(out, Tail(in)) = Cardinality(Places(out, HEARTBEAT)) + b
    BY CountsArePlaces, Zenon DEF a, b, P
  <2> QED
    BY <2>1, <2>2, Zenon
<1>8. Head(in) = "HEARTBEAT_ACK" => ToCome(out, Tail(in)) = ToCome(out, in) - 1
  BY <1>2, <1>4, <1>5, <1>7
<1>9. Head(in) # "HEARTBEAT_ACK" => ToCome(out, Tail(in)) = ToCome(out, in)
  BY <1>2, <1>4, <1>5, <1>7
<1>10. ASSUME Head(in) = "HEARTBEAT_ACK", Awaits(n, S, out, in) PROVE Awaits(OneFewer(n), S, out, Tail(in))
  <2> SUFFICES ASSUME NEW i \in DOMAIN out, out[i] \in S PROVE ToComeBefore(i, out, Tail(in)) < OneFewer(n)
    BY DEF Awaits
  <2>1. PICK x \in Nat : ToComeBefore(i, out, in) = x + a /\ ToComeBefore(i, out, Tail(in)) = x + b
    BY <1>6
  <2>2. x + a < n
    BY <1>10, <2>1 DEF Awaits
  <2> QED
    BY <1>2, <1>4, <1>5, <1>10, <2>1, <2>2 DEF OneFewer
<1>11. ASSUME Head(in) # "HEARTBEAT_ACK", Awaits(n, S, out, in) PROVE Awaits(n, S, out, Tail(in))
  <2> SUFFICES ASSUME NEW i \in DOMAIN out, out[i] \in S PROVE ToComeBefore(i, out, Tail(in)) < n
    BY DEF Awaits
  <2>1. PICK x \in Nat : ToComeBefore(i, out, in) = x + a /\ ToComeBefore(i, out, Tail(in)) = x + b
    BY <1>6
  <2>2. x + a < n
    BY <1>11, <2>1 DEF Awaits
  <2> QED
    BY <1>2, <1>4, <1>5, <1>11, <2>1, <2>2
<1> QED
  BY <1>8, <1>9, <1>10, <1>11

(* What is counted after one more.                                             *)
OneMore(M, q, s, x, v) ==
    /\ s \in Seq(M)
    /\ x # v => Cardinality(Places(s, v)) = Cardinality(Places(q, v))
    /\ x = v => Cardinality(Places(s, v)) = Cardinality(Places(q, v)) + 1

(* One more at the end counts so.                                              *)
LEMMA OneMoreCounts == \A M : \A q \in Seq(M) : \A x \in M : \A v : OneMore(M, q, q \o <<x>>, x, v)
<1> SUFFICES ASSUME NEW M, NEW q \in Seq(M), NEW x \in M, NEW v PROVE OneMore(M, q, q \o <<x>>, x, v)
  BY Zenon
<1> DEFINE s == q \o <<x>>
           last == Len(q) + 1
<1>1. /\ Len(q) \in Nat /\ DOMAIN q = 1 .. Len(q) /\ s \in Seq(M) /\ DOMAIN s = 1 .. last /\ s[last] = x
      /\ \A k \in 1 .. Len(q) : s[k] = q[k]
  OBVIOUS
<1> HIDE DEF s
<1>2. x # v => Places(s, v) = Places(q, v)
  BY <1>1 DEF Places
<1>3. x = v => Places(s, v) = Places(q, v) \cup {last} /\ last \notin Places(q, v)
  BY <1>1 DEF Places
<1>4. IsFiniteSet(Places(q, v))
  <2>1. 0 \in Int
    OBVIOUS
  <2> QED
    BY <2>1, Counted, Zenon
<1>5. x = v => Cardinality(Places(s, v)) = Cardinality(Places(q, v)) + 1
  BY <1>3, <1>4, FS_AddElement
<1> QED
  BY <1>1, <1>2, <1>5 DEF s, OneMore

(* The broker turns a heartbeat into an acknowledgement: behind it everything  *)
(* has as many to wait for as before.                                          *)
LEMMA HandlingCounts ==
    ASSUME NEW out \in Seq(Int), out # <<>>, NEW in \in Seq({"HEARTBEAT_ACK", "RESET"}), NEW S, NEW n \in Int,
           NEW r \in {<<>>, <<"RESET">>}
    PROVE  LET in2 == in \o r \o (IF Head(out) = HEARTBEAT THEN <<"HEARTBEAT_ACK">> ELSE <<>>)
           IN  /\ ToCome(Tail(out), in2) = ToCome(out, in)
               /\ Awaits(n, S, out, in) => Awaits(n, S, Tail(out), in2)
<1> DEFINE A == {"HEARTBEAT_ACK", "RESET"}
           h == IF Head(out) = HEARTBEAT THEN <<"HEARTBEAT_ACK">> ELSE <<>>
           in2 == in \o r \o h
           a == Cardinality(Places(in, "HEARTBEAT_ACK"))
           a2 == Cardinality(Places(in2, "HEARTBEAT_ACK"))
           P == Places(out, HEARTBEAT)
<1>1. /\ Tail(out) = SubSeq(out, 1 + 1, Len(out)) /\ 1 \in 0 .. Len(out) /\ 1 \in Int /\ 1 \in DOMAIN out /\ Head(out) = out[1]
      /\ Len(out) \in Nat /\ DOMAIN out = 1 .. Len(out)
      /\ \A j \in DOMAIN out : j \in Int /\ (1 < j \/ j = 1)
  <2>1. Len(out) \in Nat /\ DOMAIN out = 1 .. Len(out) /\ Len(out) # 0
    BY LenProperties, EmptySeq
  <2>2. 1 \in 0 .. Len(out) /\ 1 \in DOMAIN out /\ \A j \in DOMAIN out : j \in Int /\ (1 < j \/ j = 1)
    BY <2>1
  <2> QED
    BY <2>1, <2>2
<1>2. a \in Nat /\ a2 = IF Head(out) = HEARTBEAT THEN a + 1 ELSE a
  <2> DEFINE s == in \o r
  <2>1. s \in Seq(A) /\ Cardinality(Places(s, "HEARTBEAT_ACK")) = a
    <3>1. CASE r = <<>>
      <4>1. s = in
        BY <3>1
      <4> QED
        BY <4>1
    <3>2. CASE r = <<"RESET">>
      <4>1. "RESET" \in A /\ "RESET" # "HEARTBEAT_ACK"
        OBVIOUS
      <4>2. /\ in \o <<"RESET">> \in Seq(A)
            /\ Cardinality(Places(in \o <<"RESET">>, "HEARTBEAT_ACK")) = Cardinality(Places(in, "HEARTBEAT_ACK"))
        <5> HIDE DEF A
        <5>1. in \in Seq(A)
          BY DEF A
        <5>2. OneMore(A, in, in \o <<"RESET">>, "RESET", "HEARTBEAT_ACK")
          BY <4>1, <5>1, OneMoreCounts, Zenon
        <5> QED
          BY <4>1, <5>2 DEF OneMore
      <4> QED
        BY <3>2, <4>2
    <3> QED
      BY <3>1, <3>2
  <2>2. a \in Nat
    BY <1>1, Counted, Zenon
  <2> HIDE DEF s, a
  <2>3. CASE Head(out) = HEARTBEAT
    <3>1. "HEARTBEAT_ACK" \in A
      OBVIOUS
    <3> HIDE DEF A
    <3>2. Cardinality(Places(s \o <<"HEARTBEAT_ACK">>, "HEARTBEAT_ACK")) = Cardinality(Places(s, "HEARTBEAT_ACK")) + 1
      <4>1. OneMore(A, s, s \o <<"HEARTBEAT_ACK">>, "HEARTBEAT_ACK", "HEARTBEAT_ACK")
        BY <2>1, <3>1, OneMoreCounts, Zenon
      <4> QED
        BY <4>1 DEF OneMore
    <3>3. in2 = s \o <<"HEARTBEAT_ACK">>
      BY <2>3 DEF s
    <3> QED
      BY Zenon, <2>1, <2>2, <2>3, <3>2, <3>3
  <2>4. CASE Head(out) # HEARTBEAT
    <3>1. in2 = s \o <<>>
      BY <2>4 DEF s
    <3>2. s \o <<>> = s
      BY <2>1
    <3> QED
      BY Zenon, <2>1, <2>2, <2>4, <3>1, <3>2
  <2> QED
    BY <2>3, <2>4
<1> HIDE DEF in2
<1>3. ASSUME NEW i \in Int PROVE RestCounts(Int, out, 1, Tail(out), HEARTBEAT, i)
  <2>1. RestCounts(Int, out, 1, SubSeq(out, 1 + 1, Len(out)), HEARTBEAT, i)
    BY <1>1, CountedInRest, Zenon
  <2> QED
    BY <1>1, <2>1, Zenon
<1>4. ToCome(Tail(out), in2) = ToCome(out, in)
  <2> DEFINE p == Cardinality(P)
             p2 == Cardinality(Places(Tail(out), HEARTBEAT))
  <2>1. p2 = Cardinality({j \in P : 1 < j}) /\ IsFiniteSet(P) /\ p \in Nat
    <3>1. IsFiniteSet(P) /\ p \in Nat
      BY <1>1, Counted, Zenon
    <3>2. RestCounts(Int, out, 1, Tail(out), HEARTBEAT, 1)
      BY <1>1, <1>3, Zenon
    <3> QED
      BY <3>1, <3>2 DEF RestCounts
  <2>2. {j \in P : 1 < j} = P \ {1} /\ (1 \in P <=> Head(out) = HEARTBEAT)
    BY <1>1 DEF Places
  <2> HIDE DEF P
  <2>3. p2 = IF Head(out) = HEARTBEAT THEN p - 1 ELSE p
    BY Zenon, <2>1, <2>2, FS_RemoveElement
  <2>4. ToCome(Tail(out), in2) = p2 + a2 /\ ToCome(out, in) = p + a
    BY CountsArePlaces, Zenon DEF P
  <2> HIDE DEF p, p2, a, a2
  <2> QED
    BY <1>2, <2>1, <2>3, <2>4
<1>5. ASSUME NEW i \in DOMAIN Tail(out)
      PROVE  /\ i + 1 \in DOMAIN out /\ Tail(out)[i] = out[i + 1]
             /\ ToComeBefore(i, Tail(out), in2) = ToComeBefore(i + 1, out, in)
  <2> DEFINE B == PlacesBefore(i + 1, out, HEARTBEAT)
             p == Cardinality(B)
             p2 == Cardinality(PlacesBefore(i, Tail(out), HEARTBEAT))
  <2>1. i \in Int /\ i + 1 \in Int /\ 1 < i + 1
    <3>1. RestCounts(Int, out, 1, Tail(out), HEARTBEAT, 1)
      BY <1>1, <1>3, Zenon
    <3>2. i \in 1 .. Len(out) - 1
      BY <3>1 DEF RestCounts
    <3> QED
      BY <1>1, <3>2
  <2>2. i + 1 \in DOMAIN out /\ Tail(out)[i] = out[i + 1] /\ p2 = Cardinality({j \in B : 1 < j})
    <3>1. RestCounts(Int, out, 1, Tail(out), HEARTBEAT, i)
      BY <1>3, <2>1, Zenon
    <3> QED
      BY <3>1 DEF RestCounts
  <2>3. IsFiniteSet(B) /\ p \in Nat
    BY <2>1, Counted, Zenon
  <2>4. {j \in B : 1 < j} = B \ {1} /\ (1 \in B <=> Head(out) = HEARTBEAT)
    BY <1>1, <2>1 DEF Places, PlacesBefore
  <2> HIDE DEF B
  <2>5. p2 = IF Head(out) = HEARTBEAT THEN p - 1 ELSE p
    BY Zenon, <2>2, <2>3, <2>4, FS_RemoveElement
  <2>6. ToComeBefore(i, Tail(out), in2) = p2 + a2 /\ ToComeBefore(i + 1, out, in) = p + a
    BY CountsArePlaces, Zenon DEF B
  <2> HIDE DEF p, p2, a, a2
  <2>7. ToComeBefore(i, Tail(out), in2) = ToComeBefore(i + 1, out, in)
    BY <1>2, <2>3, <2>5, <2>6
  <2> QED
    BY <2>2, <2>7
<1>6. Awaits(n, S, out, in) => Awaits(n, S, Tail(out), in2)
  <2> HIDE DEF a, a2, P
  <2> QED
    BY <1>5 DEF Awaits
<1> QED
  BY <1>4, <1>6 DEF in2

--------------------------------------------------------------------------------
(* What a call waits for.  What goes into the pipe is part of what was to go,  *)
(* and so is what is refused.                                                  *)
LEMMA SentFrom ==
    ASSUME WorkerTypeOK, NEW q \in Seq(Accepted)
    PROVE  Fitting(q) \in Seq(Accepted) /\ Range(Fitting(q)) \subseteq Range(q) /\ Range(Refused(q)) \subseteq Range(q)
<1> DEFINE f == Len(Fitting(q))
<1>1. /\ f \in 0 .. Len(q)
      /\ Fitting(q) \in Seq(Accepted) /\ \A i \in 1 .. f : Fitting(q)[i] = q[i]
      /\ Refused(q) \in Seq(Accepted) /\ Len(Refused(q)) = Len(q) - f
      /\ \A i \in 1 .. Len(q) - f : Refused(q)[i] = q[i + f]
  BY Sent
<1>2. /\ Len(q) \in Nat /\ DOMAIN q = 1 .. Len(q) /\ DOMAIN Fitting(q) = 1 .. f /\ DOMAIN Refused(q) = 1 .. Len(q) - f
  BY <1>1, LenProperties
<1> HIDE DEF f
<1>3. (\A i \in 1 .. f : i \in DOMAIN q) /\ (\A i \in 1 .. Len(q) - f : i + f \in DOMAIN q)
  BY <1>1, <1>2
<1> QED
  BY Zenon, <1>1, <1>2, <1>3 DEF Range

(* Nothing is waited for longer, nothing that was covered is uncovered, and    *)
(* the loop has not come to ask the queues: sync stays as it is.               *)
Undisturbed ==
    /\ UNCHANGED <<unanswered, m_syncTarget, sync, before, stray>> /\ Accepted \subseteq Accepted'
    /\ before \cap Waiting' \subseteq Waiting
    /\ \A n \in Int : before \cap Waiting = {} /\ Awaits(n, before, pipe, back) => Awaits(n, before, pipe', back')
    /\ ToCome(pipe', back') <= ToCome(pipe, back)
    /\ ToCome(pipe', back') \in Int /\ ToCome(pipe, back) \in Int
    /\ pc' # "gate" => batch' = <<>>
    /\ \/ pc' = pc /\ Range(m_dataQueue) \subseteq Range(m_dataQueue')
       \/ pc' \notin {"ask", "take", "beat", "target"}

(* Such a step keeps the invariant.                                            *)
LEMMA UndisturbedKeeps == SyncInv /\ Undisturbed => SyncInv'
<1> SUFFICES ASSUME SyncInv, Undisturbed PROVE SyncInv'
  OBVIOUS
<1>1. SyncTypeOK'
  BY DEF SyncInv, SyncTypeOK, Undisturbed
<1>2. ToCome(pipe, back)' <= unanswered'
  BY DEF SyncInv, SyncTypeOK, Undisturbed
<1>3. (sync.at = "idle" => sync.target = NoTarget)' /\ (pc # "gate" => batch = <<>>)'
  BY DEF SyncInv, Undisturbed
<1>4. ASSUME sync'.at # "idle", ~ stray'
      PROVE  /\ pc' = "ask" => before' \cap (Waiting' \ Range(m_dataQueue')) = {}
             /\ pc' \in {"take", "beat", "target"} => before' \cap Waiting' = {}
             /\ pc' = "target" => Covers(unanswered)'
             /\ m_syncTarget' # NoTarget => Covers(m_syncTarget)'
             /\ sync'.target # NoTarget => Covers(sync.target)'
  <2>1. sync.at # "idle" /\ ~ stray
    BY <1>4 DEF Undisturbed
  <2>2. ASSUME NEW n \in Int, Covers(n) PROVE before' \cap Waiting' = {} /\ Awaits(n, before', pipe', back')
    BY <2>2 DEF Covers, Undisturbed
  <2>3. pc' = "ask" => before' \cap (Waiting' \ Range(m_dataQueue')) = {}
    BY <2>1 DEF SyncInv, Undisturbed
  <2>4. pc' \in {"take", "beat", "target"} => before' \cap Waiting' = {}
    BY <2>1 DEF SyncInv, Undisturbed
  <2>5. pc' = "target" => Covers(unanswered)'
    <3> SUFFICES ASSUME pc' = "target" PROVE Covers(unanswered)'
      OBVIOUS
    <3>1. unanswered \in Int /\ unanswered' = unanswered /\ Covers(unanswered)
      BY <2>1 DEF SyncInv, SyncTypeOK, Undisturbed
    <3> QED
      BY <2>2, <3>1 DEF Covers
  <2>6. m_syncTarget' # NoTarget => Covers(m_syncTarget)'
    <3> SUFFICES ASSUME m_syncTarget' # NoTarget PROVE Covers(m_syncTarget)'
      OBVIOUS
    <3>1. m_syncTarget \in Int /\ m_syncTarget' = m_syncTarget /\ Covers(m_syncTarget)
      BY <2>1 DEF SyncInv, SyncTypeOK, Undisturbed
    <3> QED
      BY <2>2, <3>1 DEF Covers
  <2>7. sync'.target # NoTarget => Covers(sync.target)'
    <3> SUFFICES ASSUME sync'.target # NoTarget PROVE Covers(sync.target)'
      OBVIOUS
    <3>1. sync.target \in Int /\ sync' = sync /\ Covers(sync.target)
      BY <2>1 DEF SyncInv, SyncTypeOK, Undisturbed
    <3> QED
      BY <2>2, <3>1 DEF Covers
  <2> QED
    BY <2>3, <2>4, <2>5, <2>6, <2>7
<1> QED
  BY <1>1, <1>2, <1>3, <1>4 DEF SyncInv

(* What the types say of the wire.                                             *)
LEMMA WireTypes ==
    ASSUME OrderInv, SyncInv
    PROVE  /\ WorkerTypeOK /\ pipe \in Seq(Int) /\ back \in Seq({"HEARTBEAT_ACK", "RESET"})
           /\ ToCome(pipe, back) \in Nat /\ unanswered \in Nat
           /\ HEARTBEAT \notin before /\ queued \in Nat /\ before \subseteq 1 .. queued
<1>1. WorkerTypeOK /\ queued \in Nat /\ before \subseteq 1 .. queued
  BY WorkerAssumption DEF OrderInv, WorkerTypeOK, SyncInv, SyncTypeOK, Accepted
<1>2. Accepted \cup Signals \subseteq Int
  BY <1>1 DEF Accepted, Signals, CONNECT, HEARTBEAT
<1>3. pipe \in Seq(Int) /\ back \in Seq({"HEARTBEAT_ACK", "RESET"})
  BY <1>1, <1>2, SeqGrows DEF WorkerTypeOK
<1>4. HEARTBEAT \notin before
  BY <1>1 DEF HEARTBEAT
<1>5. ToCome(pipe, back) \in Nat
  <2>1. 0 \in Int
    OBVIOUS
  <2> QED
    BY <1>3, <1>4, <2>1, BeatBehind
<1>6. unanswered \in Nat
  BY <1>5 DEF SyncInv, SyncTypeOK
<1> QED
  BY <1>1, <1>3, <1>4, <1>5, <1>6

(* Messages that go from where they wait into the pipe disturb no call.        *)
LEMMA MovesKeepSync ==
    ASSUME OrderInv, SyncInv, NEW q \in Seq(Accepted), Range(q) \subseteq Waiting, SendBatch(q), Waiting' \subseteq Waiting,
           UNCHANGED <<back, unanswered, m_syncTarget, sync, before, stray, queued>>,
           pc' \notin {"ask", "take", "beat", "target"}, pc' # "gate" => batch' = <<>>
    PROVE  SyncInv'
<1> DEFINE f == Fitting(q)
<1>1. /\ WorkerTypeOK /\ pipe \in Seq(Int) /\ ToCome(pipe, back) \in Nat /\ queued \in Nat
  BY WireTypes
<1>2. f \in Seq(Accepted) /\ Range(f) \subseteq Waiting /\ pipe' = pipe \o f
  BY <1>1, SentFrom DEF SendBatch
<1> HIDE DEF f
<1>3. f \in Seq(Int) /\ \A k \in DOMAIN f : f[k] # HEARTBEAT
  <2>1. Accepted \subseteq Int /\ HEARTBEAT \notin Accepted
    BY <1>1 DEF Accepted, HEARTBEAT
  <2>2. \A k \in DOMAIN f : f[k] \in Accepted
    BY <1>2, LenProperties, ElementOfSeq
  <2> QED
    BY Zenon, <1>2, <2>1, <2>2, SeqGrows
<1>4. ToCome(pipe', back') = ToCome(pipe, back)
  <2>1. \A k \in DOMAIN f : f[k] # HEARTBEAT /\ f[k] \notin {}
    BY <1>3
  <2>2. /\ ToCome(pipe \o f, back) = ToCome(pipe, back)
        /\ Awaits(0, {}, pipe, back) => Awaits(0, {}, pipe \o f, back)
    BY <1>1, <1>3, <2>1, WaitsBehind, Zenon
  <2> QED
    BY <1>2, <2>2
<1>5. ASSUME NEW n \in Int, before \cap Waiting = {}, Awaits(n, before, pipe, back) PROVE Awaits(n, before, pipe', back')
  <2>1. \A k \in DOMAIN f : f[k] # HEARTBEAT /\ f[k] \notin before
    BY <1>2, <1>3, <1>5 DEF Range
  <2>2. Awaits(n, before, pipe \o f, back)
    BY <1>1, <1>3, <1>5, <2>1, WaitsBehind, Zenon
  <2> QED
    BY <1>2, <2>2
<1>6. Undisturbed
  BY <1>1, <1>4, <1>5 DEF Undisturbed, Accepted
<1> QED
  BY <1>6, UndisturbedKeeps

(* What is kept of two lists comes from them.                                  *)
LEMMA KeptOfJoined ==
    ASSUME NEW M, NEW q \in Seq(M), NEW r \in Seq(M), NEW limit \in Nat
    PROVE  Range(Kept(q \o r, limit)) \subseteq Range(q) \cup Range(r)
<1> DEFINE s == q \o r
           kept == Kept(s, limit)
<1>1. /\ s \in Seq(M) /\ Len(s) = Len(q) + Len(r) /\ \A i \in 1 .. Len(q) : s[i] = q[i]
      /\ \A i \in 1 .. Len(q) + Len(r) : i \in 1 .. Len(q) \/ (i - Len(q) \in 1 .. Len(r) /\ s[i] = r[i - Len(q)])
  BY Zenon, Joined
<1> HIDE DEF s
<1>2. PICK d \in 0 .. Len(s) : /\ kept \in Seq(M) /\ Len(kept) = Len(s) - d
                               /\ \A i \in 1 .. Len(s) - d : kept[i] = s[i + d]
                               /\ Len(s) <= limit => d = 0
  BY Zenon, <1>1, KeptIs
<1> HIDE DEF kept
<1>3. /\ Len(s) \in Nat /\ DOMAIN s = 1 .. Len(s) /\ DOMAIN kept = 1 .. Len(s) - d
      /\ DOMAIN q = 1 .. Len(q) /\ DOMAIN r = 1 .. Len(r)
  BY <1>1, <1>2, LenProperties
<1>4. \A i \in DOMAIN kept : i + d \in 1 .. Len(s)
  BY <1>2, <1>3
<1>5. \A i \in 1 .. Len(s) : s[i] \in Range(q) \cup Range(r)
  BY <1>1, <1>3, Zenon DEF Range
<1>6. Range(kept) \subseteq Range(q) \cup Range(r)
  BY <1>2, <1>3, <1>4, <1>5 DEF Range
<1> QED
  BY <1>6 DEF kept, s

(* No step makes a call of sync wait for less than it should.                  *)
LEMMA SyncKeeps == OrderInv /\ SyncInv /\ [Next]_vars => SyncInv'
<1> SUFFICES ASSUME OrderInv, SyncInv, [Next]_vars PROVE SyncInv'
  OBVIOUS
<1>1. /\ WorkerTypeOK /\ pipe \in Seq(Int) /\ back \in Seq({"HEARTBEAT_ACK", "RESET"})
      /\ ToCome(pipe, back) \in Nat /\ unanswered \in Nat
      /\ HEARTBEAT \notin before /\ queued \in Nat /\ before \subseteq 1 .. queued
  BY WireTypes
<1>2. /\ m_controlQueue \in Seq(Accepted) /\ m_dataQueue \in Seq(Accepted) /\ controlBacklog \in Seq(Accepted)
      /\ dataBacklog \in Seq(Accepted) /\ batch \in Seq(Accepted) /\ <<>> \in Seq(Accepted)
  <2>1. control \subseteq Accepted /\ Accepted \ control \subseteq Accepted
    BY <1>1 DEF WorkerTypeOK
  <2> QED
    BY <1>1, <2>1, SeqGrows DEF WorkerTypeOK
<1>3. Range(<<>>) = {}
  BY DEF Range
<1>4. SyncTypeOK /\ (pc # "gate" => batch = <<>>)
  BY DEF SyncInv
<1>5. CASE UNCHANGED vars
  <2>1. UNCHANGED <<queued, m_controlQueue, m_dataQueue, controlBacklog, dataBacklog, batch, pipe, back, pc,
                    unanswered, m_syncTarget, sync, before, stray>>
    BY <1>5 DEF vars, queueVars, loopVars, wireVars, syncVars
  <2>2. Waiting' = Waiting /\ Accepted' = Accepted
    BY <2>1 DEF Waiting, Accepted
  <2>3. Undisturbed
    BY <1>1, <1>4, <2>1, <2>2 DEF Undisturbed
  <2> QED
    BY <2>3, UndisturbedKeeps
<1>6. CASE writeControlMessage \/ writeMessage
  <2>1. /\ UNCHANGED <<controlBacklog, dataBacklog, batch, pipe, back, pc, unanswered, m_syncTarget, sync, before, stray>>
        /\ queued' = queued + 1
        /\ \/ m_controlQueue' = Append(m_controlQueue, queued + 1) /\ m_dataQueue' = m_dataQueue
           \/ m_dataQueue' = Append(m_dataQueue, queued + 1) /\ m_controlQueue' = m_controlQueue
    BY <1>6 DEF writeControlMessage, writeMessage, loopVars, syncVars, wireVars
  <2>2. \A q \in Seq(Accepted) : Range(Append(q, queued + 1)) = Range(q) \cup {queued + 1}
    <3> SUFFICES ASSUME NEW q \in Seq(Accepted) PROVE Range(Append(q, queued + 1)) = Range(q) \cup {queued + 1}
      OBVIOUS
    <3> DEFINE s == Append(q, queued + 1)
               last == Len(q) + 1
    <3>1. /\ Len(q) \in Nat /\ DOMAIN q = 1 .. Len(q) /\ DOMAIN s = 1 .. last /\ s[last] = queued + 1
          /\ \A k \in 1 .. Len(q) : s[k] = q[k]
      OBVIOUS
    <3>2. DOMAIN s = DOMAIN q \cup {last} /\ \A k \in DOMAIN q : s[k] = q[k]
      BY <3>1
    <3> HIDE DEF s
    <3>3. Range(s) = Range(q) \cup {queued + 1}
      BY <3>1, <3>2 DEF Range
    <3> QED
      BY <3>3 DEF s
  <2>3. /\ Range(m_controlQueue') \subseteq Range(m_controlQueue) \cup {queued + 1}
        /\ Range(m_dataQueue') \subseteq Range(m_dataQueue) \cup {queued + 1} /\ Range(m_dataQueue) \subseteq Range(m_dataQueue')
    BY Zenon, <1>2, <2>1, <2>2
  <2>4. Waiting' \subseteq Waiting \cup {queued + 1}
    <3>1. Waiting' = Range(m_controlQueue') \cup Range(m_dataQueue') \cup Range(controlBacklog) \cup Range(dataBacklog) \cup Range(batch)
      BY <2>1 DEF Waiting
    <3> QED
      BY <2>3, <3>1, WaitingIs
  <2>5. queued + 1 \notin before /\ Accepted \subseteq Accepted'
    BY <1>1, <2>1 DEF Accepted
  <2>6. Undisturbed
    BY <1>1, <1>4, <2>1, <2>3, <2>4, <2>5 DEF Undisturbed
  <2> QED
    BY <2>6, UndisturbedKeeps
<1>7. CASE Stop
  <2>1. UNCHANGED <<queued, m_controlQueue, m_dataQueue, controlBacklog, dataBacklog, batch, pipe, back, pc,
                    unanswered, m_syncTarget, sync, before, stray>>
    BY <1>7 DEF Stop, queueVars, loopVars, wireVars, syncVars
  <2>2. Waiting' = Waiting /\ Accepted' = Accepted
    BY <2>1 DEF Waiting, Accepted
  <2>3. Undisturbed
    BY <1>1, <1>4, <2>1, <2>2 DEF Undisturbed
  <2> QED
    BY <2>3, UndisturbedKeeps
<1>8. CASE BrokerHandles
  <2> DEFINE h == IF Head(pipe) = HEARTBEAT THEN <<"HEARTBEAT_ACK">> ELSE <<>>
  <2>1. UNCHANGED <<queued, m_controlQueue, m_dataQueue, controlBacklog, dataBacklog, batch, pc,
                    unanswered, m_syncTarget, sync, before, stray>>
    BY <1>8 DEF BrokerHandles, queueVars, loopVars, syncVars
  <2>2. pipe # <<>> /\ pipe' = Tail(pipe) /\ \E r \in {<<>>, <<"RESET">>} : back' = back \o r \o h
    BY Zenon, <1>8 DEF BrokerHandles
  <2>3. PICK r \in {<<>>, <<"RESET">>} : back' = back \o r \o h
    BY Zenon, <2>2
  <2>4. Waiting' = Waiting /\ Accepted' = Accepted
    BY <2>1 DEF Waiting, Accepted
  <2>5. ToCome(pipe', back') = ToCome(pipe, back)
    <3>1. 0 \in Int
      OBVIOUS
    <3>2. ToCome(Tail(pipe), back \o r \o h) = ToCome(pipe, back)
      BY Zenon, <1>1, <2>2, <2>3, <3>1, HandlingCounts
    <3> QED
      BY <2>2, <2>3, <3>2
  <2>6. ASSUME NEW n \in Int, Awaits(n, before, pipe, back) PROVE Awaits(n, before, pipe', back')
    <3>1. Awaits(n, before, Tail(pipe), back \o r \o h)
      BY Zenon, <1>1, <2>2, <2>3, <2>6, HandlingCounts
    <3> QED
      BY Zenon, <2>2, <2>3, <3>1
  <2> HIDE DEF h
  <2>7. Undisturbed
    BY <1>1, <1>4, <2>1, <2>4, <2>5, <2>6 DEF Undisturbed
  <2> QED
    BY <2>7, UndisturbedKeeps
<1>9. CASE BrokerRestarts
  <2>1. UNCHANGED <<queued, m_controlQueue, m_dataQueue, controlBacklog, dataBacklog, batch, pc,
                    unanswered, m_syncTarget, sync, before, stray>>
    BY <1>9 DEF BrokerRestarts, queueVars, loopVars, syncVars
  <2>2. PICK d \in 0 .. Len(pipe) : pipe' = SubSeq(pipe, d + 1, Len(pipe))
    BY <1>9 DEF BrokerRestarts
  <2>3. back' = <<>>
    BY <1>9 DEF BrokerRestarts
  <2>4. Waiting' = Waiting /\ Accepted' = Accepted
    BY <2>1 DEF Waiting, Accepted
  <2>5. ASSUME NEW n \in Int
        PROVE  /\ ToCome(pipe', back') <= ToCome(pipe, back)
               /\ Awaits(n, before, pipe, back) => Awaits(n, before, pipe', back')
    BY <1>1, <2>2, <2>3, WaitsNoMore
  <2>6. ToCome(pipe', back') \in Int /\ ToCome(pipe', back') <= ToCome(pipe, back)
    <3>1. 0 \in Int
      OBVIOUS
    <3>2. pipe' \in Seq(Int) /\ back' \in Seq({"HEARTBEAT_ACK", "RESET"})
      BY <1>1, <2>2, <2>3, Cut, LenProperties
    <3>3. ToCome(pipe', back') \in Nat
      BY <1>1, <3>1, <3>2, BeatBehind
    <3> QED
      BY <2>5, <3>1, <3>3
  <2>7. Undisturbed
    BY <1>1, <1>4, <2>1, <2>4, <2>5, <2>6 DEF Undisturbed
  <2> QED
    BY <2>7, UndisturbedKeeps
<1>10. CASE Start
  <2>1. UNCHANGED <<queued, m_controlQueue, m_dataQueue, controlBacklog, dataBacklog, batch,
                    unanswered, m_syncTarget, sync, before, stray>>
    BY <1>10 DEF Start, queueVars, syncVars
  <2>2. pipe' = <<CONNECT>> /\ back' = <<>> /\ pc' = "poll" /\ pc = "stopped"
    BY <1>10 DEF Start
  <2>3. Waiting' = Waiting /\ Accepted' = Accepted
    BY <2>1 DEF Waiting, Accepted
  <2>4. DOMAIN pipe' = {1} /\ pipe'[1] = CONNECT /\ CONNECT # HEARTBEAT /\ CONNECT \notin before
    BY <1>1, <2>2 DEF CONNECT, HEARTBEAT
  <2>5. ToCome(pipe', back') = 0
    <3>1. Heartbeats(pipe') = {} /\ Acks(back') = {}
      BY <2>2, <2>4 DEF Heartbeats, Acks
    <3> QED
      BY <3>1, FS_EmptySet DEF ToCome
  <2>6. \A n \in Int : Awaits(n, before, pipe', back')
    BY <2>4 DEF Awaits
  <2>7. Undisturbed
    BY <1>1, <1>4, <2>1, <2>2, <2>3, <2>5, <2>6 DEF Undisturbed
  <2> QED
    BY <2>7, UndisturbedKeeps
<1>11. CASE DrainControl \/ FinalDrain
  <2> DEFINE waiting == controlBacklog \o m_controlQueue
             kept == Kept(waiting, CONTROL_BACKLOG_LIMIT)
             both == Range(controlBacklog) \cup Range(m_controlQueue)
  <2>1. /\ UNCHANGED <<queued, m_dataQueue, batch, dataBacklog, back, unanswered, m_syncTarget, sync, before, stray>>
        /\ m_controlQueue' = <<>> /\ pc # "gate" /\ pc' \notin {"ask", "take", "beat", "target"}
        /\ \/ SendBatch(kept) /\ controlBacklog' = Refused(kept)
           \/ SendBatch(waiting) /\ controlBacklog' = Refused(waiting)
    BY <1>11 DEF DrainControl, FinalDrain, syncVars
  <2>2. kept \in Seq(control) /\ Range(kept) \subseteq both
    BY ControlKept, WorkerAssumption
  <2>3. waiting \in Seq(control) /\ Range(waiting) = both
    BY ControlWaiting
  <2> HIDE DEF kept, waiting
  <2>4. PICK q \in Seq(control) : Range(q) \subseteq both /\ SendBatch(q) /\ controlBacklog' = Refused(q)
    BY <2>1, <2>2, <2>3
  <2>5. q \in Seq(Accepted) /\ both \subseteq Waiting
    BY <1>1, WaitingIs, SeqGrows DEF WorkerTypeOK
  <2>6. Range(controlBacklog') \subseteq both
    BY <1>1, <2>4, <2>5, SentFrom
  <2>7. Waiting' \subseteq Waiting
    <3>1. Waiting' = Range(<<>>) \cup Range(m_dataQueue) \cup Range(controlBacklog') \cup Range(dataBacklog) \cup Range(batch)
      BY <2>1 DEF Waiting
    <3> QED
      BY <1>3, <2>6, <3>1, WaitingIs
  <2> QED
    BY <1>4, <2>1, <2>4, <2>5, <2>7, MovesKeepSync
<1>12. CASE Flush
  <2>1. /\ UNCHANGED <<queued, m_controlQueue, m_dataQueue, batch, back, unanswered, m_syncTarget, sync, before, stray>>
        /\ pc = "flush" /\ pc' \notin {"ask", "take", "beat", "target", "gate"}
    BY <1>12 DEF Flush, queueVars, syncVars
  <2>2. CASE SendBatch(controlBacklog) /\ controlBacklog' = Refused(controlBacklog) /\ UNCHANGED dataBacklog
    <3>1. Range(controlBacklog') \subseteq Range(controlBacklog)
      BY <1>1, <1>2, <2>2, SentFrom
    <3>2. Waiting' \subseteq Waiting /\ Range(controlBacklog) \subseteq Waiting
      <4>1. Waiting' = Range(m_controlQueue) \cup Range(m_dataQueue) \cup Range(controlBacklog') \cup Range(dataBacklog) \cup Range(batch)
        BY <2>1, <2>2 DEF Waiting
      <4> QED
        BY <3>1, <4>1, WaitingIs
    <3> QED
      BY <1>2, <1>4, <2>1, <2>2, <3>2, MovesKeepSync
  <2>3. CASE controlBacklog' = <<>> /\ dataBacklog' = <<>> /\ UNCHANGED pipe
    <3>1. Waiting' \subseteq Waiting
      <4>1. Waiting' = Range(m_controlQueue) \cup Range(m_dataQueue) \cup Range(<<>>) \cup Range(<<>>) \cup Range(batch)
        BY <2>1, <2>3 DEF Waiting
      <4> QED
        BY <1>3, <4>1, WaitingIs
    <3>2. Undisturbed
      BY <1>1, <1>4, <2>1, <2>3, <3>1 DEF Undisturbed, Accepted
    <3> QED
      BY <3>2, UndisturbedKeeps
  <2> QED
    BY <1>12, <2>2, <2>3 DEF Flush
<1>13. CASE DrainData
  <2>1. /\ UNCHANGED <<queued, m_controlQueue, controlBacklog, dataBacklog, pipe, back, unanswered, m_syncTarget, sync, before, stray>>
        /\ pc = "data" /\ pc' \notin {"ask", "take", "beat", "target"}
    BY Zenon, <1>13 DEF DrainData, wireVars, syncVars
  <2>2. \/ UNCHANGED <<batch, m_dataQueue>>
        \/ batch' = m_dataQueue /\ m_dataQueue' = <<>> /\ (pc' # "gate" => m_dataQueue = <<>>)
    BY <1>13 DEF DrainData
  <2>3. pc' # "gate" => batch' = <<>>
    BY <1>4, <2>1, <2>2
  <2>4. Waiting' \subseteq Waiting
    <3>1. Waiting' = Range(m_controlQueue) \cup Range(m_dataQueue') \cup Range(controlBacklog) \cup Range(dataBacklog) \cup Range(batch')
      BY <2>1 DEF Waiting
    <3> QED
      BY <1>3, <2>2, <3>1, WaitingIs
  <2>5. Undisturbed
    BY <1>1, <2>1, <2>3, <2>4 DEF Undisturbed, Accepted
  <2> QED
    BY <2>5, UndisturbedKeeps
<1>14. CASE Gate
  <2>1. /\ UNCHANGED <<queued, m_controlQueue, m_dataQueue, controlBacklog, back, unanswered, m_syncTarget, sync, before, stray>>
        /\ batch' = <<>> /\ pc' \notin {"ask", "take", "beat", "target"}
    BY <1>14 DEF Gate, queueVars, syncVars
  <2>2. Waiting' = Range(m_controlQueue) \cup Range(m_dataQueue) \cup Range(controlBacklog) \cup Range(dataBacklog') \cup Range(<<>>)
    BY <2>1 DEF Waiting
  <2>3. CASE SendBatch(batch) /\ UNCHANGED dataBacklog
    <3>1. Waiting' \subseteq Waiting /\ Range(batch) \subseteq Waiting
      BY <1>3, <2>2, <2>3, WaitingIs
    <3> QED
      BY <1>2, <2>1, <2>3, <3>1, MovesKeepSync
  <2>4. CASE dataBacklog' = Kept(dataBacklog \o batch, DATA_BACKLOG_LIMIT) /\ UNCHANGED pipe
    <3>1. Range(dataBacklog') \subseteq Range(dataBacklog) \cup Range(batch)
      BY <1>2, <2>4, KeptOfJoined, WorkerAssumption
    <3>2. Waiting' \subseteq Waiting
      BY <1>3, <2>2, <3>1, WaitingIs
    <3>3. Undisturbed
      BY <1>1, <2>1, <2>4, <3>2 DEF Undisturbed, Accepted
    <3> QED
      BY <3>3, UndisturbedKeeps
  <2> QED
    BY <1>14, <2>3, <2>4 DEF Gate
<1>15. CASE SendBacklog
  <2>1. /\ UNCHANGED <<queued, m_controlQueue, m_dataQueue, controlBacklog, batch, back, unanswered, m_syncTarget, sync, before, stray>>
        /\ pc = "backlog" /\ pc' \notin {"ask", "take", "beat", "target"}
    BY <1>15 DEF SendBacklog, queueVars, syncVars
  <2>2. Waiting' = Range(m_controlQueue) \cup Range(m_dataQueue) \cup Range(controlBacklog) \cup Range(dataBacklog') \cup Range(batch)
    BY <2>1 DEF Waiting
  <2>3. CASE SendBatch(dataBacklog) /\ dataBacklog' = <<>>
    <3>1. Waiting' \subseteq Waiting /\ Range(dataBacklog) \subseteq Waiting
      BY <1>3, <2>2, <2>3, WaitingIs
    <3> QED
      BY <1>2, <1>4, <2>1, <2>3, <3>1, MovesKeepSync
  <2>4. CASE UNCHANGED <<dataBacklog, pipe>>
    <3>1. Waiting' \subseteq Waiting
      BY <2>2, <2>4, WaitingIs
    <3>2. Undisturbed
      BY <1>1, <1>4, <2>1, <2>4, <3>1 DEF Undisturbed, Accepted
    <3> QED
      BY <3>2, UndisturbedKeeps
  <2> QED
    BY <1>15, <2>3, <2>4 DEF SendBacklog
<1>16. CASE DrainEncoded
  <2>1. /\ UNCHANGED <<queued, m_controlQueue, dataBacklog, controlBacklog, batch, back, unanswered, m_syncTarget, sync, before, stray>>
        /\ pc = "encoded" /\ pc' \notin {"ask", "take", "beat", "target"} /\ SendBatch(m_dataQueue) /\ m_dataQueue' = <<>>
    BY <1>16 DEF DrainEncoded, loopVars, syncVars
  <2>2. Waiting' = Range(m_controlQueue) \cup Range(<<>>) \cup Range(controlBacklog) \cup Range(dataBacklog) \cup Range(batch)
    BY <2>1 DEF Waiting
  <2>3. Waiting' \subseteq Waiting /\ Range(m_dataQueue) \subseteq Waiting
    BY <1>3, <2>2, WaitingIs
  <2> QED
    BY <1>2, <1>4, <2>1, <2>3, MovesKeepSync
<1>17. CASE AskControl \/ AskData \/ TakeRequest
  <2>1. UNCHANGED <<queued, m_controlQueue, m_dataQueue, controlBacklog, dataBacklog, batch, pipe, back,
                    unanswered, m_syncTarget, sync, before, stray>>
    BY <1>17 DEF AskControl, AskData, TakeRequest, queueVars, loopVars, wireVars, syncVars
  <2>2. Waiting' = Waiting /\ Accepted' = Accepted
    BY <2>1 DEF Waiting, Accepted
  <2>3. pc # "gate" /\ pc' \in {"ask", "take", "beat", "tail"}
    BY <1>17 DEF AskControl, AskData, TakeRequest
  <2>4. pc' = "ask" => Waiting \ Range(m_dataQueue) = {}
    <3> SUFFICES ASSUME pc' = "ask" PROVE Waiting \ Range(m_dataQueue) = {}
      OBVIOUS
    <3>1. controlBacklog = <<>> /\ m_controlQueue = <<>> /\ dataBacklog = <<>> /\ batch = <<>>
      BY <1>4, <1>17, <2>3 DEF AskControl, AskData, TakeRequest, ControlIsOut
    <3>2. Waiting = Range(<<>>) \cup Range(m_dataQueue) \cup Range(<<>>) \cup Range(<<>>) \cup Range(<<>>)
      BY <3>1, WaitingIs
    <3> QED
      BY <1>3, <3>2
  <2>5. ASSUME sync.at # "idle", ~ stray, pc' \in {"take", "beat"} PROVE before \cap Waiting = {}
    <3>1. (pc = "ask" /\ m_dataQueue = <<>>) \/ pc = "take"
      BY <1>17, <2>5 DEF AskControl, AskData, TakeRequest
    <3>2. (pc = "ask" => before \cap (Waiting \ Range(m_dataQueue)) = {}) /\ (pc = "take" => before \cap Waiting = {})
      BY <2>5 DEF SyncInv
    <3> QED
      BY <1>3, <3>1, <3>2
  <2>6. (pc # "gate" => batch = <<>>)'
    BY <1>4, <2>1, <2>3
  <2>7. ToCome(pipe, back)' <= unanswered' /\ SyncTypeOK' /\ (sync.at = "idle" => sync.target = NoTarget)'
    BY <2>1, <2>2 DEF SyncInv, SyncTypeOK
  <2>8. ASSUME sync.at # "idle", ~ stray
        PROVE  /\ pc' = "ask" => before' \cap (Waiting' \ Range(m_dataQueue')) = {}
               /\ pc' \in {"take", "beat", "target"} => before' \cap Waiting' = {}
               /\ pc' # "target"
               /\ m_syncTarget' # NoTarget => Covers(m_syncTarget)'
               /\ sync'.target # NoTarget => Covers(sync.target)'
    <3>1. pc' = "ask" => before' \cap (Waiting' \ Range(m_dataQueue')) = {}
      BY <2>1, <2>2, <2>4
    <3>2. (pc' \in {"take", "beat", "target"} => before' \cap Waiting' = {}) /\ pc' # "target"
      BY <2>1, <2>2, <2>3, <2>5, <2>8
    <3>3. (m_syncTarget' # NoTarget => Covers(m_syncTarget)') /\ (sync'.target # NoTarget => Covers(sync.target)')
      BY <2>1, <2>2, <2>8 DEF SyncInv, Covers
    <3> QED
      BY <3>1, <3>2, <3>3
  <2> QED
    BY <2>1, <2>6, <2>7, <2>8 DEF SyncInv
<1>18. CASE SyncBeat \/ \E due, silent \in BOOLEAN : LoopTail(due, silent)
  <2>1. UNCHANGED <<queued, m_controlQueue, m_dataQueue, controlBacklog, dataBacklog, batch, back,
                    m_syncTarget, sync, before, stray>>
    BY <1>18 DEF SyncBeat, LoopTail, queueVars, loopVars, syncVars
  <2>2. Waiting' = Waiting /\ Accepted' = Accepted
    BY <2>1 DEF Waiting, Accepted
  <2>3. /\ pc # "gate" /\ (pc' = "target" => pc = "beat" /\ sendHeartbeat) /\ pc' \in {"target", "poll"}
        /\ sendHeartbeat \/ UNCHANGED <<unanswered, pipe>>
    BY <1>18 DEF SyncBeat, LoopTail
  <2>4. ASSUME NEW n \in Int
        PROVE  /\ Awaits(n, before, pipe, back) => Awaits(n, before, pipe', back')
               /\ ToCome(pipe', back') \in {ToCome(pipe, back), ToCome(pipe, back) + 1}
               /\ ToCome(pipe', back') = ToCome(pipe, back) \/ unanswered' = unanswered + 1
               /\ unanswered' \in {unanswered, unanswered + 1}
    <3>1. /\ pipe' = pipe \/ (pipe' = Append(pipe, HEARTBEAT) /\ unanswered' = unanswered + 1)
          /\ unanswered' \in {unanswered, unanswered + 1} /\ back' = back
      BY <2>1, <2>3 DEF sendHeartbeat
    <3>2. /\ Awaits(n, before, pipe, back) => Awaits(n, before, Append(pipe, HEARTBEAT), back)
          /\ ToCome(Append(pipe, HEARTBEAT), back) = ToCome(pipe, back) + 1
      BY <1>1, BeatBehind
    <3> QED
      BY Zenon, <3>1, <3>2
  <2>5. /\ ToCome(pipe', back') <= unanswered' /\ unanswered' \in Int
    <3>1. 0 \in Int
      OBVIOUS
    <3>2. /\ ToCome(pipe', back') \in {ToCome(pipe, back), ToCome(pipe, back) + 1}
          /\ ToCome(pipe', back') = ToCome(pipe, back) \/ unanswered' = unanswered + 1
          /\ unanswered' \in {unanswered, unanswered + 1} /\ ToCome(pipe, back) <= unanswered
      BY <2>4, <3>1 DEF SyncInv
    <3> QED
      BY <1>1, <3>2
  <2>6. pc' = "target" => Awaits(unanswered', before, pipe', back')
    <3> SUFFICES ASSUME pc' = "target" PROVE Awaits(unanswered', before, pipe', back')
      OBVIOUS
    <3>1. unanswered' = unanswered + 1 /\ unanswered + 1 \in Int /\ ToCome(pipe, back) < unanswered + 1
      BY <1>1, <2>3 DEF sendHeartbeat, SyncInv
    <3>2. Awaits(unanswered + 1, before, pipe, back)
      BY <1>1, <3>1, BeatBehind
    <3>3. Awaits(unanswered + 1, before, pipe', back')
      BY <2>4, <3>1, <3>2
    <3> QED
      BY <3>1, <3>3
  <2>7. SyncTypeOK' /\ (sync.at = "idle" => sync.target = NoTarget)' /\ (pc # "gate" => batch = <<>>)'
    BY <1>4, <2>1, <2>2, <2>3, <2>5 DEF SyncInv, SyncTypeOK
  <2>8. ASSUME sync.at # "idle", ~ stray
        PROVE  /\ pc' # "ask"
               /\ pc' \in {"take", "beat", "target"} => before' \cap Waiting' = {}
               /\ pc' = "target" => Covers(unanswered)'
               /\ m_syncTarget' # NoTarget => Covers(m_syncTarget)'
               /\ sync'.target # NoTarget => Covers(sync.target)'
    <3>1. pc' # "ask" /\ (pc' \in {"take", "beat", "target"} => before' \cap Waiting' = {})
      BY <2>1, <2>2, <2>3, <2>8 DEF SyncInv
    <3>2. pc' = "target" => Covers(unanswered)'
      BY <2>1, <2>6, <3>1 DEF Covers
    <3>3. m_syncTarget' # NoTarget => Covers(m_syncTarget)'
      <4> SUFFICES ASSUME m_syncTarget' # NoTarget PROVE Covers(m_syncTarget)'
        OBVIOUS
      <4>1. m_syncTarget \in Int /\ Covers(m_syncTarget) /\ m_syncTarget' = m_syncTarget
        BY <2>1, <2>8 DEF SyncInv, SyncTypeOK
      <4> QED
        BY <2>1, <2>2, <2>4, <4>1 DEF Covers
    <3>4. sync'.target # NoTarget => Covers(sync.target)'
      <4> SUFFICES ASSUME sync'.target # NoTarget PROVE Covers(sync.target)'
        OBVIOUS
      <4>1. sync.target \in Int /\ Covers(sync.target) /\ sync' = sync
        BY <2>1, <2>8 DEF SyncInv, SyncTypeOK
      <4> QED
        BY <2>1, <2>2, <2>4, <4>1 DEF Covers
    <3> QED
      BY <3>1, <3>2, <3>3, <3>4
  <2> QED
    BY <2>1, <2>5, <2>7, <2>8 DEF SyncInv
<1>19. CASE SetTarget \/ StopNotifies
  <2>1. UNCHANGED <<queued, m_controlQueue, m_dataQueue, controlBacklog, dataBacklog, batch, pipe, back, unanswered, before, stray>>
    BY <1>19 DEF SetTarget, StopNotifies, queueVars, loopVars, wireVars
  <2>2. Waiting' = Waiting /\ Accepted' = Accepted
    BY <2>1 DEF Waiting, Accepted
  <2>3. \/ pc' = pc /\ m_syncTarget' = m_syncTarget
        \/ pc = "target" /\ pc' = "tail" /\ m_syncTarget' = unanswered
    BY <1>19 DEF SetTarget, StopNotifies
  <2>4. /\ sync' \in [at : {"idle", "awake", "checked", "asleep"}, stage : {1, 2}, target : Nat \cup {NoTarget}]
        /\ sync'.target = sync.target /\ (sync'.at = "idle" <=> sync.at = "idle")
    BY <1>4, <1>19 DEF SetTarget, StopNotifies, Notified, SyncTypeOK
  <2>5. SyncTypeOK' /\ ToCome(pipe, back)' <= unanswered' /\ (sync.at = "idle" => sync.target = NoTarget)'
        /\ (pc # "gate" => batch = <<>>)'
    BY <1>1, <1>4, <2>1, <2>2, <2>3, <2>4 DEF SyncInv, SyncTypeOK
  <2>6. ASSUME sync'.at # "idle", ~ stray'
        PROVE  /\ pc' = "ask" => before' \cap (Waiting' \ Range(m_dataQueue')) = {}
               /\ pc' \in {"take", "beat", "target"} => before' \cap Waiting' = {}
               /\ pc' = "target" => Covers(unanswered)'
               /\ m_syncTarget' # NoTarget => Covers(m_syncTarget)'
               /\ sync'.target # NoTarget => Covers(sync.target)'
    <3>1. sync.at # "idle" /\ ~ stray
      BY <2>1, <2>4, <2>6
    <3>2. /\ pc' = "ask" => before' \cap (Waiting' \ Range(m_dataQueue')) = {}
          /\ pc' \in {"take", "beat", "target"} => before' \cap Waiting' = {}
      BY <2>1, <2>2, <2>3, <3>1 DEF SyncInv
    <3>3. (pc' = "target" => Covers(unanswered)') /\ (sync'.target # NoTarget => Covers(sync.target)')
      BY <2>1, <2>2, <2>3, <2>4, <3>1 DEF SyncInv, Covers
    <3>4. m_syncTarget' # NoTarget => Covers(m_syncTarget)'
      BY <2>1, <2>2, <2>3, <3>1 DEF SyncInv, Covers
    <3> QED
      BY <3>2, <3>3, <3>4
  <2> QED
    BY <2>5, <2>6 DEF SyncInv
<1>20. CASE SyncCall
  <2>1. UNCHANGED <<queued, m_controlQueue, m_dataQueue, controlBacklog, dataBacklog, batch, pipe, back, unanswered, pc>>
    BY <1>20 DEF SyncCall, queueVars, loopVars, wireVars
  <2>2. /\ sync' = [at |-> "awake", stage |-> 1, target |-> NoTarget] /\ before' = 1 .. queued /\ m_syncTarget' = NoTarget
        /\ stray' = (pc \in {"ask", "take", "beat", "target"})
    BY <1>20 DEF SyncCall, NoCall
  <2>3. SyncTypeOK' /\ sync'.at # "idle" /\ sync'.target = NoTarget
    BY <1>4, <2>1, <2>2 DEF SyncTypeOK, Accepted, NoTarget
  <2>4. ~ stray' => pc' \notin {"ask", "take", "beat", "target"}
    BY Zenon, <2>1, <2>2
  <2> QED
    BY <1>4, <2>1, <2>2, <2>3, <2>4 DEF SyncInv
<1>21. CASE SyncChecks \/ SyncWaits \/ SyncTimesOut
  <2>1. UNCHANGED <<queued, m_controlQueue, m_dataQueue, controlBacklog, dataBacklog, batch, pipe, back, unanswered, pc, m_syncTarget>>
    BY <1>21 DEF SyncChecks, SyncWaits, SyncTimesOut, queueVars, loopVars, wireVars
  <2>2. Waiting' = Waiting /\ Accepted' = Accepted
    BY <2>1 DEF Waiting, Accepted
  <2>3. CASE SyncReturns
    <3>1. SyncTypeOK' /\ sync'.at = "idle" /\ sync'.target = NoTarget
      BY Zenon, <1>4, <2>1, <2>3 DEF SyncReturns, NoCall, SyncTypeOK, NoTarget
    <3> QED
      BY <1>4, <2>1, <3>1 DEF SyncInv
  <2>4. CASE ~ SyncReturns
    <3>1. /\ before' = before /\ stray' = stray /\ sync.at # "idle" /\ sync'.at # "idle"
          /\ sync' \in [at : {"idle", "awake", "checked", "asleep"}, stage : {1, 2}, target : Nat \cup {NoTarget}]
          /\ sync'.target = sync.target \/ sync'.target = m_syncTarget
      BY Zenon, <1>4, <1>21, <2>4 DEF SyncChecks, SyncWaits, SyncTimesOut, SyncTypeOK
    <3>2. SyncTypeOK' /\ ToCome(pipe, back)' <= unanswered' /\ (sync.at = "idle" => sync.target = NoTarget)'
          /\ (pc # "gate" => batch = <<>>)'
      BY <1>4, <2>1, <2>2, <3>1 DEF SyncInv, SyncTypeOK
    <3>3. ASSUME ~ stray'
          PROVE  /\ pc' = "ask" => before' \cap (Waiting' \ Range(m_dataQueue')) = {}
                 /\ pc' \in {"take", "beat", "target"} => before' \cap Waiting' = {}
                 /\ pc' = "target" => Covers(unanswered)'
                 /\ m_syncTarget' # NoTarget => Covers(m_syncTarget)'
                 /\ sync'.target # NoTarget => Covers(sync.target)'
      BY <2>1, <2>2, <3>1, <3>3 DEF SyncInv, Covers
    <3> QED
      BY <3>2, <3>3 DEF SyncInv
  <2> QED
    BY <2>3, <2>4
<1>22. CASE Poll
  <2>1. UNCHANGED <<queued, m_controlQueue, m_dataQueue, controlBacklog, dataBacklog, batch, pipe, before, stray>>
    BY <1>22 DEF Poll, queueVars
  <2>2. Waiting' = Waiting /\ Accepted' = Accepted /\ pc' = "control" /\ pc = "poll" /\ batch' = <<>>
    BY <1>4, <1>22, <2>1 DEF Waiting, Accepted, Poll
  <2>3. CASE UNCHANGED <<back, unanswered, m_syncTarget, sync>>
    <3>1. Undisturbed
      BY <1>1, <2>1, <2>2, <2>3 DEF Undisturbed
    <3> QED
      BY <3>1, UndisturbedKeeps
  <2>4. CASE back # <<>> /\ back' = Tail(back) /\ Head(back) # "HEARTBEAT_ACK" /\ UNCHANGED <<unanswered, m_syncTarget, sync>>
    <3>1. ASSUME NEW n \in Nat
          PROVE  /\ ToCome(pipe, Tail(back)) = ToCome(pipe, back)
                 /\ Awaits(n, before, pipe, back) => Awaits(n, before, pipe, Tail(back))
      BY <1>1, <2>4, AckCounts
    <3>2. SyncTypeOK' /\ ToCome(pipe, back)' <= unanswered' /\ (sync.at = "idle" => sync.target = NoTarget)'
      <4>1. 0 \in Nat
        OBVIOUS
      <4>2. ToCome(pipe', back') = ToCome(pipe, back)
        BY <2>1, <2>4, <3>1, <4>1
      <4> QED
        BY <2>1, <2>2, <2>4, <4>2 DEF SyncInv, SyncTypeOK
    <3>3. ASSUME sync.at # "idle", ~ stray, NEW n \in Nat, Covers(n) PROVE before' \cap Waiting' = {} /\ Awaits(n, before', pipe', back')
      BY <2>1, <2>2, <2>4, <3>1, <3>3 DEF Covers
    <3>4. ASSUME sync.at # "idle", ~ stray
          PROVE  /\ m_syncTarget' # NoTarget => Covers(m_syncTarget)'
                 /\ sync'.target # NoTarget => Covers(sync.target)'
      <4>1. /\ m_syncTarget # NoTarget => m_syncTarget \in Nat /\ Covers(m_syncTarget)
            /\ sync.target # NoTarget => sync.target \in Nat /\ Covers(sync.target)
        BY <1>4, <3>4 DEF SyncInv, SyncTypeOK
      <4> QED
        BY <2>4, <3>3, <3>4, <4>1 DEF Covers
    <3> QED
      BY <2>1, <2>2, <2>4, <3>2, <3>4 DEF SyncInv
  <2>5. CASE /\ back # <<>> /\ back' = Tail(back) /\ Head(back) = "HEARTBEAT_ACK" /\ unanswered' = unanswered - 1
             /\ m_syncTarget' = OneFewer(m_syncTarget) /\ sync' = Notified([sync EXCEPT !.target = OneFewer(@)])
    <3>1. ASSUME NEW n \in Nat
          PROVE  /\ ToCome(pipe, Tail(back)) = ToCome(pipe, back) - 1
                 /\ Awaits(n, before, pipe, back) => Awaits(OneFewer(n), before, pipe, Tail(back))
      BY Zenon, <1>1, <2>5, AckCounts
    <3>2. \A n \in Nat \cup {NoTarget} : OneFewer(n) \in Nat \cup {NoTarget} /\ (OneFewer(n) = NoTarget <=> n = NoTarget)
      BY DEF OneFewer, NoTarget
    <3>3. /\ sync' \in [at : {"idle", "awake", "checked", "asleep"}, stage : {1, 2}, target : Nat \cup {NoTarget}]
          /\ sync'.target = OneFewer(sync.target) /\ (sync'.at = "idle" <=> sync.at = "idle")
      <4> DEFINE s == [sync EXCEPT !.target = OneFewer(@)]
      <4>1. /\ s \in [at : {"idle", "awake", "checked", "asleep"}, stage : {1, 2}, target : Nat \cup {NoTarget}]
            /\ s.target = OneFewer(sync.target) /\ s.at = sync.at
        BY <1>4, <3>2 DEF SyncTypeOK
      <4>2. sync' = Notified(s)
        BY <2>5
      <4> HIDE DEF s
      <4> QED
        BY <4>1, <4>2 DEF Notified
    <3>4. ToCome(pipe, back)' <= unanswered' /\ unanswered' \in Int
      <4>1. 0 \in Nat
        OBVIOUS
      <4>2. ToCome(pipe', back') = ToCome(pipe, back) - 1
        BY <2>1, <2>5, <3>1, <4>1
      <4> QED
        BY <1>1, <2>5, <4>2 DEF SyncInv
    <3>5. SyncTypeOK' /\ (sync.at = "idle" => sync.target = NoTarget)'
      BY <1>4, <2>1, <2>2, <2>5, <3>2, <3>3, <3>4 DEF SyncInv, SyncTypeOK
    <3>6. ASSUME NEW n \in Nat, Covers(n) PROVE before' \cap Waiting' = {} /\ Awaits(OneFewer(n), before', pipe', back')
      BY <2>1, <2>2, <2>5, <3>1, <3>6 DEF Covers
    <3>7. ASSUME sync'.at # "idle", ~ stray'
          PROVE  /\ m_syncTarget' # NoTarget => Covers(m_syncTarget)'
                 /\ sync'.target # NoTarget => Covers(sync.target)'
      <4>1. /\ m_syncTarget # NoTarget => m_syncTarget \in Nat /\ Covers(m_syncTarget)
            /\ sync.target # NoTarget => sync.target \in Nat /\ Covers(sync.target)
        BY <1>4, <2>1, <3>3, <3>7 DEF SyncInv, SyncTypeOK
      <4>2. m_syncTarget' # NoTarget => Covers(m_syncTarget)'
        <5> SUFFICES ASSUME m_syncTarget' # NoTarget PROVE Covers(m_syncTarget)'
          OBVIOUS
        <5>1. m_syncTarget \in Nat /\ Covers(m_syncTarget) /\ m_syncTarget' = OneFewer(m_syncTarget)
          BY <1>4, <2>5, <3>2, <4>1 DEF SyncTypeOK
        <5> QED
          BY <3>6, <5>1 DEF Covers
      <4>3. sync'.target # NoTarget => Covers(sync.target)'
        <5> SUFFICES ASSUME sync'.target # NoTarget PROVE Covers(sync.target)'
          OBVIOUS
        <5>1. sync.target \in Nat /\ Covers(sync.target) /\ sync'.target = OneFewer(sync.target)
          BY Zenon, <1>4, <3>2, <3>3, <4>1 DEF SyncTypeOK
        <5> QED
          BY <3>6, <5>1 DEF Covers
      <4> QED
        BY <4>2, <4>3
    <3> QED
      BY <2>1, <2>2, <3>4, <3>5, <3>7 DEF SyncInv
  <2> QED
    BY <1>22, <2>3, <2>4, <2>5 DEF Poll
<1> QED
  BY <1>5, <1>6, <1>7, <1>8, <1>9, <1>10, <1>11, <1>12, <1>13, <1>14, <1>15, <1>16, <1>17, <1>18, <1>19, <1>20, <1>21,
     <1>22, Zenon DEF Next, LoopStep, SyncStep

(* Nothing is waited for at the start.                                         *)
LEMMA SyncStarts == Init => SyncInv
<1> SUFFICES ASSUME Init PROVE SyncInv
  OBVIOUS
<1>1. /\ sync = [at |-> "idle", stage |-> 1, target |-> NoTarget] /\ before = {} /\ stray = FALSE /\ unanswered = 0
      /\ m_syncTarget = NoTarget /\ queued = 0 /\ batch = <<>> /\ pipe = <<CONNECT>> /\ back = <<>>
  BY DEF Init, NoCall
<1>2. SyncTypeOK
  <2>1. sync \in [at : {"idle", "awake", "checked", "asleep"}, stage : {1, 2}, target : Nat \cup {NoTarget}]
    BY <1>1
  <2>2. unanswered \in Int /\ m_syncTarget \in Nat \cup {NoTarget} /\ before \subseteq Accepted
    BY <1>1
  <2>3. stray \in BOOLEAN
    BY <1>1, Zenon
  <2> QED
    BY <2>1, <2>2, <2>3 DEF SyncTypeOK
<1>3. ToCome(pipe, back) = 0
  <2>1. Heartbeats(pipe) = {} /\ Acks(back) = {}
    BY <1>1 DEF Heartbeats, Acks, CONNECT, HEARTBEAT
  <2> QED
    BY <2>1, FS_EmptySet DEF ToCome
<1> QED
  BY <1>1, <1>2, <1>3 DEF SyncInv

(* When no acknowledgement is still to come, everything queued before the call *)
(* has been handled.                                                           *)
LEMMA SyncAnswersRight == OrderInv /\ SyncInv => (SyncSucceeds /\ ~ stray => before \cap Outstanding = {})
<1> SUFFICES ASSUME OrderInv, SyncInv, SyncSucceeds, ~ stray PROVE before \cap Outstanding = {}
  OBVIOUS
<1>1. sync.at # "idle" /\ sync.target # NoTarget /\ sync.target = 0
  BY DEF SyncSucceeds, SyncInv, NoTarget
<1>2. Covers(0)
  BY <1>1 DEF SyncInv
<1>3. ASSUME NEW i \in DOMAIN pipe PROVE pipe[i] \notin before
  <2>1. pipe \in Seq(Int) /\ back \in Seq({"HEARTBEAT_ACK", "RESET"})
    BY WireTypes
  <2>2. i \in Int
    BY <2>1, LenProperties
  <2>3. Cardinality(PlacesBefore(i, pipe, HEARTBEAT)) \in Nat /\ Cardinality(Places(back, "HEARTBEAT_ACK")) \in Nat
    BY <2>1, <2>2, Counted, Zenon
  <2>4. ToComeBefore(i, pipe, back)
           = Cardinality(PlacesBefore(i, pipe, HEARTBEAT)) + Cardinality(Places(back, "HEARTBEAT_ACK"))
    BY CountsArePlaces, Zenon
  <2>5. ~ (ToComeBefore(i, pipe, back) < 0)
    BY <2>3, <2>4
  <2> QED
    BY <1>2, <2>5 DEF Covers, Awaits
<1> QED
  BY <1>2, <1>3 DEF Covers, Outstanding, Range

(* For every number of messages and every bound on the queues, the backlogs    *)
(* and the pipe: no data overtakes control on the worker of a client and       *)
(* neither kind is reordered in itself (drainControl, the gates of the data);  *)
(* control leaves the queue and the backlog only for the wire, but for a full  *)
(* backlog and the end; and sync answers TRUE only when nothing queued before  *)
(* the call is still on its way, unless the loop had looked before the call.   *)
THEOREM WorkerCorrect == Spec => WorkerIsSafe
<1>1. Init => OrderInv /\ SyncInv
  BY OrderStarts, SyncStarts
<1>2. OrderInv /\ SyncInv /\ [Next]_vars => OrderInv' /\ SyncInv'
  BY OrderKeeps, SyncKeeps
<1>3. OrderInv /\ SyncInv /\ [Next]_vars => KeepsControl /\ SyncConfirms
  BY OrderKeeps, SyncAnswersRight DEF SyncConfirms
<1>4. ASSUME OrderInv, SyncInv, [Next]_vars PROVE [ControlGoesFirst' /\ KeepsControl /\ SyncConfirms]_vars
  <2>1. ControlGoesFirst'
    BY <1>2, <1>4 DEF OrderInv
  <2> QED
    BY <1>3, <1>4, <2>1
<1> QED
  BY <1>1, <1>2, <1>4, PTL DEF Spec, WorkerIsSafe
================================================================================
