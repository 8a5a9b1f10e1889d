------------------------------ MODULE CallsProofs ------------------------------
(* What calls of a client promise, for any number of calls, messages and       *)
(* threads: the API's calls and waiters, and the command line's session.       *)
EXTENDS ConnectionApi, CliSession, SequenceTheorems, FiniteSetTheorems, TLAPS

(* What a call's beginning leaves of a thread's record.                           *)
LEMMA CalledSane ==
    ASSUME NEW t, ThreadSane(t), NEW call \in CallNames
    PROVE  ThreadSane(Called(t, call)) /\ Called(t, call).at = t.at /\ Called(t, call).cap = 0
<1>1. Called(t, call) \in Threads
  <2>1. t \in Threads /\ t.calls + 1 \in Nat
    <3>1. t \in Threads
      BY DEF ThreadSane
    <3>2. t.calls \in Nat
      BY Zenon, <3>1 DEF Threads
    <3> QED
      BY <3>1, <3>2
  <2>3. 0 \in Nat /\ 0 \in 0 .. MaxInits
    BY ApiAssumption
  <2>2. \A k, z \in Nat, n \in 0 .. MaxInits :
            [t EXCEPT !.call = call, !.calls = k, !.self = n, !.cap = z, !.outLen = z, !.written = z] \in Threads
    BY Zenon, <2>1 DEF Threads
  <2> QED
    BY Zenon, <2>1, <2>2, <2>3 DEF Called
<1>2. /\ Called(t, call).at = t.at /\ Called(t, call).cap = 0 /\ Called(t, call).written = 0
      /\ Called(t, call).made = t.made
  BY Zenon DEF ThreadSane, Called, Threads
<1> QED
  BY <1>1, <1>2 DEF ThreadSane

(* A call returns with a result and a message.                                    *)
LEMMA ReturnedType ==
    ASSUME NEW t \in Threads, NEW result \in Results, NEW message \in Reasons \cup {""}
    PROVE  Returned(t, result, message) \in Threads
BY Zenon DEF Returned, Threads

(* The two ways in which a call returns keep the record of the thread in order.   *)
LEMMA OkInOrder ==
    ASSUME NEW t, ThreadSane(t)
    PROVE  ThreadInv(ok(t)) /\ ok(t).at = "idle"
<1>1. ok(t) \in Threads
  BY Zenon, ReturnedType DEF ThreadSane, ok, Results
<1>2. /\ ok(t).at = "idle" /\ ok(t).result = "SUCCESS" /\ ok(t).lastError = ""
      /\ ok(t).written = t.written /\ ok(t).cap = t.cap /\ ok(t).made = t.made
  BY Zenon DEF ThreadSane, ok, Returned, Threads
<1> QED
  BY Zenon, <1>1, <1>2 DEF ThreadInv, ThreadSane

(* A refusal names a reason that is not success, and says why.                    *)
LEMMA FailInOrder ==
    ASSUME NEW t, ThreadSane(t), NEW result \in Results \ {"SUCCESS"}, NEW message \in Reasons,
           result = "ERROR_BUFFER_TOO_SMALL" => t.outLen > t.cap
    PROVE  ThreadInv(fail(t, result, message)) /\ fail(t, result, message).at = "idle"
<1> DEFINE f == fail(t, result, message)
<1>1. message # "" /\ result # "SUCCESS"
  BY Zenon DEF Reasons
<1>2. f \in Threads
  BY Zenon, ReturnedType DEF ThreadSane, fail
<1>3. /\ f.at = "idle" /\ f.result = result /\ f.lastError = message
      /\ f.written = t.written /\ f.cap = t.cap /\ f.made = t.made /\ f.outLen = t.outLen
  BY Zenon DEF ThreadSane, fail, Returned, Threads
<1> HIDE DEF f
<1>4. ThreadInv(f)
  BY Zenon, <1>1, <1>2, <1>3 DEF ThreadInv, ThreadSane
<1> QED
  BY <1>3, <1>4 DEF f

(* A thread that has an instance has one that was made.                           *)
LEMMA SelfIsInstance ==
    ASSUME ApiInv, NEW c \in ApiThreads, thread[c].self # 0
    PROVE  thread[c].self \in Instances
<1>1. thread[c].self \in 0 .. MaxInits
  BY Zenon DEF ApiInv, Threads
<1> QED
  BY <1>1, ApiAssumption DEF Instances

(* A change of the links that no waiter needs to hear of.                         *)
Unnoticed == \A n \in Instances : link'[n].connected = link[n].connected /\ (link[n].running => link'[n].running)

(* A step of one thread outside waitForConnection's mutex.                        *)
LEMMA OrdinaryStep ==
    ASSUME ApiInv, NEW c \in ApiThreads, NEW t, ThreadInv(t),
           t.at \in {"idle", "has", "asks", "awaits", "explains"}, Becomes(c, t),
           s_current' \in 0 .. MaxInits, apiInits' \in 0 .. MaxInits, statusMutex' = statusMutex,
           LinksOK', Unnoticed
    PROVE  ApiInv'
<1>1. t \in Threads
  BY Zenon DEF ThreadInv, ThreadSane
<1>2. thread'[c] = t /\ \A d \in ApiThreads : d # c => thread'[d] = thread[d]
  BY DEF Becomes, ApiInv
<1>3. thread' \in [ApiThreads -> Threads]
  BY <1>1 DEF Becomes, ApiInv
<1>4. \A d \in ApiThreads : ThreadInv(thread[d])'
  <2>1. \A d \in ApiThreads : ThreadInv(thread'[d])
    BY Zenon, <1>2 DEF ApiInv
  <2> QED
    BY Zenon, <2>1 DEF ThreadInv, ThreadSane, replyTopicOk
<1>5. \A d \in ApiThreads : thread'[d].at \in {"dozes", "sleeps", "concludes"} => thread'[d] = thread[d] /\ thread[d].self \in Instances
  <2>1. \A d \in ApiThreads : thread'[d].at \in {"dozes", "sleeps", "concludes"} => thread'[d] = thread[d]
    BY <1>2
  <2>2. ASSUME NEW d \in ApiThreads, thread[d].at \in {"dozes", "sleeps", "concludes"} PROVE thread[d].self \in Instances
    <3>1. thread[d].self \in 0 .. MaxInits /\ thread[d].self # 0
      BY Zenon, <2>2 DEF ApiInv, ThreadInv, ThreadSane, Threads
    <3> QED
      BY <3>1, ApiAssumption DEF Instances
  <2> QED
    BY <2>1, <2>2
<1>6. \A n \in Instances : ~ Concluded(n) => ~ Concluded(n)'
  BY DEF Concluded, Unnoticed
<1>7. MutexInv'
  <2>1. \A d \in ApiThreads : Holds(thread[d])' => thread'[d] = thread[d] /\ Holds(thread[d])
    BY <1>5 DEF Holds
  <2>2. \A d \in ApiThreads : Holds(thread[d])' => statusMutex'[thread'[d].self]
    BY <2>1 DEF ApiInv, MutexInv
  <2>3. \A d, e \in ApiThreads : Holds(thread[d])' /\ Holds(thread[e])' /\ thread'[d].self = thread'[e].self => d = e
    BY <2>1 DEF ApiInv, MutexInv
  <2>4. \A d \in ApiThreads : thread'[d].at \in {"dozes", "sleeps"} => ~ Concluded(thread[d].self)'
    <3> SUFFICES ASSUME NEW d \in ApiThreads, thread'[d].at \in {"dozes", "sleeps"}
                 PROVE  ~ Concluded(thread[d].self)'
      OBVIOUS
    <3>1. thread'[d] = thread[d] /\ thread[d].self \in Instances
      BY <1>5
    <3>2. ~ Concluded(thread[d].self)
      BY <3>1 DEF ApiInv, MutexInv
    <3> QED
      BY <1>6, <3>1, <3>2 DEF Concluded, Unnoticed
  <2> QED
    BY <2>2, <2>3, <2>4 DEF MutexInv
<1> QED
  BY <1>3, <1>4, <1>7 DEF ApiInv

(* Where nothing but the thread changes.                                          *)
LEMMA OwnStep ==
    ASSUME ApiInv, NEW c \in ApiThreads, NEW t, ThreadInv(t),
           t.at \in {"idle", "has", "asks", "awaits", "explains"}, Becomes(c, t),
           UNCHANGED <<s_current, link, statusMutex, apiInits, statuses>>
    PROVE  ApiInv'
<1>1. LinksOK' /\ Unnoticed /\ statusMutex' = statusMutex
  BY DEF ApiInv, LinksOK, Unnoticed, Instances
<1>2. s_current' \in 0 .. MaxInits /\ apiInits' \in 0 .. MaxInits
  BY DEF ApiInv
<1> QED
  BY <1>1, <1>2, OrdinaryStep

(* Room in a queue is used up.                                                    *)
LEMMA PushUnnoticed ==
    ASSUME ApiInv, NEW n \in Instances, NEW queue \in {"outbound", "control"}, Push(n, queue)
    PROVE  LinksOK' /\ Unnoticed
<1>1. /\ link \in [Instances -> [connected : BOOLEAN, running : BOOLEAN, outbound : Nat, control : Nat]]
      /\ link' = [link EXCEPT ![n][queue] = @ + 1]
  BY DEF ApiInv, LinksOK, Push
<1>2. CASE queue = "outbound"
  <2>1. link' = [link EXCEPT ![n] = [link[n] EXCEPT !.outbound = @ + 1]]
    BY Zenon, <1>1, <1>2
  <2> QED
    BY <1>1, <2>1 DEF LinksOK, Unnoticed
<1>3. CASE queue = "control"
  <2>1. link' = [link EXCEPT ![n] = [link[n] EXCEPT !.control = @ + 1]]
    BY Zenon, <1>1, <1>3
  <2> QED
    BY <1>1, <2>1 DEF LinksOK, Unnoticed
<1> QED
  BY <1>2, <1>3

(* A change of a link that may conclude a wait, when nobody holds its mutex: the  *)
(* threads that sleep on it are woken.                                            *)
LEMMA NotifyingStep ==
    ASSUME ApiInv, NEW threads \in [ApiThreads -> Threads], NEW n \in Instances, ~ statusMutex[n],
           \A c \in ApiThreads : ThreadInv(threads[c]) /\ (threads[c] = thread[c] \/ threads[c].at = "idle"),
           thread' = Notified(n, threads), statusMutex' = statusMutex,
           s_current' \in 0 .. MaxInits, apiInits' \in 0 .. MaxInits, LinksOK',
           \A m \in Instances : m # n => link'[m] = link[m]
    PROVE  ApiInv'
<1>1. \A c \in ApiThreads : thread'[c] = IF threads[c].at = "sleeps" /\ threads[c].self = n
                                         THEN [threads[c] EXCEPT !.at = "wakes"] ELSE threads[c]
  BY DEF Notified
<1>2. ASSUME NEW c \in ApiThreads
      PROVE  /\ thread'[c] \in Threads /\ ThreadInv(thread'[c])
             /\ thread'[c].at \in {"dozes", "sleeps", "concludes"} =>
                   thread'[c] = thread[c] /\ thread[c].self \in Instances \ {n}
  <2>1. threads[c] \in Threads /\ ThreadInv(threads[c])
    OBVIOUS
  <2>2. CASE threads[c].at = "sleeps" /\ threads[c].self = n
    <3> DEFINE t == threads[c]
    <3> DEFINE w == [t EXCEPT !.at = "wakes"]
    <3>1. t \in Threads /\ ThreadInv(t) /\ t.self = n
      BY <2>1, <2>2
    <3> HIDE DEF t
    <3>2. w \in Threads /\ w.at = "wakes" /\ w.self = t.self /\ w.written = t.written /\ w.cap = t.cap /\ w.made = t.made
      BY Zenon, <3>1 DEF Threads
    <3>3. thread'[c] = w
      BY <1>1, <2>2 DEF t
    <3> HIDE DEF w
    <3>4. w.self # 0
      BY <3>1, <3>2, ApiAssumption DEF Instances
    <3> QED
      BY Zenon, <3>1, <3>2, <3>3, <3>4 DEF ThreadInv, ThreadSane
  <2>3. CASE ~ (threads[c].at = "sleeps" /\ threads[c].self = n)
    <3>1. thread'[c] = threads[c]
      BY Zenon, <1>1, <2>3
    <3>2. ASSUME thread'[c].at \in {"dozes", "sleeps", "concludes"}
          PROVE  thread'[c] = thread[c] /\ thread[c].self \in Instances \ {n}
      <4>1. thread'[c] = thread[c]
        BY <3>1, <3>2
      <4>2. thread[c].self \in Instances
        <5>1. thread[c].self \in 0 .. MaxInits /\ thread[c].self # 0
          BY Zenon, <3>2, <4>1 DEF ApiInv, ThreadInv, ThreadSane, Threads
        <5> QED
          BY <5>1, ApiAssumption DEF Instances
      <4>3. thread[c].self # n
        BY <2>3, <3>1, <3>2, <4>1 DEF ApiInv, MutexInv, Holds
      <4> QED
        BY <4>1, <4>2, <4>3
    <3> QED
      BY <2>1, <3>1, <3>2
  <2> QED
    BY <2>2, <2>3
<1>3. thread' \in [ApiThreads -> Threads]
  <2>1. thread' = [c \in ApiThreads |-> thread'[c]]
    BY DEF Notified
  <2> QED
    BY <1>2, <2>1
<1>4. \A c \in ApiThreads : ThreadInv(thread[c])'
  BY Zenon, <1>2 DEF ThreadInv, ThreadSane, replyTopicOk
<1>5. \A m \in Instances \ {n} : ~ Concluded(m) => ~ Concluded(m)'
  BY DEF Concluded
<1>6. MutexInv'
  <2>1. \A c \in ApiThreads : Holds(thread[c])' => thread'[c] = thread[c] /\ Holds(thread[c])
    BY <1>2 DEF Holds
  <2>2. \A c \in ApiThreads : Holds(thread[c])' => statusMutex'[thread'[c].self]
    BY <2>1 DEF ApiInv, MutexInv
  <2>3. \A c, d \in ApiThreads : Holds(thread[c])' /\ Holds(thread[d])' /\ thread'[c].self = thread'[d].self => c = d
    BY <2>1 DEF ApiInv, MutexInv
  <2>4. ASSUME NEW c \in ApiThreads, thread'[c].at \in {"dozes", "sleeps"}
        PROVE  ~ Concluded(thread[c].self)'
    <3>1. thread'[c] = thread[c] /\ thread[c].self \in Instances \ {n}
      BY <1>2, <2>4
    <3>2. ~ Concluded(thread[c].self)
      BY <2>4, <3>1 DEF ApiInv, MutexInv
    <3> QED
      BY <3>1, <3>2 DEF Concluded
  <2> QED
    BY <2>2, <2>3, <2>4 DEF MutexInv
<1> QED
  BY <1>3, <1>4, <1>6 DEF ApiInv

(* The steps that take or give up the mutex: nobody else holds it then.           *)
LEMMA MutexStep ==
    ASSUME ApiInv, NEW c \in ApiThreads, NEW t, ThreadInv(t), t.self = thread[c].self, t.self # 0, Becomes(c, t),
           NEW held \in BOOLEAN, statusMutex' = [statusMutex EXCEPT ![thread[c].self] = held],
           Holds(t) = held, Holds(thread[c]) \/ ~ statusMutex[thread[c].self],
           t.at \in {"dozes", "sleeps"} => ~ Concluded(thread[c].self),
           UNCHANGED <<s_current, link, apiInits>>
    PROVE  ApiInv'
<1> DEFINE n == thread[c].self
<1>1. t \in Threads
  BY Zenon DEF ThreadInv, ThreadSane
<1>2. n \in Instances
  <2>1. n \in 0 .. MaxInits /\ n # 0
    BY Zenon DEF ApiInv, Threads
  <2> QED
    BY <2>1, ApiAssumption DEF Instances
<1>3. thread'[c] = t /\ \A d \in ApiThreads : d # c => thread'[d] = thread[d]
  BY DEF Becomes, ApiInv
<1>4. thread' \in [ApiThreads -> Threads]
  BY <1>1 DEF Becomes, ApiInv
<1>5. \A d \in ApiThreads : ThreadInv(thread[d])'
  BY Zenon, <1>3 DEF ApiInv, ThreadInv, ThreadSane, replyTopicOk
<1>6. \A d \in ApiThreads : d # c /\ Holds(thread[d]) => thread[d].self # n
  BY DEF ApiInv, MutexInv
<1>7. \A m \in Instances : statusMutex'[m] = IF m = n THEN held ELSE statusMutex[m]
  BY <1>2 DEF ApiInv
<1>8. statusMutex' \in [Instances -> BOOLEAN]
  BY <1>2 DEF ApiInv
<1>9. MutexInv'
  <2>1. \A d \in ApiThreads : Holds(thread[d])' => IF d = c THEN held ELSE Holds(thread[d]) /\ thread'[d] = thread[d]
    BY <1>3 DEF Holds
  <2>2. ASSUME NEW d \in ApiThreads, Holds(thread[d])' PROVE statusMutex'[thread'[d].self]
    <3>1. CASE d = c
      BY <1>2, <1>3, <1>7, <2>1, <2>2, <3>1
    <3>2. CASE d # c
      <4>1. Holds(thread[d]) /\ thread'[d] = thread[d] /\ thread[d].self # n
        BY <1>6, <2>1, <2>2, <3>2
      <4>2. thread[d].self \in Instances
        <5>1. thread[d].self \in 0 .. MaxInits /\ thread[d].self # 0
          BY Zenon, <4>1 DEF ApiInv, ThreadInv, ThreadSane, Threads, Holds
        <5> QED
          BY <5>1, ApiAssumption DEF Instances
      <4>3. statusMutex[thread[d].self]
        BY <4>1 DEF ApiInv, MutexInv
      <4> QED
        BY <1>7, <4>1, <4>2, <4>3
    <3> QED
      BY <3>1, <3>2
  <2>3. \A d, e \in ApiThreads : Holds(thread[d])' /\ Holds(thread[e])' /\ thread'[d].self = thread'[e].self => d = e
    BY <1>3, <1>6, <2>1 DEF ApiInv, MutexInv
  <2>4. ASSUME NEW d \in ApiThreads, thread'[d].at \in {"dozes", "sleeps"}
        PROVE  ~ Concluded(thread[d].self)'
    <3>1. ~ Concluded(thread'[d].self)
      BY <1>3, <2>4 DEF ApiInv, MutexInv
    <3> QED
      BY <3>1 DEF Concluded
  <2> QED
    BY <2>2, <2>3, <2>4 DEF MutexInv
<1>10. LinksOK'
  BY DEF ApiInv, LinksOK, Instances
<1> QED
  BY <1>4, <1>5, <1>8, <1>9, <1>10 DEF ApiInv

(* A record of which only a few fields change.                                    *)
LEMMA FieldsChange ==
    ASSUME NEW t, ThreadSane(t), NEW n \in 0 .. MaxInits, NEW k \in Nat,
           NEW a \in {"has", "asks", "awaits", "explains"}
    PROVE  /\ ThreadInv([t EXCEPT !.at = a]) /\ [t EXCEPT !.at = a].at = a
           /\ ThreadInv([t EXCEPT !.self = n, !.at = a]) /\ [t EXCEPT !.self = n, !.at = a].at = a
           /\ ThreadSane([t EXCEPT !.self = n]) /\ [t EXCEPT !.self = n].at = t.at
<1>1. t \in Threads
  BY DEF ThreadSane
<1> DEFINE p == [t EXCEPT !.at = a]
<1> DEFINE q == [t EXCEPT !.self = n, !.at = a]
<1> DEFINE r == [t EXCEPT !.self = n]
<1>2. /\ p \in Threads /\ p.at = a /\ p.written = t.written /\ p.cap = t.cap /\ p.made = t.made
  BY Zenon, <1>1 DEF Threads
<1>3. /\ q \in Threads /\ q.at = a /\ q.written = t.written /\ q.cap = t.cap /\ q.made = t.made
  BY Zenon, <1>1 DEF Threads
<1>4. /\ r \in Threads /\ r.at = t.at /\ r.written = t.written /\ r.cap = t.cap /\ r.made = t.made
  BY Zenon, <1>1 DEF Threads
<1> HIDE DEF p, q, r
<1>5. ThreadInv(p) /\ ThreadInv(q) /\ ThreadSane(r)
  BY Zenon, <1>2, <1>3, <1>4 DEF ThreadInv, ThreadSane
<1> QED
  BY <1>2, <1>3, <1>4, <1>5 DEF p, q, r

(* The calls that return at once.                                                 *)
LEMMA ShortCalls ==
    ASSUME ApiInv, NEW c \in ApiThreads,
           VoidCall(c) \/ guard(c) \/ initConnection(c) \/ \E call \in {"sendData", "setCluster"} : InvalidArguments(c, call)
    PROVE  ApiInv'
<1>1. ThreadSane(thread[c])
  BY Zenon DEF ApiInv, ThreadInv
<1>2. CASE VoidCall(c)
  <2>1. ThreadSane(Called(thread[c], "registerCallback"))
    BY <1>1, CalledSane DEF CallNames
  <2> QED
    BY <1>2, <2>1, OkInOrder, OwnStep DEF VoidCall
<1>3. CASE guard(c)
  BY <1>1, <1>3, FailInOrder, OwnStep DEF guard, Results, Reasons
<1>4. CASE \E call \in {"sendData", "setCluster"} : InvalidArguments(c, call)
  <2>1. PICK call \in {"sendData", "setCluster"} : InvalidArguments(c, call)
    BY <1>4
  <2>2. ThreadSane(Called(thread[c], call))
    BY <1>1, CalledSane DEF CallNames
  <2> QED
    BY <2>1, <2>2, FailInOrder, OwnStep DEF InvalidArguments, Results, Reasons
<1>5. CASE initConnection(c)
  <2> DEFINE t == ok(Called(thread[c], "initConnection"))
  <2>1. ThreadSane(Called(thread[c], "initConnection"))
    BY <1>1, CalledSane DEF CallNames
  <2>2. ThreadInv(t) /\ t.at = "idle" /\ Becomes(c, t) /\ statusMutex' = statusMutex
    BY <1>5, <2>1, OkInOrder DEF initConnection
  <2> HIDE DEF t
  <2>3. CASE UNCHANGED <<s_current, link, apiInits>>
    BY <1>5, <2>2, <2>3, OwnStep DEF initConnection
  <2>4. CASE /\ apiInits < MaxInits /\ s_current' = apiInits + 1 /\ apiInits' = apiInits + 1
             /\ link' = [link EXCEPT ![apiInits + 1].running = TRUE]
    <3>1. apiInits + 1 \in Instances /\ s_current' \in 0 .. MaxInits /\ apiInits' \in 0 .. MaxInits
      BY <2>4, ApiAssumption DEF ApiInv, Instances
    <3>2. LinksOK' /\ Unnoticed
      BY Zenon, <2>4, <3>1 DEF ApiInv, LinksOK, Unnoticed
    <3> QED
      BY <2>2, <3>1, <3>2, OrdinaryStep
  <2> QED
    BY <1>5, <2>3, <2>4 DEF initConnection
<1> QED
  BY <1>2, <1>3, <1>4, <1>5

(* The calls that send.                                                           *)
LEMMA SendingCalls ==
    ASSUME ApiInv, NEW c \in ApiThreads,
           sendRawEnvelope(c) \/ \E call \in {"sendData", "sendDataWithReply", "setCluster", "replyToSender", "waitForConnection"} : Snapshot(c, call)
    PROVE  ApiInv'
<1>1. ThreadSane(thread[c])
  BY Zenon DEF ApiInv, ThreadInv
<1>2. CASE sendRawEnvelope(c)
  <2> DEFINE t == thread[c]
  <2>1. s_current' = s_current /\ apiInits' = apiInits /\ statusMutex' = statusMutex /\ statuses' = statuses
    BY <1>2 DEF sendRawEnvelope
  <2>2. CASE HasRoom(t.self, QueueOf(t.call)) /\ Push(t.self, QueueOf(t.call)) /\ Becomes(c, ok(t))
    <3>1. t.self \in Instances
      BY <2>2, SelfIsInstance DEF HasRoom
    <3>2. LinksOK' /\ Unnoticed
      BY <2>2, <3>1, PushUnnoticed DEF QueueOf
    <3> QED
      BY <1>1, <2>1, <2>2, <3>2, OkInOrder, OrdinaryStep DEF ApiInv
  <2>3. CASE UNCHANGED link /\ Becomes(c, fail(t, Refusal(c), "refused"))
    <3>1. Refusal(c) \in Results \ {"SUCCESS", "ERROR_BUFFER_TOO_SMALL"} /\ "refused" \in Reasons
      BY DEF Refusal, Results, Reasons
    <3> QED
      BY <1>1, <2>1, <2>3, <3>1, FailInOrder, OwnStep
  <2> QED
    BY <1>2, <2>2, <2>3 DEF sendRawEnvelope
<1>3. ASSUME NEW call \in {"sendData", "sendDataWithReply", "setCluster", "replyToSender", "waitForConnection"}, Snapshot(c, call)
      PROVE  ApiInv'
  <2>1. ThreadSane(Called(thread[c], call))
    BY <1>1, CalledSane DEF CallNames
  <2>2. s_current \in 0 .. MaxInits
    BY DEF ApiInv
  <2> QED
    BY Zenon, <1>3, <2>1, <2>2, FieldsChange, OwnStep DEF Snapshot
<1> QED
  BY <1>2, <1>3

(* A reply topic is within the limit, whatever the request's, and reserved only   *)
(* when that is.                                                                  *)
LEMMA MadeIsTaken ==
    ASSUME NEW topic \in RequestTopics
    PROVE  Made(topic) \in ReplyTopics /\ IsTaken(Made(topic)) /\ Made(topic).length \in Nat
<1>1. topic.length \in Nat /\ topic.reserved \in BOOLEAN
  BY ApiAssumption DEF RequestTopics
<1>2. Kept(topic.length) + SuffixLength \in 1 .. MaxTopicLength
  BY <1>1, ApiAssumption DEF Kept
<1>3. (topic.reserved /\ Kept(topic.length) >= ReservedPrefix) \in BOOLEAN
  OBVIOUS
<1>4. /\ Made(topic).length = Kept(topic.length) + SuffixLength
      /\ Made(topic).reserved = (topic.reserved /\ Kept(topic.length) >= ReservedPrefix)
      /\ Made(topic).ofReserved = topic.reserved
  BY Zenon DEF Made
<1>5. Kept(topic.length) + SuffixLength \in Nat
  BY <1>2, ApiAssumption
<1>6. Made(topic) \in ReplyTopics
  BY Zenon, <1>1, <1>3, <1>5 DEF Made, ReplyTopics
<1>7. ~ topic.reserved => ~ Made(topic).reserved
  BY Zenon, <1>4
<1>8. IsTaken(Made(topic))
  BY Zenon, <1>2, <1>4, <1>7 DEF IsTaken, replyTopicOk
<1> QED
  BY <1>4, <1>5, <1>6, <1>8

(* The calls that fill a buffer.                                                  *)
LEMMA BufferCalls ==
    ASSUME ApiInv, NEW c \in ApiThreads,
           \/ \E topic \in RequestTopics, cap \in Capacities : makeReplyTopic(c, topic, cap)
           \/ \E cap \in Capacities : RequestBegins(c, cap)
           \/ RequestQueued(c) \/ RequestEnds(c)
    PROVE  ApiInv'
<1>1. ThreadSane(thread[c])
  BY Zenon DEF ApiInv, ThreadInv
<1>2. ASSUME NEW topic \in RequestTopics, NEW cap \in Capacities, makeReplyTopic(c, topic, cap)
      PROVE  ApiInv'
  <2> DEFINE s == Made(topic).length + 1
  <2> DEFINE b == Called(thread[c], "makeReplyTopic")
  <2> DEFINE t == [b EXCEPT !.cap = cap, !.outLen = s]
  <2> DEFINE u == [t EXCEPT !.written = s, !.made = Made(topic)]
  <2>1. ThreadSane(b)
    BY <1>1, CalledSane DEF CallNames
  <2>2. b.written = 0
    BY Zenon, <1>1 DEF Called, ThreadSane, Threads
  <2>3. cap \in Nat /\ s \in Nat /\ Made(topic) \in ReplyTopics /\ IsTaken(Made(topic))
    BY MadeIsTaken, ApiAssumption
  <2>4. Becomes(c, IF s <= cap THEN ok(u) ELSE fail(t, "ERROR_BUFFER_TOO_SMALL", "capacity"))
    BY Zenon, <1>2 DEF makeReplyTopic, Fits
  <2>5. UNCHANGED <<s_current, link, statusMutex, apiInits, statuses>>
    BY Zenon, <1>2 DEF makeReplyTopic
  <2> HIDE DEF s, b
  <2>6. t \in Threads /\ t.cap = cap /\ t.outLen = s /\ t.written = 0 /\ t.made = b.made
    BY Zenon, <2>1, <2>2, <2>3 DEF ThreadSane, Threads
  <2>7. u \in Threads /\ u.cap = cap /\ u.written = s /\ u.made = Made(topic)
    BY Zenon, <2>1, <2>2, <2>3 DEF ThreadSane, Threads
  <2> HIDE DEF t, u
  <2>8. ThreadSane(t)
    BY <2>1, <2>3, <2>6 DEF ThreadSane
  <2>9. CASE s <= cap
    <3>1. ThreadSane(u)
      BY <2>3, <2>7, <2>9 DEF ThreadSane
    <3>2. Becomes(c, ok(u))
      BY <2>4, <2>9
    <3> QED
      BY <2>5, <3>1, <3>2, OkInOrder, OwnStep
  <2>10. CASE ~ (s <= cap)
    <3>1. Becomes(c, fail(t, "ERROR_BUFFER_TOO_SMALL", "capacity"))
      BY <2>4, <2>10
    <3>2. t.outLen > t.cap
      BY <2>3, <2>6, <2>10
    <3>3. "ERROR_BUFFER_TOO_SMALL" \in Results \ {"SUCCESS"} /\ "capacity" \in Reasons
      BY DEF Results, Reasons
    <3> QED
      BY <2>5, <2>8, <3>1, <3>2, <3>3, FailInOrder, OwnStep
  <2> QED
    BY <2>9, <2>10
<1>3. ASSUME NEW cap \in Capacities, RequestBegins(c, cap)
      PROVE  ApiInv'
  <2> DEFINE b == Called(thread[c], "sendRequest")
  <2> DEFINE t == [b EXCEPT !.cap = cap]
  <2>1. ThreadSane(b)
    BY <1>1, CalledSane DEF CallNames
  <2>2. b.written = 0
    BY Zenon, <1>1 DEF Called, ThreadSane, Threads
  <2>3. \/ Becomes(c, [t EXCEPT !.at = "asks"]) \/ Becomes(c, fail(t, "ERROR_NO_CONNECTION", "offline"))
    BY Zenon, <1>3 DEF RequestBegins
  <2>4. UNCHANGED <<s_current, link, statusMutex, apiInits, statuses>>
    BY Zenon, <1>3 DEF RequestBegins
  <2>5. cap \in Nat
    BY ApiAssumption
  <2> HIDE DEF b
  <2>6. t \in Threads /\ t.cap = cap /\ t.written = 0 /\ t.made = b.made
    BY Zenon, <2>1, <2>2, <2>5 DEF ThreadSane, Threads
  <2> HIDE DEF t
  <2>7. ThreadSane(t)
    BY <2>1, <2>5, <2>6 DEF ThreadSane
  <2>8. CASE Becomes(c, [t EXCEPT !.at = "asks"])
    <3>1. 0 \in Nat /\ 0 \in 0 .. MaxInits
      BY ApiAssumption
    <3> QED
      BY Zenon, <2>4, <2>7, <2>8, <3>1, FieldsChange, OwnStep
  <2>9. CASE Becomes(c, fail(t, "ERROR_NO_CONNECTION", "offline"))
    BY <2>4, <2>7, <2>9, FailInOrder, OwnStep DEF Results, Reasons
  <2> QED
    BY <2>3, <2>8, <2>9
<1>4. CASE RequestQueued(c)
  <2> DEFINE t == [thread[c] EXCEPT !.self = s_current]
  <2>1. s_current \in 0 .. MaxInits /\ 0 \in Nat /\ 0 \in 0 .. MaxInits
    BY ApiAssumption DEF ApiInv
  <2>2. ThreadSane(t)
    BY Zenon, <1>1, <2>1, FieldsChange
  <2>3. \/ HasRoom(s_current, "outbound") /\ Push(s_current, "outbound") /\ Becomes(c, [t EXCEPT !.at = "awaits"])
        \/ UNCHANGED link /\ Becomes(c, fail(t, "ERROR_TIMEOUT", "reply"))
    BY <1>4 DEF RequestQueued
  <2>4. UNCHANGED <<s_current, statusMutex, apiInits, statuses>>
    BY <1>4 DEF RequestQueued
  <2> HIDE DEF t
  <2>5. CASE HasRoom(s_current, "outbound") /\ Push(s_current, "outbound") /\ Becomes(c, [t EXCEPT !.at = "awaits"])
    <3>1. s_current \in Instances
      BY <2>1, <2>5, ApiAssumption DEF HasRoom, Instances
    <3>2. LinksOK' /\ Unnoticed
      BY <2>5, <3>1, PushUnnoticed
    <3>3. ThreadInv([t EXCEPT !.at = "awaits"]) /\ [t EXCEPT !.at = "awaits"].at = "awaits"
      BY Zenon, <2>1, <2>2, FieldsChange
    <3> QED
      BY Zenon, <2>4, <2>5, <3>2, <3>3, OrdinaryStep DEF ApiInv
  <2>6. CASE UNCHANGED link /\ Becomes(c, fail(t, "ERROR_TIMEOUT", "reply"))
    BY <2>2, <2>4, <2>6, FailInOrder, OwnStep DEF Results, Reasons
  <2> QED
    BY <2>3, <2>5, <2>6
<1>5. CASE RequestEnds(c)
  <2>1. UNCHANGED <<s_current, link, statusMutex, apiInits, statuses>>
    BY <1>5 DEF RequestEnds
  <2>2. CASE Becomes(c, fail(thread[c], "ERROR_TIMEOUT", "reply"))
    BY <1>1, <2>1, <2>2, FailInOrder, OwnStep DEF Results, Reasons
  <2>3. ASSUME NEW size \in ReplySizes, Becomes(c, ReplyCame(thread[c], size))
        PROVE  ApiInv'
    <3> DEFINE b == thread[c]
    <3> DEFINE t == [b EXCEPT !.outLen = size]
    <3> DEFINE u == [b EXCEPT !.outLen = size, !.written = size]
    <3>1. size \in Nat /\ ThreadSane(b)
      BY <1>1, ApiAssumption
    <3>2. Becomes(c, IF size > b.cap THEN fail(t, "ERROR_BUFFER_TOO_SMALL", "capacity") ELSE ok(u))
      BY <2>3 DEF ReplyCame
    <3> HIDE DEF b
    <3>3. b \in Threads /\ b.cap \in Nat
      BY Zenon, <3>1 DEF ThreadSane, Threads
    <3>4. t \in Threads /\ t.cap = b.cap /\ t.outLen = size /\ t.written = b.written /\ t.made = b.made
      BY Zenon, <3>1, <3>3 DEF Threads
    <3>5. u \in Threads /\ u.cap = b.cap /\ u.written = size /\ u.made = b.made
      BY Zenon, <3>1, <3>3 DEF Threads
    <3> HIDE DEF t, u
    <3>6. CASE size > b.cap
      <4>1. ThreadSane(t) /\ t.outLen > t.cap
        BY <3>1, <3>4, <3>6 DEF ThreadSane
      <4>2. "ERROR_BUFFER_TOO_SMALL" \in Results \ {"SUCCESS"} /\ "capacity" \in Reasons
        BY DEF Results, Reasons
      <4> QED
        BY <2>1, <3>2, <3>6, <4>1, <4>2, FailInOrder, OwnStep
    <3>7. CASE ~ (size > b.cap)
      <4>1. ThreadSane(u)
        BY <3>1, <3>3, <3>5, <3>7 DEF ThreadSane
      <4> QED
        BY <2>1, <3>2, <3>7, <4>1, OkInOrder, OwnStep
    <3> QED
      BY <3>6, <3>7
  <2> QED
    BY <1>5, <2>2, <2>3 DEF RequestEnds
<1> QED
  BY <1>2, <1>3, <1>4, <1>5

(* A waiter looks, dozes off, sleeps, wakes and concludes.                        *)
LEMMA WaitCalls ==
    ASSUME ApiInv, NEW c \in ApiThreads, waitForConnection(c)
    PROVE  ApiInv'
<1> DEFINE t == thread[c]
<1>1. ThreadSane(t) /\ t \in Threads /\ ThreadInv(t)
  BY Zenon DEF ApiInv, ThreadInv, ThreadSane
<1>2. ASSUME NEW a \in {"dozes", "sleeps", "concludes"}, t.self # 0
      PROVE  /\ ThreadInv([t EXCEPT !.at = a]) /\ [t EXCEPT !.at = a].at = a /\ [t EXCEPT !.at = a].self = t.self
             /\ Holds([t EXCEPT !.at = a]) = (a # "sleeps")
  <2> DEFINE w == [t EXCEPT !.at = a]
  <2> HIDE DEF t
  <2>1. w \in Threads /\ w.at = a /\ w.self = t.self /\ w.written = t.written /\ w.cap = t.cap /\ w.made = t.made
    BY Zenon, <1>1 DEF Threads
  <2> HIDE DEF w
  <2>2. ThreadInv(w)
    BY Zenon, <1>1, <1>2, <2>1 DEF ThreadInv, ThreadSane
  <2>3. Holds(w) = (a # "sleeps")
    BY <2>1 DEF Holds
  <2> QED
    BY <2>1, <2>2, <2>3 DEF w
<1>3. CASE Looks(c)
  <2> DEFINE a == IF Concluded(t.self) THEN "concludes" ELSE "dozes"
  <2>1. /\ t.self # 0 /\ ~ statusMutex[t.self] /\ statusMutex' = [statusMutex EXCEPT ![t.self] = TRUE]
        /\ Becomes(c, [t EXCEPT !.at = a]) /\ UNCHANGED <<s_current, link, apiInits>>
    BY <1>3 DEF Looks
  <2>2. a \in {"dozes", "concludes"} /\ (a = "dozes" => ~ Concluded(t.self))
    OBVIOUS
  <2> HIDE DEF a, t
  <2>3. /\ ThreadInv([t EXCEPT !.at = a]) /\ [t EXCEPT !.at = a].at = a /\ [t EXCEPT !.at = a].self = t.self
        /\ Holds([t EXCEPT !.at = a]) = TRUE
    BY Zenon, <1>2, <2>1, <2>2
  <2> QED
    BY Zenon, <2>1, <2>2, <2>3, MutexStep DEF t
<1>4. CASE FallsAsleep(c)
  <2>1. /\ t.at = "dozes" /\ statusMutex' = [statusMutex EXCEPT ![t.self] = FALSE]
        /\ Becomes(c, [t EXCEPT !.at = "sleeps"]) /\ UNCHANGED <<s_current, link, apiInits>>
    BY <1>4 DEF FallsAsleep
  <2>2. t.self # 0 /\ Holds(t) /\ ~ Concluded(t.self)
    BY Zenon, <1>1, <2>1 DEF ThreadInv, Holds, ApiInv, MutexInv
  <2>3. /\ ThreadInv([t EXCEPT !.at = "sleeps"]) /\ [t EXCEPT !.at = "sleeps"].at = "sleeps"
        /\ [t EXCEPT !.at = "sleeps"].self = t.self /\ Holds([t EXCEPT !.at = "sleeps"]) = FALSE
    BY Zenon, <1>2, <2>2
  <2> QED
    BY Zenon, <2>1, <2>2, <2>3, MutexStep
<1>5. CASE TimesOut(c)
  <2>1. /\ t.at = "sleeps" /\ ~ statusMutex[t.self] /\ statusMutex' = [statusMutex EXCEPT ![t.self] = TRUE]
        /\ Becomes(c, [t EXCEPT !.at = "concludes"]) /\ UNCHANGED <<s_current, link, apiInits>>
    BY <1>5 DEF TimesOut
  <2>2. t.self # 0
    BY <1>1, <2>1 DEF ThreadInv
  <2>3. /\ ThreadInv([t EXCEPT !.at = "concludes"]) /\ [t EXCEPT !.at = "concludes"].at = "concludes"
        /\ [t EXCEPT !.at = "concludes"].self = t.self /\ Holds([t EXCEPT !.at = "concludes"]) = TRUE
    BY Zenon, <1>2, <2>2
  <2> QED
    BY Zenon, <2>1, <2>2, <2>3, MutexStep
<1>6. CASE Concludes(c)
  <2>1. /\ t.at = "concludes" /\ statusMutex' = [statusMutex EXCEPT ![t.self] = FALSE]
        /\ Becomes(c, ok(t)) \/ Becomes(c, [t EXCEPT !.at = "explains"])
        /\ UNCHANGED <<s_current, link, apiInits>>
    BY <1>6 DEF Concludes
  <2>2. t.self # 0 /\ Holds(t)
    BY <1>1, <2>1 DEF ThreadInv, Holds
  <2>3. CASE Becomes(c, ok(t))
    <3>1. ThreadInv(ok(t)) /\ ok(t).at = "idle"
      BY <1>1, OkInOrder
    <3>2. ok(t).self = t.self
      BY Zenon, <1>1 DEF ok, Returned, Threads
    <3>3. Holds(ok(t)) = FALSE
      BY <3>1 DEF Holds
    <3> QED
      BY Zenon, <2>1, <2>2, <2>3, <3>1, <3>2, <3>3, MutexStep
  <2>4. CASE Becomes(c, [t EXCEPT !.at = "explains"])
    <3> DEFINE w == [t EXCEPT !.at = "explains"]
    <3>1. 0 \in Nat /\ 0 \in 0 .. MaxInits
      BY ApiAssumption
    <3>2. ThreadInv(w) /\ w.at = "explains"
      BY Zenon, <1>1, <3>1, FieldsChange
    <3>3. w.self = t.self
      BY Zenon, <1>1 DEF Threads
    <3>4. Becomes(c, w)
      BY <2>4
    <3> HIDE DEF w
    <3>5. Holds(w) = FALSE
      BY <3>2 DEF Holds
    <3> QED
      BY Zenon, <2>1, <2>2, <3>2, <3>3, <3>4, <3>5, MutexStep
  <2> QED
    BY <2>1, <2>3, <2>4
<1>7. CASE Explains(c)
  <2>1. Becomes(c, fail(t, "ERROR_NO_CONNECTION", "init")) \/ Becomes(c, fail(t, "ERROR_TIMEOUT", "timeout"))
    BY <1>7 DEF Explains
  <2>2. UNCHANGED <<s_current, link, statusMutex, apiInits, statuses>>
    BY <1>7 DEF Explains
  <2> QED
    BY <1>1, <2>1, <2>2, FailInOrder, OwnStep DEF Results, Reasons
<1> QED
  BY <1>3, <1>4, <1>5, <1>6, <1>7 DEF waitForConnection

(* shutdownConnection ends the instance and wakes whoever waits for it.           *)
LEMMA ShutdownCall ==
    ASSUME ApiInv, NEW c \in ApiThreads, shutdownConnection(c)
    PROVE  ApiInv'
<1> DEFINE t == ok(Called(thread[c], "shutdownConnection"))
<1> DEFINE after == [thread EXCEPT ![c] = t]
<1>1. ThreadSane(Called(thread[c], "shutdownConnection"))
  BY Zenon, CalledSane DEF ApiInv, ThreadInv, CallNames
<1>2. ThreadInv(t) /\ t.at = "idle" /\ t \in Threads
  BY Zenon, <1>1, OkInOrder DEF ThreadInv, ThreadSane
<1>3. /\ \/ s_current = 0 /\ thread' = after /\ UNCHANGED <<s_current, link>>
         \/ /\ s_current # 0 /\ ~ statusMutex[s_current]
            /\ link' = [link EXCEPT ![s_current].running = FALSE]
            /\ thread' = Notified(s_current, after) /\ s_current' = 0
      /\ UNCHANGED <<statusMutex, apiInits, statuses>>
  BY DEF shutdownConnection
<1> HIDE DEF t
<1>4. CASE thread' = after /\ UNCHANGED <<s_current, link>>
  BY Zenon, <1>2, <1>3, <1>4, OwnStep DEF Becomes
<1>5. CASE /\ s_current # 0 /\ ~ statusMutex[s_current]
           /\ link' = [link EXCEPT ![s_current].running = FALSE]
           /\ thread' = Notified(s_current, after) /\ s_current' = 0
  <2>1. s_current \in Instances
    BY <1>5, ApiAssumption DEF ApiInv, Instances
  <2>2. LinksOK' /\ \A m \in Instances : m # s_current => link'[m] = link[m]
    BY Zenon, <1>5, <2>1 DEF ApiInv, LinksOK
  <2>3. after \in [ApiThreads -> Threads]
    BY <1>2 DEF ApiInv
  <2>4. \A d \in ApiThreads : ThreadInv(after[d]) /\ (after[d] = thread[d] \/ after[d].at = "idle")
    BY <1>2 DEF ApiInv
  <2>5. s_current' \in 0 .. MaxInits /\ apiInits' \in 0 .. MaxInits
    BY <1>3, <1>5, ApiAssumption DEF ApiInv
  <2> HIDE DEF after
  <2> QED
    BY <1>3, <1>5, <2>1, <2>2, <2>3, <2>4, <2>5, NotifyingStep
<1> QED
  BY <1>3, <1>4, <1>5

(* The worker's own steps.                                                        *)
LEMMA WorkerSteps ==
    ASSUME ApiInv, NEW n \in Instances, WorkerDrains(n) \/ \E connected \in BOOLEAN : statusHandler(n, connected)
    PROVE  ApiInv'
<1>1. ASSUME NEW connected \in BOOLEAN, statusHandler(n, connected)
      PROVE  ApiInv'
  <2>1. /\ ~ statusMutex[n] /\ link' = [link EXCEPT ![n].connected = connected] /\ thread' = Notified(n, thread)
        /\ UNCHANGED <<s_current, statusMutex, apiInits>>
    BY <1>1 DEF statusHandler
  <2>2. LinksOK' /\ \A m \in Instances : m # n => link'[m] = link[m]
    BY <2>1 DEF ApiInv, LinksOK
  <2>3. thread \in [ApiThreads -> Threads] /\ \A c \in ApiThreads : ThreadInv(thread[c])
    BY DEF ApiInv
  <2>4. s_current' \in 0 .. MaxInits /\ apiInits' \in 0 .. MaxInits
    BY <2>1 DEF ApiInv
  <2> QED
    BY <2>1, <2>2, <2>3, <2>4, NotifyingStep
<1>2. CASE WorkerDrains(n)
  <2>1. UNCHANGED <<s_current, statusMutex, thread, apiInits>>
    BY <1>2 DEF WorkerDrains
  <2>2. link' = [link EXCEPT ![n].control = 0] \/ link' = [link EXCEPT ![n].outbound = 0]
    BY <1>2 DEF WorkerDrains
  <2>3. LinksOK' /\ \A m \in Instances : link'[m].connected = link[m].connected /\ link'[m].running = link[m].running
    BY <2>2 DEF ApiInv, LinksOK
  <2>4. MutexInv'
    <3>1. \A c \in ApiThreads : thread[c].at \in {"dozes", "sleeps"} => thread[c].self \in Instances
      BY Zenon, SelfIsInstance DEF ApiInv, ThreadInv
    <3>2. \A m \in Instances : ~ Concluded(m) => ~ Concluded(m)'
      BY <2>3 DEF Concluded
    <3>3. \A c \in ApiThreads : thread'[c].at \in {"dozes", "sleeps"} => ~ Concluded(thread[c].self)'
      BY <2>1, <2>3, <3>1 DEF ApiInv, MutexInv, Concluded
    <3> QED
      BY <2>1, <3>3 DEF ApiInv, MutexInv, Holds
  <2>5. \A c \in ApiThreads : ThreadInv(thread[c])'
    BY Zenon, <2>1 DEF ApiInv, ThreadInv, ThreadSane, replyTopicOk
  <2> QED
    BY <2>1, <2>3, <2>4, <2>5 DEF ApiInv
<1> QED
  BY <1>1, <1>2

(* The invariant holds at the start.                                              *)
LEMMA ApiStarts == ApiInit => ApiInv
<1> SUFFICES ASSUME ApiInit PROVE ApiInv
  OBVIOUS
<1>1. \A c \in ApiThreads : thread[c] = Quiet
  BY DEF ApiInit
<1>2. /\ Quiet \in Threads /\ Quiet.at = "idle" /\ Quiet.lastError = "" /\ Quiet.result = "SUCCESS"
      /\ Quiet.written = 0 /\ Quiet.cap = 0 /\ Quiet.made = NoTopic
  BY ApiAssumption DEF Quiet, NoTopic, ReplyTopics, Threads, CallNames, Results
<1>3. ThreadInv(Quiet)
  <2>1. ThreadSane(Quiet)
    <3>1. \A t \in Threads : t.written = 0 /\ t.cap = 0 /\ t.made = NoTopic => ThreadSane(t)
      BY DEF ThreadSane, IsTaken, NoTopic
    <3> QED
      BY <1>2, <3>1, Zenon
  <2> QED
    BY Zenon, <1>2, <2>1 DEF ThreadInv
<1>4. MutexInv
  BY Zenon, <1>1, <1>2 DEF MutexInv, Holds
<1>5. LinksOK
  BY DEF ApiInit, LinksOK
<1>6. thread \in [ApiThreads -> Threads]
  BY Zenon, <1>2 DEF ApiInit
<1>7. s_current \in 0 .. MaxInits /\ apiInits \in 0 .. MaxInits /\ statusMutex \in [Instances -> BOOLEAN]
  BY ApiAssumption DEF ApiInit
<1> QED
  BY <1>1, <1>3, <1>4, <1>5, <1>6, <1>7 DEF ApiInv

(* The invariant holds of every state of the C interface.                         *)
THEOREM ApiInvariant == ApiSpec => []ApiInv
<1>1. ApiInv /\ [ApiNext]_apiVars => ApiInv'
  <2> SUFFICES ASSUME ApiInv, [ApiNext]_apiVars
               PROVE  ApiInv'
    OBVIOUS
  <2>1. CASE UNCHANGED apiVars
    <3>1. MutexInv'
      BY <2>1 DEF apiVars, ApiInv, MutexInv, Holds, Concluded
    <3>2. \A c \in ApiThreads : ThreadInv(thread[c])'
      BY Zenon, <2>1 DEF apiVars, ApiInv, ThreadInv, ThreadSane, replyTopicOk
    <3>3. LinksOK'
      BY <2>1 DEF apiVars, ApiInv, LinksOK
    <3> QED
      BY <2>1, <3>1, <3>2, <3>3 DEF apiVars, ApiInv
  <2>2. CASE ApiNext
    BY <2>2, ShortCalls, SendingCalls, BufferCalls, WaitCalls, ShutdownCall, WorkerSteps DEF ApiNext
  <2> QED
    BY <2>1, <2>2
<1> QED
  BY <1>1, ApiStarts, PTL DEF ApiSpec

(* For any threads, instances, buffers and topics, every call of the C interface  *)
(* leaves its own message, overruns no buffer, and makes reply topics that pass.  *)
THEOREM ApiCallsCorrect == ApiSpec => []CallsKeepTheirWord
<1>1. ApiInv => CallsKeepTheirWord
  <2> SUFFICES ASSUME ApiInv, NEW c \in ApiThreads
               PROVE  /\ thread[c].at = "idle" => (thread[c].lastError = "") = (thread[c].result = "SUCCESS")
                      /\ thread[c].written <= thread[c].cap
                      /\ thread[c].at = "idle" /\ thread[c].result = "ERROR_BUFFER_TOO_SMALL" => thread[c].outLen > thread[c].cap
                      /\ IsTaken(thread[c].made)
    BY Zenon DEF CallsKeepTheirWord, ErrorIsOfLastCall, BuffersHold, MadeTopicIsTaken
  <2> QED
    BY Zenon DEF ApiInv, ThreadInv, ThreadSane
<1> QED
  BY <1>1, ApiInvariant, PTL

(* No waiter sleeps through the connection or the shutdown that it waits for: a   *)
(* waiter looks under the mutex that every change is made under.                  *)
THEOREM WaitersCorrect == ApiSpec => []WaiterIsWoken
<1>1. ApiInv => WaiterIsWoken
  BY DEF ApiInv, MutexInv, WaiterIsWoken
<1> QED
  BY <1>1, ApiInvariant, PTL
--------------------------------------------------------------------------------
(* What is among the messages of a queue that grows at its end.                 *)
LEMMA AmongAppend ==
    ASSUME NEW M, NEW q \in Seq(M), NEW x \in M, NEW m
    PROVE  Among(m, Append(q, x)) <=> Among(m, q) \/ x = m
<1>1. /\ Len(q) \in Nat /\ DOMAIN q = 1 .. Len(q)
      /\ DOMAIN Append(q, x) = 1 .. (Len(q) + 1)
      /\ \A i \in 1 .. Len(q) : Append(q, x)[i] = q[i]
      /\ Append(q, x)[Len(q) + 1] = x
    BY LenProperties
<1>2. \A i \in 1 .. (Len(q) + 1) : i \in 1 .. Len(q) \/ i = Len(q) + 1
    BY <1>1
<1>3. Len(q) + 1 \in 1 .. (Len(q) + 1) /\ \A i \in 1 .. Len(q) : i \in 1 .. (Len(q) + 1)
    BY <1>1
<1> QED BY <1>1, <1>2, <1>3, Zenon DEF Among

(* What is among the messages of two queues, one behind the other.              *)
LEMMA AmongConcat ==
    ASSUME NEW M, NEW q \in Seq(M), NEW r \in Seq(M), NEW m
    PROVE  Among(m, q \o r) <=> Among(m, q) \/ Among(m, r)
<1>1. /\ Len(q) \in Nat /\ DOMAIN q = 1 .. Len(q) /\ Len(r) \in Nat /\ DOMAIN r = 1 .. Len(r)
      /\ DOMAIN (q \o r) = 1 .. (Len(q) + Len(r))
      /\ \A i \in 1 .. (Len(q) + Len(r)) :
            (q \o r)[i] = IF i <= Len(q) THEN q[i] ELSE r[i - Len(q)]
    BY LenProperties, ConcatProperties
<1>2. ASSUME NEW i \in 1 .. Len(q), q[i] = m PROVE Among(m, q \o r)
    BY <1>1, <1>2 DEF Among
<1>3. ASSUME NEW i \in 1 .. Len(r), r[i] = m PROVE Among(m, q \o r)
  <2>1. i + Len(q) \in 1 .. (Len(q) + Len(r)) /\ ~ (i + Len(q) <= Len(q)) /\ (i + Len(q)) - Len(q) = i
      BY <1>1
  <2> QED BY <1>1, <1>3, <2>1 DEF Among
<1>4. ASSUME NEW i \in 1 .. (Len(q) + Len(r)), (q \o r)[i] = m PROVE Among(m, q) \/ Among(m, r)
  <2>1. CASE i <= Len(q)
    <3>1. i \in 1 .. Len(q) /\ q[i] = m
        BY <1>1, <1>4, <2>1
    <3> QED BY <1>1, <3>1, Zenon DEF Among
  <2>2. CASE ~ (i <= Len(q))
    <3>1. i - Len(q) \in 1 .. Len(r) /\ r[i - Len(q)] = m
        BY <1>1, <1>4, <2>2
    <3> QED BY <1>1, <3>1, Zenon DEF Among
  <2> QED BY <2>1, <2>2
<1> QED BY <1>1, <1>2, <1>3, <1>4, Zenon DEF Among

(* What is among the messages of a queue that is read from its head.            *)
LEMMA AmongTail ==
    ASSUME NEW M, NEW q \in Seq(M), q # <<>>, NEW m
    PROVE  /\ Among(m, q) <=> Head(q) = m \/ Among(m, Tail(q))
           /\ Len(Tail(q)) = Len(q) - 1
           /\ \A i \in DOMAIN Tail(q) : Tail(q)[i] = q[i + 1] /\ i + 1 \in DOMAIN q
<1>1. /\ Len(q) \in Nat \ {0} /\ DOMAIN q = 1 .. Len(q) /\ Head(q) = q[1]
      /\ Len(Tail(q)) = Len(q) - 1 /\ DOMAIN Tail(q) = 1 .. (Len(q) - 1)
      /\ \A i \in 1 .. (Len(q) - 1) : Tail(q)[i] = q[i + 1] /\ i + 1 \in 1 .. Len(q)
    BY LenProperties, HeadTailProperties, EmptySeq
<1>2. 1 \in 1 .. Len(q)
    BY <1>1
<1>3. ASSUME NEW i \in 1 .. Len(q), q[i] = m PROVE Head(q) = m \/ Among(m, Tail(q))
  <2>1. CASE i = 1
      BY <1>1, <1>3, <2>1
  <2>2. CASE i # 1
    <3>1. i - 1 \in 1 .. (Len(q) - 1) /\ (i - 1) + 1 = i
        BY <1>1, <2>2
    <3>2. Tail(q)[i - 1] = m
        BY <1>1, <1>3, <3>1
    <3> QED BY <1>1, <3>1, <3>2, Zenon DEF Among
  <2> QED BY <2>1, <2>2
<1>4. Head(q) = m => Among(m, q)
    BY <1>1, <1>2, Zenon DEF Among
<1>5. Among(m, Tail(q)) => Among(m, q)
    BY <1>1, Zenon DEF Among
<1>6. Among(m, q) => Head(q) = m \/ Among(m, Tail(q))
    BY <1>1, <1>3, Zenon DEF Among
<1> QED BY <1>1, <1>4, <1>5, <1>6

(* A function on 1 .. n is a sequence.                                          *)
LEMMA FunctionIsSeq ==
    ASSUME NEW M, NEW n \in Nat, NEW f \in [1 .. n -> M]
    PROVE  f \in Seq(M)
BY SeqDef, Zenon

(* The empty queue has no message.                                              *)
LEMMA AmongNone == ASSUME NEW m PROVE ~ Among(m, <<>>)
BY DEF Among

(* The sequence of a set of one element.                                        *)
LEMMA OneInSequence == ASSUME NEW x PROVE SetToSeq({x}) = <<x>>
<1>1. Cardinality({x}) = 1
    BY FS_Singleton, Zenon
<1> DEFINE One == [i \in 1 .. 1 |-> x]
<1>2. One \in [1 .. 1 -> {x}] /\ IsInjective(One)
    BY DEF IsInjective
<1>3. \A f \in [1 .. 1 -> {x}] : f = One
    OBVIOUS
<1> HIDE DEF One
<1>4. SetToSeq({x}) = CHOOSE f \in [1 .. 1 -> {x}] : IsInjective(f)
    BY <1>1, Zenon DEF SetToSeq
<1>5. (CHOOSE f \in [1 .. 1 -> {x}] : IsInjective(f)) \in [1 .. 1 -> {x}]
    BY <1>2, Zenon
<1>6. SetToSeq({x}) = One
    BY <1>3, <1>4, <1>5, Zenon
<1>7. One = <<x>>
    BY DEF One
<1> QED BY <1>6, <1>7

(* The kinds of messages on the wire are told apart by their key.               *)
LEMMA WireKinds ==
    ASSUME NEW m \in WireMessages
    PROVE  /\ m[1] = "data" <=> m = <<"data">>
           /\ m[1] = "DISCONNECT" <=> m = <<"DISCONNECT">>
           /\ m[1] = "SUBSCRIBE" => m[2] \in CliTopics /\ m[3] \in Origin
           /\ \A o \in Origin : m = <<"SUBSCRIBE", "reply", o>> =>
                 m[1] = "SUBSCRIBE" /\ m[2] = "reply" /\ m[3] = o
           /\ m[1] \in {"data", "DISCONNECT", "SUBSCRIBE", "CONNECT"}
<1>1. CASE m = <<"data">>
    BY <1>1
<1>2. CASE m = <<"DISCONNECT">>
    BY <1>2
<1>3. CASE m = <<"CONNECT">>
    BY <1>3
<1>4. CASE m \in {"SUBSCRIBE"} \X CliTopics \X Origin
    BY <1>4
<1> QED BY <1>1, <1>2, <1>3, <1>4 DEF WireMessages, ControlMessages

(* A scope is never the scope of no subscription.                               *)
LEMMA ScopesAreScopes == NoScope \notin Origin
BY DEF NoScope, Origin, OriginLocal, OriginMesh, OriginAny

(* The broker's answers to a message from a session it does not know.           *)
LEMMA AsksType == ASSUME NEW key PROVE Asks(key) \in Seq(CliTopics \cup {"RESET"})
<1>1. "RESET" \in CliTopics \cup {"RESET"}
    OBVIOUS
<1>2. \A M : \A x \in M : <<x>> \in Seq(M) /\ <<>> \in Seq(M)
    OBVIOUS
<1>3. Asks(key) = <<>> \/ Asks(key) = <<"RESET">>
    BY Zenon DEF Asks
<1> QED BY <1>1, <1>2, <1>3, Zenon

(* What the worker hands on is of the messages that were there and that came.   *)
LEMMA HandsOnType ==
    ASSUME CliTypeOK, NEW messages \in Seq(CliTopics \cup {"RESET"}), HandsOn(messages)
    PROVE  m_inbound' \in Seq(CliTopics \cup {"RESET"})
<1> DEFINE T == CliTopics \cup {"RESET"}
           all == m_inbound \o messages
<1>1. m_inbound \in Seq(T) /\ messages \in Seq(T)
    BY DEF CliTypeOK
<1>2. m_inbound' = IF Len(all) <= InboundLimit THEN all ELSE SubSeq(all, 1, InboundLimit)
    BY Zenon DEF HandsOn, Pushed
<1> HIDE DEF T
<1>3. all \in Seq(T)
    BY <1>1, ConcatProperties
<1> HIDE DEF all
<1>4. Len(all) \in Nat
    BY <1>3, LenProperties
<1>5. CASE Len(all) <= InboundLimit
    BY <1>2, <1>3, <1>5 DEF T
<1>6. CASE ~ (Len(all) <= InboundLimit)
  <2>1. \A i \in 1 .. InboundLimit : all[i] \in T
      BY <1>3, <1>4, <1>6, InboundAssumption, ElementOfSeq
  <2>2. SubSeq(all, 1, InboundLimit) \in Seq(T)
      BY <2>1, InboundAssumption, SubSeqProperties
  <2> QED BY <1>2, <1>6, <2>2 DEF T
<1> QED BY <1>5, <1>6

(* Every command starts with the invariant.                                     *)
LEMMA CliStarts == CliInit => CliInv
<1> SUFFICES ASSUME CliInit PROVE CliInv
    OBVIOUS
<1>1. CliTypeOK
  <2>1. cliHeld \in [CliTopics -> Origin \cup {NoScope}]
      BY DEF CliInit, Origin
  <2>2. origin \in Origin
      BY DEF CliInit, Origin
  <2> QED BY <2>1, <2>2 DEF CliInit, CliTypeOK
<1>2. CliOrder
    BY DEF CliInit, CliOrder
<1>3. PublishInv
    BY DEF CliInit, PublishInv
<1>4. RequestInv
    BY AmongNone DEF CliInit, RequestInv
<1>5. RequestIsAnswerable /\ AnswerIsOwn
    BY DEF CliInit, RequestIsAnswerable, AnswerIsOwn
<1> QED BY <1>1, <1>2, <1>3, <1>4, <1>5 DEF CliInv

(* open leads with CONNECT.                                                     *)
LEMMA OpensKeeps == CliInv /\ Opens => CliInv'
<1> SUFFICES ASSUME CliInv, Opens PROVE CliInv'
    OBVIOUS
<1> USE DEF CliInv, Opens, options, cliBroker
<1>1. <<"CONNECT">> \in WireMessages /\ <<<<"CONNECT">>>> \in Seq(WireMessages)
    BY DEF WireMessages, ControlMessages
<1>2. CliTypeOK'
    BY Zenon, <1>1 DEF CliTypeOK
<1>3. CliOrder'
  <2>1. CASE step' = "failed" /\ UNCHANGED <<m_open, wire>>
      BY <2>1 DEF CliOrder
  <2>2. CASE step' = "opened" /\ m_open' = TRUE /\ wire' = <<<<"CONNECT">>>>
    <3>1. \A i \in DOMAIN wire' : wire'[i] # <<"DISCONNECT">>
        BY <2>2
    <3> QED BY <2>2, <3>1 DEF CliOrder
  <2> QED BY Zenon, <2>1, <2>2
<1>4. PublishInv'
    BY DEF PublishInv
<1>5. RequestInv'
  <2>1. cliData' = cliData /\ (Among(<<"data">>, wire') => Among(<<"data">>, wire))
      BY DEF Among
  <2> QED BY <2>1 DEF RequestInv, ReplyHeld
<1> QED BY <1>2, <1>3, <1>4, <1>5 DEF RequestIsAnswerable, AnswerIsOwn

(* A sync goes on when everything before it has been handled.                   *)
LEMMA SyncsKeeps == CliInv /\ Syncs => CliInv'
<1> SUFFICES ASSUME CliInv, Syncs PROVE CliInv'
    OBVIOUS
<1> USE DEF CliInv, Syncs, options, AllOut
<1>1. CliTypeOK'
  <2>1. m_inbound' \in Seq(CliTopics \cup {"RESET"})
      BY AsksType, HandsOnType
  <2>2. step' \in {"publishes", "subscribes", "receives", "closes"}
      BY DEF AfterSync
  <2> QED BY <2>1, <2>2 DEF CliTypeOK
<1>2. CliOrder'
    BY DEF CliOrder, CliTypeOK, AfterSync
<1>3. PublishInv'
    BY AmongNone DEF PublishInv, CliTypeOK, CliOrder, AfterSync
<1>4. RequestInv'
  <2>1. ~ ReplyAsked(cliControl) /\ ~ ReplyAsked(wire) /\ ~ Among(<<"data">>, wire) /\ cliData' = <<>>
      BY AmongNone, Zenon DEF ReplyAsked
  <2>2. wire' = wire /\ command' = command /\ (forgot' <=> forgot) /\ cliHeld' = cliHeld
      OBVIOUS
  <2>3. command = "req" => (step' = "publishes" => step = "subscribed") /\ step' # "subscribed"
      BY DEF AfterSync
  <2> HIDE DEF Syncs, AllOut
  <2> QED BY <2>1, <2>2, <2>3 DEF RequestInv, ReplyHeld
<1> QED BY <1>1, <1>2, <1>3, <1>4 DEF RequestIsAnswerable, AnswerIsOwn

(* Steps that leave queues, wire and broker alone.                              *)
LEMMA StepsAside == CliInv /\ (SyncFails \/ GivesUp \/ Interrupt) => CliInv'
<1> SUFFICES ASSUME CliInv, SyncFails \/ GivesUp \/ Interrupt PROVE CliInv'
    OBVIOUS
<1> USE DEF CliInv, options, cliBroker
<1>1. CASE SyncFails
    BY <1>1 DEF SyncFails, CliTypeOK, CliOrder, PublishInv, RequestInv, ReplyHeld, ReplyAsked,
                RequestIsAnswerable, AnswerIsOwn, AfterSync
<1>2. CASE GivesUp
    BY <1>2 DEF GivesUp, AfterLoop, CliTypeOK, CliOrder, PublishInv, RequestInv, ReplyHeld, ReplyAsked,
                RequestIsAnswerable, AnswerIsOwn
<1>3. CASE Interrupt
    BY Zenon, <1>3 DEF Interrupt, CliTypeOK, CliOrder, PublishInv, RequestInv, ReplyHeld, ReplyAsked,
                RequestIsAnswerable, AnswerIsOwn
<1> QED BY <1>1, <1>2, <1>3

(* A command that subscribes asks for one topic.                                *)
LEMMA SubscribesKeeps == CliInv /\ Subscribes => CliInv'
<1> SUFFICES ASSUME CliInv, Subscribes PROVE CliInv'
    OBVIOUS
<1> USE DEF CliInv, Subscribes, options, cliBroker
<1>1. PICK t \in CliTopics : Wanted(command) = {t} /\ (command = "req" => t = "reply")
    BY DEF CliTypeOK, CliOrder, Wanted, CliTopics
<1>2. ScopeOf(t) \in Origin
    BY DEF ScopeOf, CliTypeOK, Origin
<1> DEFINE Pair == <<t, ScopeOf(t)>>
           Message == <<"SUBSCRIBE", t, ScopeOf(t)>>
<1>3. /\ {<<u, ScopeOf(u)>> : u \in Wanted(command)} = {Pair}
      /\ {<<"SUBSCRIBE", u, ScopeOf(u)>> : u \in Wanted(command)} = {Message}
    BY <1>1
<1>4. Pair \in CliTopics \X Origin /\ Message \in ControlMessages
    BY <1>2 DEF ControlMessages
<1>5. command = "req" => \E o \in Origin : Message = <<"SUBSCRIBE", "reply", o>>
    BY <1>1, <1>2
<1> HIDE DEF Pair, Message
<1>6. m_subscriptions' = <<Pair>> /\ cliControl' = cliControl \o <<Message>>
    BY <1>3, OneInSequence, Zenon DEF subscribe
<1>7. <<Pair>> \in Seq(CliTopics \X Origin) /\ <<Message>> \in Seq(ControlMessages)
    BY <1>4
<1>8. CliTypeOK'
    BY <1>6, <1>7, ConcatProperties DEF CliTypeOK
<1>9. CliOrder'
    BY DEF CliOrder
<1>10. PublishInv'
    BY DEF PublishInv, CliOrder
<1>11. RequestInv'
  <2>1. command = "req" => ReplyAsked(cliControl')
    <3>1. Among(Message, <<Message>>)
        BY DEF Among
    <3>2. Among(Message, cliControl')
        BY Zenon, <1>6, <1>7, <3>1, AmongConcat DEF CliTypeOK
    <3> QED BY <1>5, <3>2, Zenon DEF ReplyAsked
  <2> QED BY <2>1 DEF RequestInv, ReplyHeld
<1> QED BY <1>8, <1>9, <1>10, <1>11 DEF RequestIsAnswerable, AnswerIsOwn

(* A publish queues the message and goes on to its sync.                        *)
LEMMA PublishesKeeps == CliInv /\ Publishes => CliInv'
<1> SUFFICES ASSUME CliInv, Publishes PROVE CliInv'
    OBVIOUS
<1> USE DEF CliInv, Publishes, options, cliBroker
<1>1. CliTypeOK'
  <2>1. step' \in {"published", "receives", "fails"}
      BY DEF AfterPublish
  <2>2. cliData' \in Seq({<<"data">>})
    <3>1. <<"data">> \in {<<"data">>} /\ cliData \in Seq({<<"data">>})
        BY DEF CliTypeOK
    <3>2. \A M : \A q \in Seq(M) : \A x \in M : Append(q, x) \in Seq(M)
        OBVIOUS
    <3> QED BY <3>1, <3>2, Zenon
  <2> QED BY <2>1, <2>2 DEF CliTypeOK
<1>2. CliOrder'
    BY DEF CliOrder, AfterPublish
<1>3. PublishInv'
  <2>1. step' = "published" => cliData' # <<>>
      BY DEF AfterPublish, CliTypeOK
  <2>2. step' \notin {"closes", "done"}
      BY DEF AfterPublish
  <2> QED BY <2>1, <2>2 DEF PublishInv
<1>4. RequestInv'
    BY DEF RequestInv, ReplyHeld, AfterPublish
<1> QED BY <1>1, <1>2, <1>3, <1>4 DEF RequestIsAnswerable, AnswerIsOwn

(* receive answers a RESET or prints what the command asked for.                *)
LEMMA ReceivesKeeps == CliInv /\ Receives => CliInv'
<1> SUFFICES ASSUME CliInv, Receives PROVE CliInv'
    OBVIOUS
<1> USE DEF CliInv, options, cliBroker
<1>1. /\ m_inbound \in Seq(CliTopics \cup {"RESET"}) /\ m_inbound # <<>>
      /\ m_inbound' = Tail(m_inbound) /\ step = "receives"
    BY DEF Receives, CliTypeOK
<1>2. m_inbound' \in Seq(CliTopics \cup {"RESET"}) /\ Head(m_inbound) \in CliTopics \cup {"RESET"}
    BY <1>1, HeadTailProperties
<1>3. /\ UNCHANGED <<command, origin, wire, m_open, m_subscriptions, cliData, cliHeld, handled>>
      /\ UNCHANGED <<forgot, restarted>>
    BY DEF Receives
<1>4. cliControl' \in Seq(ControlMessages)
  <2>1. CASE UNCHANGED cliControl
      BY <2>1 DEF CliTypeOK
  <2>2. CASE cliControl' = cliControl \o Resubscribes
    <3> DEFINE n == Len(m_subscriptions)
               Again == [i \in DOMAIN m_subscriptions |->
                           <<"SUBSCRIBE", m_subscriptions[i][1], m_subscriptions[i][2]>>]
    <3>1. n \in Nat /\ DOMAIN m_subscriptions = 1 .. n
          /\ \A i \in 1 .. n : m_subscriptions[i] \in CliTopics \X Origin
        BY LenProperties, ElementOfSeq DEF CliTypeOK
    <3>2. \A i \in 1 .. n : <<"SUBSCRIBE", m_subscriptions[i][1], m_subscriptions[i][2]>>
                                \in ControlMessages
        BY <3>1 DEF ControlMessages
    <3>3. Again \in [1 .. n -> ControlMessages]
        BY <3>1, <3>2, Zenon
    <3>4. Again \in Seq(ControlMessages)
      <4> HIDE DEF Again, n
      <4> QED BY <3>1, <3>3, FunctionIsSeq
    <3>5. <<<<"CONNECT">>>> \in Seq(ControlMessages)
        BY DEF ControlMessages
    <3>6. Resubscribes = <<<<"CONNECT">>>> \o Again
        BY DEF Resubscribes
    <3> HIDE DEF Again, n
    <3>7. Resubscribes \in Seq(ControlMessages)
        BY <3>4, <3>5, <3>6, ConcatProperties
    <3> QED BY <2>2, <3>7, ConcatProperties DEF CliTypeOK
  <2> QED BY <2>1, <2>2 DEF Receives
<1>5. step' \in {"receives", "closes"}
    BY <1>1 DEF Receives, AfterMessage
<1>6. CliTypeOK'
    BY <1>2, <1>3, <1>4, <1>5 DEF CliTypeOK
<1>7. CliOrder'
    BY <1>1, <1>3, <1>5 DEF CliOrder
<1>8. command # "pub"
    BY <1>1 DEF CliOrder
<1>9. PublishInv'
    BY <1>3, <1>8 DEF PublishInv
<1>10. RequestInv'
    BY <1>1, <1>3, <1>5 DEF RequestInv, ReplyHeld
<1>11. AnswerIsOwn'
    BY Zenon, <1>2, <1>3 DEF AnswerIsOwn, Receives, Takes, Wanted
<1> QED BY <1>3, <1>6, <1>7, <1>9, <1>10, <1>11 DEF RequestIsAnswerable

(* close sends DISCONNECT last, if it sends it.                                 *)
LEMMA ClosesKeeps == CliInv /\ Closes => CliInv'
<1> SUFFICES ASSUME CliInv, Closes PROVE CliInv'
    OBVIOUS
<1> USE DEF CliInv, options, cliBroker
<1>1. /\ step \in {"closes", "fails"} /\ step' = (IF step = "closes" THEN "done" ELSE "failed")
      /\ m_open' = FALSE /\ cliControl' = <<>> /\ cliData' = <<>>
      /\ UNCHANGED <<command, origin, m_subscriptions, m_inbound, cliHeld, handled, answer>>
      /\ UNCHANGED <<forgot, restarted>>
    BY DEF Closes
<1>2. PICK kept \in 0 .. Len(cliControl) + 1 :
          wire' = wire \o SubSeq(Append(cliControl, <<"DISCONNECT">>), 1, kept)
    BY Zenon DEF Closes
<1> DEFINE n == Len(cliControl)
           Tale == Append(cliControl, <<"DISCONNECT">>)
           Out == SubSeq(Tale, 1, kept)
<1>3. /\ n \in Nat /\ \A i \in 1 .. n : Tale[i] = cliControl[i] /\ cliControl[i] \in ControlMessages
      /\ Tale[n + 1] = <<"DISCONNECT">>
    BY DEF CliTypeOK
<1>4. kept \in Nat /\ \A i \in 1 .. kept : i \in 1 .. n \/ i = n + 1
    BY <1>2, <1>3
<1>5. \A m \in ControlMessages : m \in WireMessages /\ m # <<"DISCONNECT">> /\ m # <<"data">>
    BY DEF WireMessages, ControlMessages
<1>6. <<"DISCONNECT">> \in WireMessages /\ <<"DISCONNECT">> # <<"data">>
    BY DEF WireMessages
<1>7. \A i \in 1 .. kept : Tale[i] \in WireMessages /\ Tale[i] # <<"data">>
    BY <1>3, <1>4, <1>5, <1>6, Zenon
<1> HIDE DEF Tale
<1>8. /\ Out \in Seq(WireMessages) /\ Len(Out) = kept
      /\ \A i \in 1 .. kept : Out[i] = Tale[i]
  <2>1. /\ SubSeq(Tale, 1, kept) \in Seq(WireMessages)
        /\ Len(SubSeq(Tale, 1, kept)) = IF 1 <= kept THEN kept - 1 + 1 ELSE 0
        /\ \A i \in 1 .. kept - 1 + 1 : SubSeq(Tale, 1, kept)[i] = Tale[1 + i - 1]
      BY <1>4, <1>7, SubSeqProperties
  <2> QED BY <1>4, <2>1
<1> HIDE DEF Out
<1>9. wire \in Seq(WireMessages) /\ wire' = wire \o Out
    BY <1>2 DEF CliTypeOK, Out, Tale
<1>10. ~ Among(<<"data">>, Out)
    BY <1>7, <1>8, LenProperties DEF Among
<1>11. Among(<<"data">>, wire') <=> Among(<<"data">>, wire)
    BY <1>8, <1>9, <1>10, AmongConcat
<1>12. wire' \in Seq(WireMessages)
    BY <1>8, <1>9, ConcatProperties
<1>13. CliTypeOK'
    BY <1>1, <1>12 DEF CliTypeOK
<1>14. CliOrder'
  <2>1. ASSUME NEW i \in DOMAIN wire', wire'[i] = <<"DISCONNECT">> PROVE i = Len(wire')
    <3>1. /\ Len(wire) \in Nat /\ Len(wire') = Len(wire) + kept /\ i \in 1 .. (Len(wire) + kept)
          /\ wire'[i] = (IF i <= Len(wire) THEN wire[i] ELSE Out[i - Len(wire)])
      <4>1. /\ Len(wire) \in Nat /\ Len(wire \o Out) = Len(wire) + kept
            /\ \A k \in 1 .. (Len(wire) + kept) :
                  (wire \o Out)[k] = IF k <= Len(wire) THEN wire[k] ELSE Out[k - Len(wire)]
          BY Zenon, <1>8, <1>9, ConcatProperties, LenProperties
      <4>2. DOMAIN wire' = 1 .. Len(wire')
          BY <1>12, LenProperties
      <4> QED BY <1>9, <4>1, <4>2
    <3>2. CASE i <= Len(wire)
      <4>1. i \in DOMAIN wire /\ wire[i] = <<"DISCONNECT">>
          BY <1>9, <2>1, <3>1, <3>2, LenProperties
      <4> QED BY <1>1, <4>1 DEF CliOrder
    <3>3. CASE ~ (i <= Len(wire))
      <4>1. i - Len(wire) \in 1 .. kept /\ Out[i - Len(wire)] = <<"DISCONNECT">>
          BY <1>4, <2>1, <3>1, <3>3
      <4>2. Tale[i - Len(wire)] = <<"DISCONNECT">>
          BY <1>8, <4>1
      <4>3. i - Len(wire) = n + 1
          BY <1>3, <1>4, <1>5, <4>1, <4>2 DEF Tale
      <4> QED BY <1>2, <1>3, <1>4, <3>1, <4>3
    <3> QED BY <3>2, <3>3
  <2> QED BY <1>1, <2>1 DEF CliOrder
<1>15. PublishInv'
    BY <1>1 DEF PublishInv
<1>16. RequestInv'
    BY <1>1, <1>11 DEF RequestInv, ReplyHeld
<1> QED BY <1>1, <1>13, <1>14, <1>15, <1>16 DEF RequestIsAnswerable, AnswerIsOwn

(* The worker moves the head of a queue to the wire, control first.             *)
LEMMA WorkerSendsKeeps == CliInv /\ WorkerSends => CliInv'
<1> SUFFICES ASSUME CliInv, WorkerSends PROVE CliInv'
    OBVIOUS
<1> USE DEF CliInv, options, cliBroker
<1>1. /\ m_open /\ step \notin {"opens", "done", "failed"}
      /\ UNCHANGED <<command, origin, step, m_subscriptions, m_inbound, cliHeld, handled, answer>>
      /\ (m_open' <=> m_open) /\ UNCHANGED <<forgot, restarted>>
    BY DEF WorkerSends, CliOrder
<1>2. wire \in Seq(WireMessages) /\ cliControl \in Seq(ControlMessages) /\ cliData \in Seq({<<"data">>})
    BY DEF CliTypeOK
<1>3. \A i \in DOMAIN wire : wire[i] # <<"DISCONNECT">>
    BY <1>1 DEF CliOrder
<1>4. PICK m \in WireMessages :
          /\ wire' = Append(wire, m) /\ m # <<"DISCONNECT">>
          /\ cliControl' \in Seq(ControlMessages) /\ cliData' \in Seq({<<"data">>})
          /\ \A x : Among(x, cliControl) => x = m \/ Among(x, cliControl')
          /\ \/ m # <<"data">> /\ cliData' = cliData
             \/ m = <<"data">> /\ cliData # <<>>
  <2>1. CASE cliControl # <<>> /\ wire' = Append(wire, Head(cliControl))
             /\ cliControl' = Tail(cliControl) /\ UNCHANGED cliData
    <3>1. Head(cliControl) \in ControlMessages /\ Tail(cliControl) \in Seq(ControlMessages)
        BY <1>2, <2>1, HeadTailProperties
    <3>2. Head(cliControl) \in WireMessages /\ Head(cliControl) # <<"DISCONNECT">>
          /\ Head(cliControl) # <<"data">>
        BY <3>1 DEF WireMessages, ControlMessages
    <3>3. \A x : Among(x, cliControl) => x = Head(cliControl) \/ Among(x, Tail(cliControl))
        BY <1>2, <2>1, AmongTail
    <3> QED BY <1>2, <2>1, <3>1, <3>2, <3>3
  <2>2. CASE cliControl = <<>> /\ cliData # <<>> /\ wire' = Append(wire, Head(cliData))
             /\ cliData' = Tail(cliData) /\ UNCHANGED cliControl
    <3>1. Head(cliData) = <<"data">> /\ Tail(cliData) \in Seq({<<"data">>})
        BY <1>2, <2>2, HeadTailProperties
    <3>2. <<"data">> \in WireMessages /\ <<"data">> # <<"DISCONNECT">>
        BY DEF WireMessages
    <3> QED BY <1>2, <2>2, <3>1, <3>2
  <2> QED BY <2>1, <2>2 DEF WorkerSends
<1>5. \A x : Among(x, wire') <=> Among(x, wire) \/ m = x
    BY <1>2, <1>4, AmongAppend
<1>6. wire' \in Seq(WireMessages) /\ \A i \in DOMAIN wire' : wire'[i] # <<"DISCONNECT">>
  <2>1. ~ Among(<<"DISCONNECT">>, wire')
      BY Zenon, <1>3, <1>4, <1>5 DEF Among
  <2>2. wire' \in Seq(WireMessages)
      BY <1>2, <1>4
  <2> QED BY <2>1, <2>2, Zenon DEF Among
<1>7. CliTypeOK'
    BY <1>1, <1>4, <1>6 DEF CliTypeOK
<1>8. CliOrder'
    BY <1>1, <1>6 DEF CliOrder
<1>9. PublishInv'
    BY <1>1, <1>4, <1>5 DEF PublishInv
<1>10. RequestInv'
  <2>1. ReplyAsked(cliControl) => ReplyAsked(wire') \/ ReplyAsked(cliControl')
      BY <1>4, <1>5, Zenon DEF ReplyAsked
  <2>2. ReplyAsked(wire) => ReplyAsked(wire')
      BY <1>5, Zenon DEF ReplyAsked
  <2>3. Among(<<"data">>, wire') => Among(<<"data">>, wire) \/ cliData # <<>>
      BY <1>4, <1>5
  <2>4. cliData' # <<>> => cliData # <<>>
      BY <1>4, AmongNone
  <2> QED BY <1>1, <2>1, <2>2, <2>3, <2>4 DEF RequestInv, ReplyHeld
<1> QED BY <1>1, <1>7, <1>8, <1>9, <1>10 DEF RequestIsAnswerable, AnswerIsOwn

(* The broker handles what is first on the wire.                                *)
LEMMA BrokerHandlesKeeps == CliInv /\ BrokerHandles => CliInv'
<1> SUFFICES ASSUME CliInv, BrokerHandles PROVE CliInv'
    OBVIOUS
<1> USE DEF CliInv, options
<1> DEFINE m == Head(wire)
           answers == m[1] = "data" /\ command = "req" /\ cliHeld["reply"] # NoScope
<1>1. /\ wire # <<>> /\ wire' = Tail(wire)
      /\ cliHeld' = CASE m[1] = "SUBSCRIBE" -> [cliHeld EXCEPT ![m[2]] = m[3]]
                      [] m[1] = "DISCONNECT" -> [t \in CliTopics |-> NoScope]
                      [] OTHER -> cliHeld
      /\ HandsOn(Asks(m[1]) \o (IF answers THEN <<"reply">> ELSE <<>>))
      /\ handled' = handled \cup (IF m[1] # "data" THEN {}
                                ELSE IF command = "req" /\ ~ answers THEN {"unanswerable"}
                                ELSE {command})
    BY DEF BrokerHandles
<1>2. /\ UNCHANGED <<command, origin, step, m_subscriptions, cliControl, cliData, answer>>
      /\ (m_open' <=> m_open) /\ UNCHANGED <<forgot, restarted>>
    BY DEF BrokerHandles
<1>3. wire \in Seq(WireMessages) /\ m \in WireMessages /\ wire' \in Seq(WireMessages)
    BY <1>1, HeadTailProperties DEF CliTypeOK
<1>4. /\ \A x : Among(x, wire) <=> m = x \/ Among(x, wire')
      /\ Len(wire') = Len(wire) - 1 /\ Len(wire) \in Nat
      /\ \A i \in DOMAIN wire' : wire'[i] = wire[i + 1] /\ i + 1 \in DOMAIN wire /\ i \in Nat
  <2>1. DOMAIN wire' = 1 .. Len(wire') /\ Len(wire) \in Nat /\ Len(wire') \in Nat
      BY <1>3, LenProperties
  <2> QED BY <1>1, <1>3, <2>1, AmongTail
<1>5. /\ m[1] = "data" <=> m = <<"data">>
      /\ m[1] = "DISCONNECT" <=> m = <<"DISCONNECT">>
      /\ m[1] = "SUBSCRIBE" => m[2] \in CliTopics /\ m[3] \in Origin
      /\ \A o \in Origin : m = <<"SUBSCRIBE", "reply", o>> =>
            m[1] = "SUBSCRIBE" /\ m[2] = "reply" /\ m[3] = o
    BY <1>3, WireKinds
<1> HIDE DEF m
<1>6. m = <<"DISCONNECT">> => wire' = <<>> /\ ~ m_open /\ step \in {"done", "failed"}
  <2> SUFFICES ASSUME m = <<"DISCONNECT">> PROVE wire' = <<>> /\ ~ m_open /\ step \in {"done", "failed"}
      OBVIOUS
  <2>1. 1 \in DOMAIN wire /\ wire[1] = <<"DISCONNECT">>
      BY <1>1, <1>3, LenProperties, EmptySeq DEF m
  <2>2. step \in {"done", "failed"} /\ 1 = Len(wire)
      BY Zenon, <2>1 DEF CliOrder
  <2>3. Len(wire') = Len(wire) - 1
      BY <1>4, Zenon
  <2>4. Len(wire') = 0
      BY <2>2, <2>3
  <2> QED BY <1>3, <2>2, <2>4, EmptySeq DEF CliOrder
<1>7. CliTypeOK'
  <2>1. cliHeld' \in [CliTopics -> Origin \cup {NoScope}]
      BY <1>1, <1>5 DEF CliTypeOK
  <2>2. m_inbound' \in Seq(CliTopics \cup {"RESET"})
    <3> DEFINE T == CliTopics \cup {"RESET"}
               Reply == IF answers THEN <<"reply">> ELSE <<>>
    <3>1. Asks(m[1]) \in Seq(T)
        BY AsksType
    <3>2. "reply" \in T
        BY DEF CliTopics
    <3>3. Reply \in Seq(T)
      <4> HIDE DEF T, answers
      <4> QED BY <3>2
    <3>4. HandsOn(Asks(m[1]) \o Reply)
        BY <1>1
    <3> HIDE DEF T, Reply
    <3>5. Asks(m[1]) \o Reply \in Seq(T)
        BY <3>1, <3>3, ConcatProperties
    <3> QED BY Zenon, <3>4, <3>5, HandsOnType DEF T
  <2> QED BY <1>2, <1>3, <2>1, <2>2 DEF CliTypeOK
<1>8. CliOrder'
  <2>1. ASSUME NEW i \in DOMAIN wire', wire'[i] = <<"DISCONNECT">>
        PROVE  step' \in {"done", "failed"} /\ i = Len(wire')
    <3>1. i + 1 \in DOMAIN wire /\ wire[i + 1] = <<"DISCONNECT">> /\ i \in Nat
        BY <1>4, <2>1
    <3>2. step \in {"done", "failed"} /\ i + 1 = Len(wire)
        BY <3>1 DEF CliOrder
    <3> QED BY <1>2, <1>4, <3>1, <3>2
  <2> QED BY <1>2, <2>1 DEF CliOrder
<1>9. /\ m = <<"data">> => command \in handled' \/ command = "req"
      /\ handled \subseteq handled'
      /\ handled' \subseteq handled \cup {command, "unanswerable"}
      /\ "unanswerable" \in handled' /\ command # "req" => "unanswerable" \in handled
      /\ "unanswerable" \in handled' => \/ "unanswerable" \in handled
                                        \/ m = <<"data">> /\ command = "req" /\ ~ ReplyHeld
  <2>1. CASE m # <<"data">>
    <3>1. m[1] # "data"
        BY <1>5, <2>1
    <3>2. handled' = handled \cup {}
        BY <1>1, <3>1, Zenon
    <3> QED BY <2>1, <3>2
  <2>2. CASE m = <<"data">> /\ command = "req" /\ ~ ReplyHeld
      BY <1>1, <1>5, <2>2 DEF ReplyHeld
  <2>3. CASE m = <<"data">> /\ ~ (command = "req" /\ ~ ReplyHeld)
    <3>1. handled' = handled \cup {command} /\ command # "unanswerable"
        BY <1>1, <1>5, <2>3 DEF ReplyHeld, CliTypeOK
    <3> QED BY <2>3, <3>1
  <2> QED BY <2>1, <2>2, <2>3
<1>10. PublishInv'
    BY <1>2, <1>4, <1>9 DEF PublishInv
<1>11. command = "req" /\ ~ forgot /\ (cliData # <<>> \/ Among(<<"data">>, wire) \/ step = "publishes") => ReplyHeld
    BY DEF RequestInv
<1>12. ReplyHeld /\ m # <<"DISCONNECT">> => ReplyHeld'
    BY <1>1, <1>5, ScopesAreScopes DEF ReplyHeld, CliTypeOK, CliTopics
<1>13. (\E o \in Origin : m = <<"SUBSCRIBE", "reply", o>>) => ReplyHeld'
    BY <1>1, <1>5, ScopesAreScopes DEF ReplyHeld, CliTypeOK, CliTopics
<1>14. RequestInv'
  <2>1. ReplyAsked(wire) => ReplyAsked(wire') \/ ReplyHeld'
      BY <1>4, <1>13, Zenon DEF ReplyAsked
  <2>2. CASE m = <<"DISCONNECT">>
    <3>1. ~ Among(<<"data">>, wire') /\ cliData' = <<>> /\ step' \notin {"subscribed", "publishes"}
        BY <1>2, <1>6, <2>2, AmongNone DEF CliOrder
    <3> QED BY <3>1 DEF RequestInv
  <2>3. CASE m # <<"DISCONNECT">>
    <3>1. Among(<<"data">>, wire') => Among(<<"data">>, wire)
        BY <1>4
    <3> QED BY <1>2, <1>12, <2>1, <2>3, <3>1 DEF RequestInv
  <2> QED BY <2>2, <2>3
<1>15. RequestIsAnswerable'
  <2>1. m = <<"data">> => Among(<<"data">>, wire)
      BY <1>4
  <2> QED BY <1>2, <1>9, <1>11, <2>1 DEF RequestIsAnswerable
<1> QED BY <1>2, <1>7, <1>8, <1>10, <1>14, <1>15 DEF AnswerIsOwn

(* Heartbeats and traffic only fill the inbound queue.                          *)
LEMMA InboundFills == CliInv /\ (CliHeartbeat \/ \E t \in {"t", SYS_STATS} : RoutesHere(t)) => CliInv'
<1> SUFFICES ASSUME CliInv, CliHeartbeat \/ \E t \in {"t", SYS_STATS} : RoutesHere(t) PROVE CliInv'
    OBVIOUS
<1> USE DEF CliInv, options, cliBroker
<1>1. /\ UNCHANGED <<command, origin, step, wire, m_subscriptions, cliControl, cliData, cliHeld, handled, answer>>
      /\ (m_open' <=> m_open) /\ UNCHANGED <<forgot, restarted>>
    BY DEF CliHeartbeat, RoutesHere
<1>2. m_inbound' \in Seq(CliTopics \cup {"RESET"})
  <2>1. CASE CliHeartbeat
      BY Zenon, <2>1, AsksType, HandsOnType DEF CliHeartbeat
  <2>2. ASSUME NEW t \in {"t", SYS_STATS}, RoutesHere(t) PROVE m_inbound' \in Seq(CliTopics \cup {"RESET"})
    <3>1. t \in CliTopics \cup {"RESET"}
        BY DEF CliTopics
    <3>2. <<t>> \in Seq(CliTopics \cup {"RESET"})
        BY <3>1
    <3> QED BY Zenon, <2>2, <3>2, HandsOnType DEF RoutesHere
  <2> QED BY <2>1, <2>2
<1> QED BY Zenon, <1>1, <1>2 DEF CliTypeOK, CliOrder, PublishInv, RequestInv, ReplyHeld, ReplyAsked,
                         RequestIsAnswerable, AnswerIsOwn

(* A session that is forgotten is remembered as such.                           *)
LEMMA ForgottenKeeps == CliInv /\ SessionForgotten => CliInv'
<1> SUFFICES ASSUME CliInv, SessionForgotten PROVE CliInv'
    OBVIOUS
<1> USE DEF CliInv, options
<1>1. /\ UNCHANGED <<command, origin, step, m_subscriptions, cliControl, cliData, handled, answer, m_inbound>>
      /\ (m_open' <=> m_open) /\ forgot' = TRUE /\ cliHeld' = [t \in CliTopics |-> NoScope]
    BY DEF SessionForgotten
<1>2. \/ wire' = wire /\ UNCHANGED restarted
      \/ wire' = <<>> /\ restarted' = TRUE
    BY DEF SessionForgotten
<1>3. CliTypeOK'
  <2>1. wire' \in Seq(WireMessages)
      BY Zenon, <1>2, EmptySeq DEF CliTypeOK
  <2>2. cliHeld' \in [CliTopics -> Origin \cup {NoScope}]
      BY <1>1
  <2> QED BY <1>1, <2>1, <2>2 DEF CliTypeOK
<1>4. CliOrder'
  <2>1. CASE wire' = wire
      BY <1>1, <2>1 DEF CliOrder
  <2>2. CASE wire' = <<>>
      BY <1>1, <2>2 DEF CliOrder
  <2> QED BY <1>2, <2>1, <2>2
<1>5. PublishInv'
    BY <1>1, <1>2 DEF PublishInv
<1>6. RequestInv' /\ RequestIsAnswerable' /\ AnswerIsOwn'
    BY <1>1 DEF RequestInv, RequestIsAnswerable, AnswerIsOwn
<1> QED BY <1>3, <1>4, <1>5, <1>6

(* What pub, req and stats report as done has been done: a publish was routed,  *)
(* a request found its reply topic held, and what is printed was asked for.     *)
THEOREM CliCorrect == CliSpec => []SuccessIsReal
<1>1. CliInv /\ [CliNext]_cliVars => CliInv'
  <2> SUFFICES ASSUME CliInv, [CliNext]_cliVars PROVE CliInv'
      OBVIOUS
  <2>1. CASE UNCHANGED cliVars
      BY Zenon, <2>1 DEF cliVars, options, cliBroker, CliInv, CliTypeOK, CliOrder, PublishInv, RequestInv,
                  ReplyHeld, ReplyAsked, RequestIsAnswerable, AnswerIsOwn
  <2>2. CASE CliNext
      BY <2>2, OpensKeeps, SyncsKeeps, StepsAside, SubscribesKeeps, PublishesKeeps, ReceivesKeeps,
         ClosesKeeps, WorkerSendsKeeps, BrokerHandlesKeeps, InboundFills, ForgottenKeeps, Zenon
      DEF CliNext
  <2> QED BY <2>1, <2>2
<1>2. CliInv => SuccessIsReal
    BY DEF CliInv, SuccessIsReal, PublishIsConfirmed, PublishInv
<1> QED BY <1>1, <1>2, CliStarts, PTL DEF CliSpec
================================================================================
