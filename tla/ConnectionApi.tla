----------------------------- MODULE ConnectionApi -----------------------------
(* The C interface: what each call returns, the message it leaves for the       *)
(* calling thread, the buffers it fills, and the wait for the connection.       *)
(* Several threads call while the worker reports the connection.                *)
(* Models src/common/connectionapi.cpp and the calls it makes of                *)
(* src/common/connectionmanager.cpp.  Registration and dispatch are in          *)
(* ConnectionManager.                                                           *)
EXTENDS Integers, Sequences, FiniteSets

CONSTANTS ApiThreads,
          MaxInits,          \* bound: connections in the life of the process
          MaxCallsOf,        \* bound: calls of one thread
          MaxStatus,         \* bound: changes of the connection
          OutboundLimit,     \* room in each of the worker's queues
          MaxTopicLength,    \* MAX_TOPIC_LENGTH_BYTES
          SuffixLength,      \* of the dot and the uuid
          TopicLengths, Capacities, ReplySizes   \* those that are tried

ASSUME ApiAssumption ==
    /\ MaxInits \in Nat /\ MaxTopicLength \in Nat /\ SuffixLength \in 1 .. MaxTopicLength
    /\ TopicLengths \subseteq Nat /\ Capacities \subseteq Nat /\ ReplySizes \subseteq Nat

VARIABLES s_current,         \* s_instance: its number, or 0
          link,              \* of each instance: m_connected, m_running, what its queues hold
          statusMutex,       \* of each instance: whether a waiter holds m_statusMutex
          thread, apiInits, statuses
apiVars == <<s_current, link, statusMutex, thread, apiInits, statuses>>

Instances == 1 .. MaxInits

(* A topic is its length and whether it begins with "__", the reserved prefix;  *)
(* of a reply topic also whether the topic it was made for does.                *)
ReservedPrefix == 2
RequestTopics == {t \in [length : TopicLengths, reserved : BOOLEAN] : t.reserved => t.length >= ReservedPrefix}
ReplyTopics == [length : Nat, reserved : BOOLEAN, ofReserved : BOOLEAN]
NoTopic == [length |-> 0, reserved |-> FALSE, ofReserved |-> FALSE]
Quiet == [at |-> "idle", call |-> "none", self |-> 0, result |-> "SUCCESS", lastError |-> "",
          cap |-> 0, outLen |-> 0, written |-> 0, made |-> NoTopic, calls |-> 0]

ApiInit ==
    /\ s_current = 0 /\ apiInits = 0 /\ statuses = 0
    /\ link = [n \in Instances |-> [connected |-> FALSE, running |-> FALSE, outbound |-> 0, control |-> 0]]
    /\ statusMutex = [n \in Instances |-> FALSE]
    /\ thread = [c \in ApiThreads |-> Quiet]
--------------------------------------------------------------------------------
Returned(t, result, message) == [t EXCEPT !.at = "idle", !.result = result, !.lastError = message]
fail(t, result, message) == Returned(t, result, message)
ok(t) == Returned(t, "SUCCESS", "")

(* A call begins; the fields that only its own result sets start anew.          *)
Called(t, call) == [t EXCEPT !.call = call, !.calls = @ + 1, !.self = 0, !.cap = 0, !.outLen = 0, !.written = 0]
Begins(c) == thread[c].at = "idle" /\ thread[c].calls < MaxCallsOf
Becomes(c, t) == thread' = [thread EXCEPT ![c] = t]

(* registerCallbackScoped, unregisterCallback, setLogLevel, setLogHandler: what  *)
(* they do beside is in ConnectionManager, or only for the log.                 *)
VoidCall(c) ==
    /\ Begins(c)
    /\ Becomes(c, ok(Called(thread[c], "registerCallback")))
    /\ UNCHANGED <<s_current, link, statusMutex, apiInits, statuses>>

(* The exception barrier: whatever is thrown inside a call becomes its result.  *)
guard(c) ==
    /\ thread[c].at \in {"has", "asks"}
    /\ Becomes(c, fail(thread[c], "ERROR_GENERIC", "exception"))
    /\ UNCHANGED <<s_current, link, statusMutex, apiInits, statuses>>

(* Null pointers, negative lengths and timeouts, bad cluster names.             *)
InvalidArguments(c, call) ==
    /\ Begins(c)
    /\ Becomes(c, fail(Called(thread[c], call), "ERROR_INVALID_ARGS", "arguments"))
    /\ UNCHANGED <<s_current, link, statusMutex, apiInits, statuses>>

initConnection(c) ==
    /\ Begins(c)
    /\ Becomes(c, ok(Called(thread[c], "initConnection")))
    /\ \/ s_current # 0 /\ UNCHANGED <<s_current, link, apiInits>>
       \/ /\ s_current = 0 /\ apiInits < MaxInits
          /\ s_current' = apiInits + 1 /\ apiInits' = apiInits + 1
          /\ link' = [link EXCEPT ![apiInits + 1].running = TRUE]
    /\ UNCHANGED <<statusMutex, statuses>>

(* notify_all: whoever sleeps on the instance looks again.                      *)
Notified(n, threads) ==
    [c \in ApiThreads |-> IF threads[c].at = "sleeps" /\ threads[c].self = n
                          THEN [threads[c] EXCEPT !.at = "wakes"] ELSE threads[c]]

shutdownConnection(c) ==
    /\ Begins(c)
    /\ LET after == [thread EXCEPT ![c] = ok(Called(@, "shutdownConnection"))]
       IN  \/ s_current = 0 /\ thread' = after /\ UNCHANGED <<s_current, link>>
           \/ /\ s_current # 0 /\ ~ statusMutex[s_current]
              /\ link' = [link EXCEPT ![s_current].running = FALSE]
              /\ thread' = Notified(s_current, after)
              /\ s_current' = 0
    /\ UNCHANGED <<statusMutex, apiInits, statuses>>
--------------------------------------------------------------------------------
(* sendMessage, sendData, sendDataWithReply, setCluster, waitForConnection: the *)
(* instance is read, and kept for the rest of the call.                         *)
Snapshot(c, call) ==
    /\ Begins(c)
    /\ Becomes(c, [Called(thread[c], call) EXCEPT !.self = s_current, !.at = "has"])
    /\ UNCHANGED <<s_current, link, statusMutex, apiInits, statuses>>

(* SET_CLUSTER is a control key and has a queue of its own.                     *)
QueueOf(call) == IF call = "setCluster" THEN "control" ELSE "outbound"
HasRoom(n, queue) == n # 0 /\ link[n][queue] < OutboundLimit
Push(n, queue) == link' = [link EXCEPT ![n][queue] = @ + 1]
replyTopicOk(topic) == topic.length \in 1 .. MaxTopicLength /\ ~ topic.reserved

(* A refusal of sendDataWithReply is explained by looking at the instance again. *)
Refusal(c) ==
    IF thread[c].call = "sendDataWithReply" /\ s_current # 0 THEN "ERROR_INVALID_ARGS" ELSE "ERROR_NO_CONNECTION"
sendRawEnvelope(c) ==
    LET t == thread[c]
        accepted == /\ HasRoom(t.self, QueueOf(t.call))
                    /\ t.call = "sendDataWithReply" => replyTopicOk(t.made)
                    /\ t.call # "replyToSender"     \* no thread here is inside a request handler
    IN  /\ t.at = "has" /\ t.call \in {"sendData", "sendDataWithReply", "setCluster", "replyToSender"}
        /\ \/ accepted /\ Push(t.self, QueueOf(t.call)) /\ Becomes(c, ok(t))
           \/ ~ accepted /\ UNCHANGED link /\ Becomes(c, fail(t, Refusal(c), "refused"))
        /\ UNCHANGED <<s_current, statusMutex, apiInits, statuses>>

(* The request's topic is trimmed and the suffix put behind it: what it begins  *)
(* with stays.                                                                  *)
Kept(length) == LET room == MaxTopicLength - SuffixLength IN IF length < room THEN length ELSE room
Made(topic) == [length |-> Kept(topic.length) + SuffixLength,
                reserved |-> topic.reserved /\ Kept(topic.length) >= ReservedPrefix,
                ofReserved |-> topic.reserved]
FitsWithoutNul(size, cap) == size <= cap + 1
Fits(size, cap) == size <= cap
makeReplyTopic(c, topic, cap) ==
    LET size == Made(topic).length + 1
        t == [Called(thread[c], "makeReplyTopic") EXCEPT !.cap = cap, !.outLen = size]
    IN  /\ Begins(c)
        /\ Becomes(c, IF Fits(size, cap) THEN ok([t EXCEPT !.written = size, !.made = Made(topic)])
                      ELSE fail(t, "ERROR_BUFFER_TOO_SMALL", "capacity"))
        /\ UNCHANGED <<s_current, link, statusMutex, apiInits, statuses>>
--------------------------------------------------------------------------------
(* waitForConnection.  A waiter looks while it holds the mutex and gives it up  *)
(* only by falling asleep or by returning.                                      *)
Concluded(n) == link[n].connected \/ ~ link[n].running

Looks(c) ==
    LET t == thread[c]
    IN  /\ t.call = "waitForConnection" /\ t.at \in {"has", "wakes"} /\ t.self # 0 /\ ~ statusMutex[t.self]
        /\ statusMutex' = [statusMutex EXCEPT ![t.self] = TRUE]
        /\ Becomes(c, [t EXCEPT !.at = IF Concluded(t.self) THEN "concludes" ELSE "dozes"])
        /\ UNCHANGED <<s_current, link, apiInits, statuses>>
FallsAsleep(c) ==
    /\ thread[c].at = "dozes"
    /\ statusMutex' = [statusMutex EXCEPT ![thread[c].self] = FALSE]
    /\ Becomes(c, [thread[c] EXCEPT !.at = "sleeps"])
    /\ UNCHANGED <<s_current, link, apiInits, statuses>>
TimesOut(c) ==
    /\ thread[c].at = "sleeps" /\ ~ statusMutex[thread[c].self]
    /\ statusMutex' = [statusMutex EXCEPT ![thread[c].self] = TRUE]
    /\ Becomes(c, [thread[c] EXCEPT !.at = "concludes"])
    /\ UNCHANGED <<s_current, link, apiInits, statuses>>
Concludes(c) ==
    LET t == thread[c]
    IN  /\ t.at = "concludes"
        /\ statusMutex' = [statusMutex EXCEPT ![t.self] = FALSE]
        /\ Becomes(c, IF link[t.self].connected THEN ok(t) ELSE [t EXCEPT !.at = "explains"])
        /\ UNCHANGED <<s_current, link, apiInits, statuses>>
Explains(c) ==
    LET t == thread[c]
    IN  /\ t.at = "explains" \/ (t.call = "waitForConnection" /\ t.at = "has" /\ t.self = 0)
        /\ Becomes(c, IF s_current = 0 THEN fail(t, "ERROR_NO_CONNECTION", "init") ELSE fail(t, "ERROR_TIMEOUT", "timeout"))
        /\ UNCHANGED <<s_current, link, statusMutex, apiInits, statuses>>
waitForConnection(c) == Looks(c) \/ FallsAsleep(c) \/ TimesOut(c) \/ Concludes(c) \/ Explains(c)
--------------------------------------------------------------------------------
(* sendRequest: the connection is tested first, the instance read again after.  *)
RequestBegins(c, cap) ==
    LET t == [Called(thread[c], "sendRequest") EXCEPT !.cap = cap]
    IN  /\ Begins(c)
        /\ Becomes(c, IF s_current # 0 /\ link[s_current].connected THEN [t EXCEPT !.at = "asks"]
                      ELSE fail(t, "ERROR_NO_CONNECTION", "offline"))
        /\ UNCHANGED <<s_current, link, statusMutex, apiInits, statuses>>
RequestQueued(c) ==
    LET t == [thread[c] EXCEPT !.self = s_current]
    IN  /\ t.at = "asks"
        /\ \/ HasRoom(s_current, "outbound") /\ Push(s_current, "outbound") /\ Becomes(c, [t EXCEPT !.at = "awaits"])
           \/ ~ HasRoom(s_current, "outbound") /\ UNCHANGED link /\ Becomes(c, fail(t, "ERROR_TIMEOUT", "reply"))
        /\ UNCHANGED <<s_current, statusMutex, apiInits, statuses>>
ReplyCame(t, size) ==
    IF size > t.cap THEN fail([t EXCEPT !.outLen = size], "ERROR_BUFFER_TOO_SMALL", "capacity")
    ELSE ok([t EXCEPT !.outLen = size, !.written = size])
RequestEnds(c) ==
    /\ thread[c].at = "awaits"
    /\ \/ Becomes(c, fail(thread[c], "ERROR_TIMEOUT", "reply"))
       \/ \E size \in ReplySizes : Becomes(c, ReplyCame(thread[c], size))
    /\ UNCHANGED <<s_current, link, statusMutex, apiInits, statuses>>
--------------------------------------------------------------------------------
(* The worker's thread: statusHandler stores under m_statusMutex.               *)
StatusUnlocked(n, connected) ==
    /\ statuses < MaxStatus /\ statuses' = statuses + 1
    /\ n <= apiInits /\ link[n].connected # connected
    /\ link' = [link EXCEPT ![n].connected = connected]
    /\ thread' = Notified(n, thread)
    /\ UNCHANGED <<s_current, statusMutex, apiInits>>
statusHandler(n, connected) ==
    /\ ~ statusMutex[n]
    /\ statuses < MaxStatus /\ statuses' = statuses + 1
    /\ n <= apiInits /\ link[n].connected # connected
    /\ link' = [link EXCEPT ![n].connected = connected]
    /\ thread' = Notified(n, thread)
    /\ UNCHANGED <<s_current, statusMutex, apiInits>>
WorkerDrains(n) ==
    /\ \/ link[n].control > 0 /\ link' = [link EXCEPT ![n].control = 0]
       \/ link[n].connected /\ link[n].outbound > 0 /\ link' = [link EXCEPT ![n].outbound = 0]
    /\ UNCHANGED <<s_current, statusMutex, thread, apiInits, statuses>>

ApiNext ==
    \/ \E c \in ApiThreads :
          \/ \E call \in {"sendData", "setCluster"} : InvalidArguments(c, call)
          \/ VoidCall(c) \/ guard(c) \/ initConnection(c) \/ shutdownConnection(c)
          \/ \E call \in {"sendData", "sendDataWithReply", "setCluster", "replyToSender", "waitForConnection"} : Snapshot(c, call)
          \/ sendRawEnvelope(c) \/ waitForConnection(c)
          \/ \E topic \in RequestTopics, cap \in Capacities : makeReplyTopic(c, topic, cap)
          \/ \E cap \in Capacities : RequestBegins(c, cap)
          \/ RequestQueued(c) \/ RequestEnds(c)
    \/ \E n \in Instances : WorkerDrains(n) \/ \E connected \in BOOLEAN : statusHandler(n, connected)
ApiSpec == ApiInit /\ [][ApiNext]_apiVars
--------------------------------------------------------------------------------
(* No call leaves a message behind that belongs to another one: a thread's last *)
(* error is empty exactly when its last call succeeded.                         *)
ErrorIsOfLastCall ==
    \A c \in ApiThreads : thread[c].at = "idle" => (thread[c].lastError = "") = (thread[c].result = "SUCCESS")

(* No buffer is overrun, and where it was too small outLen says what is needed. *)
BuffersHold ==
    \A c \in ApiThreads :
        LET t == thread[c]
        IN  /\ t.written <= t.cap
            /\ t.at = "idle" /\ t.result = "ERROR_BUFFER_TOO_SMALL" => t.outLen > t.cap

(* A reply topic that makeReplyTopic made passes the rules of sendDataWithReply, *)
(* however long the topic of the request.  Made for a reserved topic it is       *)
(* reserved itself, and refused: makeReplyTopic does not look.                   *)
IsTaken(made) == made.length # 0 /\ ~ made.ofReserved => replyTopicOk(made)
MadeTopicIsTaken == \A c \in ApiThreads : IsTaken(thread[c].made)

(* A call of the C interface leaves behind what its header says, whatever the    *)
(* other threads do meanwhile.                                                   *)
CallsKeepTheirWord == ErrorIsOfLastCall /\ BuffersHold /\ MadeTopicIsTaken

(* A waiter never sleeps through what it waits for: neither the connection nor  *)
(* the shutdown that ends the wait.                                             *)
WaiterIsWoken == \A c \in ApiThreads : thread[c].at = "sleeps" => ~ Concluded(thread[c].self)

(* What connectionapi.h promises of setCluster: without a connection it fails.  *)
SetClusterNeedsConnection ==
    [][\A c \in ApiThreads :
         thread[c].at = "has" /\ thread[c].call = "setCluster" /\ thread'[c].at = "idle" /\ thread'[c].result = "SUCCESS"
             => link[thread[c].self].connected]_apiVars
--------------------------------------------------------------------------------
(* The inductive invariant: what holds of each thread's own record, and of the    *)
(* mutex that orders a waiter's look and its falling asleep against the changes.  *)
CallNames == {"none", "registerCallback", "initConnection", "shutdownConnection", "sendData", "sendDataWithReply",
              "setCluster", "replyToSender", "waitForConnection", "makeReplyTopic", "sendRequest"}
Results == {"SUCCESS", "ERROR_GENERIC", "ERROR_INVALID_ARGS", "ERROR_NO_CONNECTION", "ERROR_TIMEOUT",
            "ERROR_BUFFER_TOO_SMALL"}
Reasons == {"exception", "arguments", "refused", "capacity", "init", "timeout", "offline", "reply"}
Threads ==
    [at : {"idle", "has", "asks", "awaits", "explains", "dozes", "sleeps", "wakes", "concludes"},
     call : CallNames, self : 0 .. MaxInits, result : Results, lastError : Reasons \cup {""},
     cap : Nat, outLen : Nat, written : Nat, made : ReplyTopics, calls : Nat]
ThreadSane(t) == t \in Threads /\ t.written <= t.cap /\ IsTaken(t.made)
ThreadInv(t) ==
    /\ ThreadSane(t)
    /\ t.at = "idle" => /\ (t.lastError = "") = (t.result = "SUCCESS")
                        /\ t.result = "ERROR_BUFFER_TOO_SMALL" => t.outLen > t.cap
    /\ t.at \in {"dozes", "sleeps", "wakes", "concludes"} => t.self # 0

Holds(t) == t.at \in {"dozes", "concludes"}
LinksOK == link \in [Instances -> [connected : BOOLEAN, running : BOOLEAN, outbound : Nat, control : Nat]]
MutexInv ==
    /\ \A c \in ApiThreads : Holds(thread[c]) => statusMutex[thread[c].self]
    /\ \A c, d \in ApiThreads : Holds(thread[c]) /\ Holds(thread[d]) /\ thread[c].self = thread[d].self => c = d
    /\ \A c \in ApiThreads : thread[c].at \in {"dozes", "sleeps"} => ~ Concluded(thread[c].self)
ApiInv ==
    /\ s_current \in 0 .. MaxInits /\ apiInits \in 0 .. MaxInits /\ LinksOK
    /\ statusMutex \in [Instances -> BOOLEAN]
    /\ thread \in [ApiThreads -> Threads] /\ \A c \in ApiThreads : ThreadInv(thread[c])
    /\ MutexInv
================================================================================
