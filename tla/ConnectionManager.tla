---------------------------- MODULE ConnectionManager ----------------------------
(* A client: callbacks are registered from any thread, the worker's thread     *)
(* reports the connection and queues what it receives, the processing thread   *)
(* dispatches that and answers RESETs, and a request waits for its reply.      *)
(* Every action is one hold of m_mapMutex.  The worker is what ZmqWorker shows *)
(* it to be: control goes first and in order, data waits for the connection.   *)
(* Models src/common/connectionmanager.cpp.                                    *)
EXTENDS MessageKeys, SafeQueue, Functions, FiniteSets

CONSTANTS Topics,         \* topics of the application
          Instances,
          Scopes,         \* of the scopes, those registered
          ControlLimit,   \* CONTROL_BACKLOG_LIMIT
          MaxCalls,       \* bound: registrations and removals; a request makes one of each
          MaxMessages,    \* bound: messages routed to the client
          MaxFaults,      \* bound: lost sessions, broker restarts, outages
          MaxInits        \* bound: calls of init

ReplyTopic == "reply"     \* of makeReplyTopic: no other request has it
AllTopics == Topics \cup {ReplyTopic}
Requester == "request"    \* the instance under which it is registered

ASSUME ManagerAssumption ==
    /\ IsFiniteSet(Topics) /\ WILDCARD_TOPIC \in Topics /\ ReplyTopic \notin Topics
    /\ Requester \notin Instances /\ Scopes \subseteq Origin /\ ControlLimit \in Nat

VARIABLES
    s_instance, s_pendingMsgCallbacks,
    initLocked,      \* init holds s_initMutex
    m_msgHandlers, m_scopedHandlers, m_running, m_connected, m_brokerId,
    control, data,   \* queued for the broker or on the way
    carried,         \* what the worker is pushing into m_queue
    proc,            \* the processing thread: where, its message, list and batch
    shut,            \* where the caller of shutdown is
    request,         \* where the caller of sendRequest is
    epoch,           \* the broker's id, a new one at every start
    known, held,     \* its session of the client
    back,            \* from the broker to the client
    forgotten,       \* history: the session was lost since the request began
    lost,            \* history: a full queue has refused control or a RESET
    inherited,       \* history: what the broker held for this client before init
    calls, messages, faults, inits

apiVars == <<s_instance, s_pendingMsgCallbacks, initLocked, inherited, inits, calls>>
mapVars == <<m_msgHandlers, m_scopedHandlers>>
stateVars == <<m_running, m_connected, m_brokerId>>
brokerVars == <<epoch, known, held>>
requestVars == <<request, forgotten>>
vars == <<apiVars, mapVars, stateVars, control, data, queueVars, carried, proc, shut,
          requestVars, brokerVars, back, lost, messages, faults>>

Idle == [at |-> "pop", message |-> <<>>, list |-> <<>>, batch |-> <<>>]
NoHandlers == [t \in AllTopics |-> <<>>]
NoSubscriptions == [t \in AllTopics |-> NoScope]

Init ==
    /\ s_instance = FALSE /\ s_pendingMsgCallbacks = <<>> /\ initLocked = FALSE
    /\ m_msgHandlers = NoHandlers /\ m_scopedHandlers = 0
    /\ m_running = FALSE /\ m_connected = FALSE /\ m_brokerId = 0
    /\ control = <<>> /\ data = <<>>
    /\ m_queue = <<>> /\ m_stop = FALSE /\ at = [t \in {"worker"} |-> "none"]
    /\ carried = <<>> /\ proc = [Idle EXCEPT !.at = "ended"]
    /\ shut = "down" /\ request = "idle"
    /\ epoch = 1 /\ known = FALSE /\ held = NoSubscriptions /\ back = <<>>
    /\ forgotten = FALSE /\ lost = FALSE /\ inherited = {}
    /\ calls = 0 /\ messages = 0 /\ faults = 0 /\ inits = 0
--------------------------------------------------------------------------------
(* Control messages; the queue refuses what finds no room, and nobody asks.    *)
SendControl(list) ==
    LET room == ControlLimit - Len(control)
    IN  /\ control' = control \o SubSeq(list, 1, IF Len(list) < room THEN Len(list) ELSE room)
        /\ lost' = (lost \/ Len(list) > room)

unionScope(callbacks) == UNION {callbacks[i][2] : i \in DOMAIN callbacks}

Subscribe(topic, handlers) == <<"SUBSCRIBE", topic, unionScope(handlers[topic])>>
Resubscription ==
    LET all == {Subscribe(t, m_msgHandlers) : t \in {u \in AllTopics : m_msgHandlers[u] # <<>>}}
    IN  CHOOSE list \in Bijection(1 .. Cardinality(all), all) : TRUE

performRegistration(topic, instance, scope) ==
    /\ m_msgHandlers' = [m_msgHandlers EXCEPT ![topic] = Append(@, <<instance, scope>>)]
    /\ m_scopedHandlers' = m_scopedHandlers + (IF scope # OriginAny THEN 1 ELSE 0)
    /\ IF m_connected THEN SendControl(<<Subscribe(topic, m_msgHandlers')>>)
       ELSE UNCHANGED <<control, lost>>

(* The elements of list at the given places, in their order: element k is the  *)
(* one at the place that has k of them up to it.                               *)
UpTo(place, places) == {p \in places : p <= place}
Place(k, places) == CHOOSE p \in places : Cardinality(UpTo(p, places)) = k
ListOf(list, places) == [k \in 1 .. Cardinality(places) |-> list[Place(k, places)]]

Scoped(callbacks) == {i \in DOMAIN callbacks : callbacks[i][2] # OriginAny}

(* All registrations of the instance go; what is left may want less.           *)
Of(instance, callbacks) == {i \in DOMAIN callbacks : callbacks[i][1] = instance}
Without(instance, callbacks) == ListOf(callbacks, DOMAIN callbacks \ Of(instance, callbacks))

ScopedLeftOfAny(topic, instance) == m_scopedHandlers - Cardinality(Of(instance, m_msgHandlers[topic]))
ScopedLeft(topic, instance) ==
    m_scopedHandlers
        - Cardinality(Of(instance, m_msgHandlers[topic]) \cap Scoped(m_msgHandlers[topic]))

UnsubscribeIfConnected(topic) == IF m_connected THEN <<<<"UNSUBSCRIBE", topic>>>> ELSE <<>>
Unsubscribe(topic) == <<<<"UNSUBSCRIBE", topic>>>>

performUnregistration(topic, instance) ==
    LET before == m_msgHandlers[topic]
        next == Without(instance, before)
    IN  IF before = <<>> THEN UNCHANGED <<mapVars, control, lost>>
        ELSE /\ m_msgHandlers' = [m_msgHandlers EXCEPT ![topic] = next]
             /\ m_scopedHandlers' = ScopedLeft(topic, instance)
             /\ IF next = <<>> THEN SendControl(Unsubscribe(topic))
                ELSE IF m_connected /\ unionScope(next) # unionScope(before)
                THEN SendControl(<<Subscribe(topic, m_msgHandlers')>>)
                ELSE UNCHANGED <<control, lost>>
--------------------------------------------------------------------------------
(* The application's calls; before init they are kept.                         *)
registerInternal(topic, instance, scope) ==
    /\ ~ initLocked /\ calls < MaxCalls /\ calls' = calls + 1
    /\ \/ /\ s_instance
          /\ performRegistration(topic, instance, scope)
          /\ UNCHANGED s_pendingMsgCallbacks
       \/ /\ ~ s_instance
          /\ s_pendingMsgCallbacks' = Append(s_pendingMsgCallbacks, <<topic, instance, scope>>)
          /\ UNCHANGED <<mapVars, control, lost>>
    /\ UNCHANGED <<s_instance, initLocked, inherited, inits, stateVars, data, queueVars, carried, proc,
                   shut, requestVars, brokerVars, back, messages, faults>>

(* A removal that finds nothing changes nothing, and is left out.              *)
unregisterCallback(topic, instance) ==
    /\ ~ initLocked /\ calls < MaxCalls /\ calls' = calls + 1
    /\ \E s \in Scopes : \/ <<topic, instance, s>> \in Range(s_pendingMsgCallbacks)
                         \/ <<instance, s>> \in Range(m_msgHandlers[topic])
    /\ \/ /\ s_instance
          /\ performUnregistration(topic, instance)
          /\ UNCHANGED s_pendingMsgCallbacks
       \/ /\ ~ s_instance
          /\ s_pendingMsgCallbacks' =
                ListOf(s_pendingMsgCallbacks,
                       {i \in DOMAIN s_pendingMsgCallbacks :
                          ~ (s_pendingMsgCallbacks[i][1] = topic /\ s_pendingMsgCallbacks[i][2] = instance)})
          /\ UNCHANGED <<mapVars, control, lost>>
    /\ UNCHANGED <<s_instance, initLocked, inherited, inits, stateVars, data, queueVars, carried, proc,
                   shut, requestVars, brokerVars, back, messages, faults>>

(* init: the instance and its threads run before the kept callbacks, one after *)
(* the other, are registered.  The worker leads with CONNECT.  There is one    *)
(* instance here at a time: it waits until nothing is left of the last.        *)
InitBegins ==
    /\ ~ s_instance /\ shut = "down" /\ control = <<>> /\ request = "idle"
    /\ inits < MaxInits /\ inits' = inits + 1
    /\ s_instance' = TRUE /\ initLocked' = TRUE
    /\ m_msgHandlers' = NoHandlers /\ m_scopedHandlers' = 0
    /\ m_running' = TRUE /\ m_connected' = FALSE /\ m_brokerId' = 0
    /\ control' = <<<<"CONNECT">>>> /\ data' = <<>> /\ back' = <<>>
    /\ m_queue' = <<>> /\ m_stop' = FALSE /\ at' = [at EXCEPT !["worker"] = "runs"]
    /\ carried' = <<>> /\ proc' = Idle
    /\ shut' = "none" /\ inherited' = {t \in AllTopics : held[t] # NoScope}
    /\ UNCHANGED <<s_pendingMsgCallbacks, calls, requestVars, brokerVars, lost, messages, faults>>

InitFlushes ==
    /\ initLocked /\ s_instance
    /\ IF s_pendingMsgCallbacks = <<>>
       THEN initLocked' = FALSE /\ UNCHANGED <<s_pendingMsgCallbacks, mapVars, control, lost>>
       ELSE LET p == Head(s_pendingMsgCallbacks) IN
            /\ performRegistration(p[1], p[2], p[3])
            /\ s_pendingMsgCallbacks' = Tail(s_pendingMsgCallbacks)
            /\ UNCHANGED initLocked
    /\ UNCHANGED <<s_instance, inherited, inits, calls, stateVars, data, queueVars, carried, proc, shut,
                   requestVars, brokerVars, back, messages, faults>>

(* shutdown: the flag, DISCONNECT and the end of s_instance under the lock;    *)
(* then the queue is stopped, the processing thread joined and the worker.     *)
shutdownLocked ==
    /\ s_instance /\ ~ initLocked
    /\ s_instance' = FALSE /\ initLocked' = TRUE /\ m_running' = FALSE
    /\ IF m_connected THEN SendControl(<<<<"DISCONNECT">>>>) ELSE UNCHANGED <<control, lost>>
    /\ shut' = "stops"
    /\ UNCHANGED <<s_pendingMsgCallbacks, inherited, inits, calls, mapVars, m_connected,
                   m_brokerId, data, queueVars, carried, proc, requestVars, brokerVars, back,
                   messages, faults>>

shutdown ==
    /\ s_instance /\ ~ initLocked
    /\ s_instance' = FALSE /\ m_running' = FALSE
    /\ IF m_connected THEN SendControl(<<<<"DISCONNECT">>>>) ELSE UNCHANGED <<control, lost>>
    /\ shut' = "stops"
    /\ UNCHANGED <<s_pendingMsgCallbacks, initLocked, inherited, inits, calls, mapVars, m_connected,
                   m_brokerId, data, queueVars, carried, proc, requestVars, brokerVars, back,
                   messages, faults>>

TeardownStops ==
    /\ shut = "stops"
    /\ stop
    /\ shut' = "joins"
    /\ UNCHANGED <<apiVars, mapVars, stateVars, control, data, carried, proc, requestVars,
                   brokerVars, back, lost, messages, faults>>

(* The worker's last act is to send its control queue, as far as that goes.    *)
TeardownJoins ==
    /\ shut = "joins" /\ proc.at = "ended" /\ at["worker"] = "runs"
    /\ shut' = "down"
    /\ at' = [at EXCEPT !["worker"] = "none"]
    /\ \E n \in 0 .. Len(control) : control' = SubSeq(control, 1, n)
    /\ data' = <<>> /\ back' = <<>>
    /\ UNCHANGED <<apiVars, mapVars, stateVars, m_queue, m_stop, carried, proc, requestVars,
                   brokerVars, lost, messages, faults>>
--------------------------------------------------------------------------------
(* sendRequest, on a thread of its own: it registers its reply topic, queues   *)
(* the request, waits for the reply or the timeout, and takes back the topic,  *)
(* at once if the queue refuses the request.                                   *)
RequestRegisters ==
    /\ s_instance /\ ~ initLocked /\ request = "idle"
    /\ calls + 2 <= MaxCalls /\ calls' = calls + 2
    /\ request' = "sends" /\ forgotten' = FALSE
    /\ performRegistration(ReplyTopic, Requester, OriginAny)
    /\ UNCHANGED <<s_instance, s_pendingMsgCallbacks, initLocked, inherited, inits, stateVars, data,
                   queueVars, carried, proc, shut, brokerVars, back, messages, faults>>

RequestSends ==
    /\ request = "sends"
    /\ request' = "waits"
    /\ data' = Append(data, "request")
    /\ UNCHANGED <<apiVars, mapVars, stateVars, control, queueVars, carried, proc, shut,
                   forgotten, brokerVars, back, lost, messages, faults>>

RequestEnds ==
    /\ request \in {"sends", "waits", "replied"}
    /\ request' = "idle"
    /\ performUnregistration(ReplyTopic, Requester)
    /\ UNCHANGED <<apiVars, stateVars, data, queueVars, carried, proc, shut, forgotten,
                   brokerVars, back, messages, faults>>
--------------------------------------------------------------------------------
(* The worker thread: a frame proves the broker alive and may name it; the     *)
(* status handler then sends everything anew; all but acknowledgements go to   *)
(* m_queue, in a push that gives up after a while.                             *)
IdNamed(message) == IF message[1] = "MESSAGE" THEN m_brokerId ELSE message[2]

statusHandler ==
    /\ m_connected' = TRUE
    /\ IF m_connected THEN UNCHANGED <<control, lost>>
       ELSE SendControl(<<<<"CONNECT">>>> \o Resubscription)

Receives ==
    LET message == Head(back) IN
    /\ at["worker"] = "runs" /\ back # <<>>
    /\ back' = Tail(back)
    /\ m_brokerId' = IdNamed(message)
    /\ statusHandler
    /\ \/ message[1] = "HEARTBEAT_ACK" /\ UNCHANGED <<at, carried>>
       \/ message[1] # "HEARTBEAT_ACK" /\ at' = [at EXCEPT !["worker"] = "pushes"]
                                       /\ carried' = message
    /\ UNCHANGED <<apiVars, mapVars, m_running, data, m_queue, m_stop, proc, shut, requestVars,
                   brokerVars, messages, faults>>

Pushes ==
    /\ \/ push("worker", carried) /\ UNCHANGED lost
       \/ pushWaits("worker") /\ UNCHANGED lost
       \/ /\ pushTimesOut("worker")
          /\ lost' = (lost \/ (at'["worker"] = "runs" /\ carried[1] = "RESET"))
    /\ carried' = IF at'["worker"] = "runs" THEN <<>> ELSE carried
    /\ UNCHANGED <<apiVars, mapVars, stateVars, control, data, proc, shut, requestVars,
                   brokerVars, back, messages, faults>>

GoesOffline ==
    /\ m_connected /\ at["worker"] = "runs"
    /\ faults < MaxFaults /\ faults' = faults + 1
    /\ m_connected' = FALSE
    /\ UNCHANGED <<apiVars, mapVars, m_running, m_brokerId, control, data, queueVars, carried,
                   proc, shut, requestVars, brokerVars, back, lost, messages>>
--------------------------------------------------------------------------------
(* The processing thread: one message popped, then all that came meanwhile in  *)
(* one batch.  A message is dispatched to a snapshot of its callbacks.         *)
Popped == <<<<"popped">>>>   \* for a batch: the message was popped, the drain is next

Taken(message, rest) ==
    proc' = [Idle EXCEPT !.message = message, !.batch = rest,
                         !.at = IF message[1] = "RESET" THEN "reset" ELSE "handle"]
TakenWhileRunning(list, atEnd) ==
    IF list # <<>> /\ m_running THEN Taken(Head(list), Tail(list)) ELSE proc' = atEnd

Ended == [Idle EXCEPT !.at = "ended"]

Pops ==
    /\ proc.at = "pop"
    /\ \/ pop /\ IF m_running THEN Taken(Head(m_queue), Popped) ELSE proc' = Ended
       \/ m_queue = <<>> /\ m_stop /\ proc' = Ended /\ UNCHANGED queueVars
    /\ UNCHANGED <<apiVars, mapVars, stateVars, control, data, carried, shut, requestVars,
                   brokerVars, back, lost, messages, faults>>

(* What follows a message: the drain, the rest of the batch, or the next pop.  *)
Follows ==
    \/ /\ proc.batch = Popped /\ m_queue # <<>>
       /\ drainTo
       /\ TakenWhileRunning(m_queue, Idle)
    \/ /\ proc.batch = Popped => m_queue = <<>>
       /\ TakenWhileRunning(IF proc.batch = Popped THEN <<>> ELSE proc.batch, Idle)
       /\ UNCHANGED queueVars

resubscribeAll ==
    /\ proc.at = "reset"
    /\ SendControl(Resubscription)
    /\ Follows
    /\ UNCHANGED <<apiVars, mapVars, stateVars, data, carried, shut, requestVars, brokerVars,
                   back, messages, faults>>

(* Local unless some callback cares, the broker is known and it is another's.  *)
IsLocal(origin) == m_scopedHandlers = 0 \/ m_brokerId = 0 \/ origin = m_brokerId

Callbacks(topic) ==
    m_msgHandlers[topic]
        \o (IF topic # WILDCARD_TOPIC THEN m_msgHandlers[WILDCARD_TOPIC] ELSE <<>>)

handleMessage ==
    LET isLocal == IsLocal(proc.message[3])
        all == Callbacks(proc.message[2])
        accepting == ListOf(all, {i \in DOMAIN all : scopeAccepts(all[i][2], isLocal)})
    IN  /\ proc.at = "handle"
        /\ \/ accepting = <<>> /\ Follows
           \/ /\ accepting # <<>>
              /\ proc' = [proc EXCEPT !.at = "dispatch", !.list = accepting]
              /\ UNCHANGED queueVars
        /\ UNCHANGED <<apiVars, mapVars, stateVars, control, data, carried, shut, requestVars,
                       brokerVars, back, lost, messages, faults>>

(* One callback, outside every lock; it may itself register or unregister, for *)
(* which it needs s_initMutex.                                                 *)
Dispatch ==
    /\ proc.at = "dispatch" /\ ~ initLocked
    /\ request' = IF request = "waits" /\ Head(proc.list)[1] = Requester THEN "replied"
                  ELSE request
    /\ \/ Len(proc.list) = 1 /\ Follows
       \/ Len(proc.list) > 1 /\ proc' = [proc EXCEPT !.list = Tail(@)] /\ UNCHANGED queueVars
    /\ UNCHANGED <<apiVars, mapVars, stateVars, control, data, carried, shut, forgotten,
                   brokerVars, back, lost, messages, faults>>
--------------------------------------------------------------------------------
(* The broker, as Broker has it.  Whoever it does not know, and does not say   *)
(* CONNECT, is asked to subscribe anew.                                        *)
AskedNever(key) == <<>>
Asked(key) ==
    IF known \/ key \in {"CONNECT", "DISCONNECT"} THEN <<>> ELSE <<<<"RESET", epoch>>>>

BrokerHandlesControl ==
    LET m == Head(control) IN
    /\ control # <<>>
    /\ control' = Tail(control)
    /\ known' = (m[1] # "DISCONNECT")
    /\ held' = CASE m[1] = "SUBSCRIBE" -> [held EXCEPT ![m[2]] = m[3]]
                 [] m[1] = "UNSUBSCRIBE" -> [held EXCEPT ![m[2]] = NoScope]
                 [] m[1] = "DISCONNECT" -> NoSubscriptions
                 [] OTHER -> held
    /\ back' = IF shut = "down" THEN back ELSE back \o Asked(m[1])
    /\ UNCHANGED <<apiVars, mapVars, stateVars, data, queueVars, carried, proc, shut,
                   requestVars, epoch, lost, messages, faults>>

BrokerHandlesRequestEarly ==
    /\ m_connected /\ data # <<>>
    /\ data' = Tail(data)
    /\ known' = TRUE
    /\ back' = back \o Asked("request")
    /\ UNCHANGED <<apiVars, mapVars, stateVars, control, queueVars, carried, proc, shut,
                   requestVars, epoch, held, lost, messages, faults>>

BrokerHandlesRequest ==
    /\ control = <<>> /\ m_connected /\ data # <<>>
    /\ data' = Tail(data)
    /\ known' = TRUE
    /\ back' = back \o Asked("request")
    /\ UNCHANGED <<apiVars, mapVars, stateVars, control, queueVars, carried, proc, shut,
                   requestVars, epoch, held, lost, messages, faults>>

(* A heartbeat, where the answer makes a difference.                           *)
Heartbeat ==
    /\ at["worker"] # "none" /\ back = <<>>
    /\ ~ known \/ ~ m_connected \/ m_brokerId # epoch
    /\ known' = TRUE
    /\ back' = Asked("HEARTBEAT") \o <<<<"HEARTBEAT_ACK", epoch>>>>
    /\ UNCHANGED <<apiVars, mapVars, stateVars, control, data, queueVars, carried, proc, shut,
                   requestVars, epoch, held, lost, messages, faults>>

(* A message that some subscription of the client wants; origin 0 is the mesh. *)
Wants(topic, isLocal) ==
    scopeAccepts(held[topic], isLocal) \/ scopeAccepts(held[WILDCARD_TOPIC], isLocal)

Routes(topic, origin) ==
    /\ messages < MaxMessages /\ messages' = messages + 1
    /\ at["worker"] # "none"
    /\ Wants(topic, origin # 0)
    /\ topic # WILDCARD_TOPIC
    /\ back' = Append(back, <<"MESSAGE", topic, origin>>)
    /\ UNCHANGED <<apiVars, mapVars, stateVars, control, data, queueVars, carried, proc, shut,
                   requestVars, brokerVars, lost, faults>>

(* It times the client out, or restarts: then what was under way is lost, and  *)
(* it has a new id.                                                            *)
BrokerForgets ==
    /\ faults < MaxFaults /\ faults' = faults + 1
    /\ known' = FALSE /\ held' = NoSubscriptions /\ forgotten' = TRUE
    /\ \/ known /\ UNCHANGED <<epoch, control, back>>
       \/ /\ epoch' = epoch + 1
          /\ \E n \in 0 .. Len(control) : control' = SubSeq(control, n + 1, Len(control))
          /\ back' = <<>>
    /\ UNCHANGED <<apiVars, mapVars, stateVars, data, queueVars, carried, proc, shut, request,
                   lost, messages>>
--------------------------------------------------------------------------------
ProcessingStep == Pops \/ resubscribeAll \/ handleMessage \/ Dispatch
WorkerStep == Receives \/ Pushes
TeardownStep == TeardownStops \/ TeardownJoins
BrokerStep == BrokerHandlesControl \/ BrokerHandlesRequest

Next ==
    \/ \E t \in Topics, i \in Instances :
          unregisterCallback(t, i) \/ \E s \in Scopes : registerInternal(t, i, s)
    \/ InitBegins \/ InitFlushes \/ shutdown \/ TeardownStep
    \/ RequestRegisters \/ RequestSends \/ RequestEnds
    \/ WorkerStep \/ GoesOffline \/ ProcessingStep
    \/ BrokerStep \/ Heartbeat \/ BrokerForgets
    \/ \E t \in AllTopics, o \in {0, epoch} : Routes(t, o)

Spec == Init /\ [][Next]_vars

(* Threads run, the broker reads what it is sent and heartbeats go out; no     *)
(* application need call anything, and no request need time out.               *)
FairSpec ==
    /\ Spec
    /\ WF_vars(ProcessingStep) /\ WF_vars(WorkerStep) /\ WF_vars(TeardownStep)
    /\ WF_vars(BrokerStep) /\ WF_vars(Heartbeat) /\ WF_vars(InitFlushes)
--------------------------------------------------------------------------------
OnTheWay(message) == message # <<>> /\ message[1] = "RESET"

Among(list) == \E i \in DOMAIN list : OnTheWay(list[i])
ResetOnTheWay ==
    proc.at = "reset" \/ OnTheWay(carried) \/ Among(back) \/ Among(m_queue) \/ Among(proc.batch)

Settled == s_instance /\ m_connected /\ known /\ control = <<>> /\ ~ ResetOnTheWay

(* Once all that was said has arrived, the broker holds exactly what the       *)
(* callbacks registered here want between them, whatever was registered and    *)
(* removed during outages, resets and restarts; unless a full queue refused    *)
(* part of it.  A topic without a callback may be one that the broker held for *)
(* this client before init: nothing takes that back.                           *)
Matches ==
    \A t \in AllTopics : \/ held[t] = unionScope(m_msgHandlers[t])
                         \/ t \in inherited /\ m_msgHandlers[t] = <<>>
SettledMatches == Settled /\ ~ lost => Matches

(* And that comes about: calls, faults and time come to rest, and the broker   *)
(* holds what this client wants for as long as the client is there.            *)
SubscriptionsSettle == <>[](s_instance /\ ~ lost => Matches)

(* A request is handled by a broker that can route its reply, unless that      *)
(* broker has forgotten this client since, or the client is shut down.         *)
RequestFindsSubscription ==
    [][BrokerHandlesRequest /\ request = "waits" /\ s_instance /\ ~ forgotten /\ ~ lost
          => held[ReplyTopic] # NoScope]_vars

(* A callback that asked for one origin is not chosen for a message of another *)
(* one, if the broker that sent it has named itself and is still the same:     *)
(* however callbacks come and go, the count of those that care is right.       *)
ScopesAreHonoured ==
    [][handleMessage /\ proc'.at = "dispatch" /\ m_brokerId = epoch /\ proc.message[3] \in {0, epoch}
          => \A i \in DOMAIN proc'.list : scopeAccepts(proc'.list[i][2], proc.message[3] # 0)]_vars

(* What the comment on brokerId says: it lands before any application message  *)
(* can be dispatched.                                                          *)
BrokerIdComesFirst == proc.at \in {"handle", "dispatch"} => m_brokerId # 0

(* shutdown returns, whatever the callback under way is doing.                 *)
ShutdownEnds == (shut = "stops") ~> (shut = "down")
--------------------------------------------------------------------------------
(* The inductive invariant.  What is on the way to and from the broker, and    *)
(* when a thread has something in hand.                                        *)
Wishes == {<<"CONNECT">>, <<"DISCONNECT">>} \cup ({"SUBSCRIBE"} \X AllTopics \X SUBSET OriginAny)
             \cup ({"UNSUBSCRIBE"} \X AllTopics)
Queued == ({"RESET"} \X Nat) \cup ({"MESSAGE"} \X AllTopics \X Nat)
Answers == Queued \cup ({"HEARTBEAT_ACK"} \X Nat)
Entries == (Instances \cup {Requester}) \X Origin
ClientTypeOK ==
    /\ s_pendingMsgCallbacks \in Seq(Topics \X Instances \X Scopes)
    /\ m_msgHandlers \in [AllTopics -> Seq(Entries)] /\ control \in Seq(Wishes)
    /\ s_instance => shut = "none" /\ ~ m_stop /\ m_running
BrokerTypeOK == back \in Seq(Answers) /\ epoch \in Nat \ {0} /\ held \in [AllTopics -> SUBSET OriginAny]
QueueTypeOK ==
    /\ m_queue \in Seq(Queued) /\ at \in [{"worker"} -> {"none", "runs", "pushes", "sleeps"}]
    /\ carried \in IF at["worker"] \in {"pushes", "sleeps"} THEN Queued ELSE {<<>>}
ProcTypeOK ==
    /\ proc \in [at : {"pop", "ended", "reset", "handle", "dispatch"}, message : Queued \cup {<<>>},
                 list : Seq(Entries), batch : Seq(Queued) \cup {Popped}]
    /\ proc.at \in {"pop", "ended"} => proc.batch = <<>>
    /\ proc.at \in {"handle", "dispatch"} => proc.message \in {"MESSAGE"} \X AllTopics \X Nat
ManagerTypeOK == ClientTypeOK /\ BrokerTypeOK /\ QueueTypeOK /\ ProcTypeOK

(* The count of callbacks that care, and the request's one callback.           *)
ScopedPlaces == UNION {{t} \X Scoped(m_msgHandlers[t]) : t \in AllTopics}
CountInv == IsFiniteSet(ScopedPlaces) /\ m_scopedHandlers = Cardinality(ScopedPlaces)
ReplyInv == m_msgHandlers[ReplyTopic] = IF request = "idle" THEN <<>> ELSE <<<<Requester, OriginAny>>>>

(* What the broker has yet to read about a topic: whether anything, whether    *)
(* the last of it asks for the scope, and whether some of it follows every     *)
(* CONNECT, which alone lets a broker that has forgotten the client be silent. *)
About(m, t) == m[1] \in {"SUBSCRIBE", "UNSUBSCRIBE"} /\ m[2] = t
Asks(m) == IF m[1] = "SUBSCRIBE" THEN m[3] ELSE NoScope
Said(list, t) == \E i \in DOMAIN list : About(list[i], t)
LastAsks(list, t, scope) ==
    \A i \in DOMAIN list :
        About(list[i], t) /\ (\A j \in DOMAIN list : i < j => ~ About(list[j], t)) => Asks(list[i]) = scope
Renewed(list, t) ==
    \A i \in DOMAIN list : list[i][1] = "CONNECT" => \E j \in DOMAIN list : i < j /\ About(list[j], t)
Stays(list) == \A i \in DOMAIN list : list[i][1] # "DISCONNECT"

Wanted(t) == m_msgHandlers[t] # <<>>
Wish(t) == unionScope(m_msgHandlers[t])
TopicInv(t) ==
    /\ m_connected \/ ~ Wanted(t) => LastAsks(control, t, Wish(t))
    /\ m_connected /\ Wanted(t) => Renewed(control, t)
    /\ ~ Wanted(t) /\ ~ Said(control, t) => held[t] = NoScope \/ t \in inherited
    /\ m_connected /\ Wanted(t) /\ ~ Said(control, t) =>
          /\ known /\ ~ ResetOnTheWay => held[t] = Wish(t)
          /\ t = ReplyTopic /\ ~ forgotten => held[t] = Wish(t)
WishesInv == s_instance /\ ~ lost => Stays(control) /\ \A t \in AllTopics : TopicInv(t)
ManagerInv == ManagerTypeOK /\ CountInv /\ ReplyInv /\ WishesInv
================================================================================
