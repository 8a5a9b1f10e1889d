------------------------------- MODULE Bindings -------------------------------
(* The two ways an application with a loop of its own takes messages: the       *)
(* MessagePoller's buffer, and the Qt adapter's queued calls.  Both register a   *)
(* callback that the processing thread runs, on a copy of the callback list.     *)
(* Models src/bindings/polling/wisppoller.h and                                  *)
(* src/bindings/qt/qtconnectionadapter.h.  Qt is external.                       *)
EXTENDS Integers, Sequences, SequencesExt, FiniteSets

CONSTANTS PollTopics, PollUsers,
          PollCapacity,      \* of the buffer
          MaxPollCalls, MaxPolled,   \* bounds: calls, messages
          MaxObjects,        \* bound: contexts that live one after the other
          MaxQtCalls, MaxQtMessages  \* bounds: registrations, messages

ASSUME PollAssumption == PollCapacity \in Nat \ {0}   \* the constructor makes a 0 a 1

VARIABLES m_topics, m_buffer, m_dropped,
          registered,        \* of each topic: the poller's entries in m_msgHandlers
          user,              \* of each user: what it has still to do
          dispatching,       \* calls of enqueue the processing thread still makes
          enqueued, polled,  \* history: messages enqueued, messages handed over
          overlapped,        \* history: topics with two calls in progress at once
          pollCalls, pollMessages
pollVars == <<m_topics, m_buffer, m_dropped, registered, user, dispatching, enqueued, polled,
              overlapped, pollCalls, pollMessages>>

NoCall == <<"idle", {}>>

PollInit ==
    /\ m_topics = {} /\ m_buffer = <<>> /\ m_dropped = 0
    /\ registered = [t \in PollTopics |-> 0] /\ user = [u \in PollUsers |-> NoCall]
    /\ dispatching = <<>> /\ enqueued = <<>> /\ polled = <<>> /\ overlapped = {}
    /\ pollCalls = 0 /\ pollMessages = 0

(* A call looks at m_topics under the lock and registers after releasing it.    *)
PollerCall(u, kind, topics) ==
    /\ user[u] = NoCall /\ pollCalls < MaxPollCalls /\ pollCalls' = pollCalls + 1
    /\ user' = [user EXCEPT ![u] = <<kind, topics>>]
    /\ overlapped' = overlapped \cup {t \in topics : \E v \in PollUsers \ {u} : t \in user[v][2]}
    /\ UNCHANGED <<m_buffer, m_dropped, registered, dispatching, enqueued, polled, pollMessages>>
subscribeTwice(u, topic) == m_topics' = m_topics \cup {topic} /\ PollerCall(u, "register", {topic})
subscribeTopic(u, topic) ==
    /\ topic \notin m_topics
    /\ m_topics' = m_topics \cup {topic} /\ PollerCall(u, "register", {topic})
unsubscribe(u, topic) ==
    /\ topic \in m_topics
    /\ m_topics' = m_topics \ {topic} /\ PollerCall(u, "unregister", {topic})
unsubscribeAll(u) ==
    /\ m_topics # {}
    /\ m_topics' = {} /\ PollerCall(u, "unregister", m_topics)

Registers(u, topic) ==
    /\ topic \in user[u][2]
    /\ registered' = [registered EXCEPT ![topic] = IF user[u][1] = "register" THEN @ + 1 ELSE 0]
    /\ user' = [user EXCEPT ![u] = IF @[2] = {topic} THEN NoCall ELSE <<@[1], @[2] \ {topic}>>]
    /\ UNCHANGED <<m_topics, m_buffer, m_dropped, dispatching, enqueued, polled, overlapped, pollCalls, pollMessages>>

MessageArrives(topic) ==
    /\ dispatching = <<>> /\ pollMessages < MaxPolled
    /\ pollMessages' = pollMessages + 1
    /\ dispatching' = [i \in 1 .. registered[topic] |-> <<topic, pollMessages + 1>>]
    /\ UNCHANGED <<m_topics, m_buffer, m_dropped, registered, user, enqueued, polled, overlapped, pollCalls>>

DropsOldest(message) ==
    IF Len(m_buffer) >= PollCapacity
    THEN m_buffer' = Append(Tail(m_buffer), message) /\ m_dropped' = m_dropped + 1
    ELSE m_buffer' = Append(m_buffer, message) /\ UNCHANGED m_dropped
enqueue ==
    /\ dispatching # <<>>
    /\ DropsOldest(Head(dispatching))
    /\ enqueued' = Append(enqueued, Head(dispatching))
    /\ dispatching' = Tail(dispatching)
    /\ UNCHANGED <<m_topics, registered, user, polled, overlapped, pollCalls, pollMessages>>

poll ==
    /\ m_buffer # <<>>
    /\ polled' = polled \o m_buffer /\ m_buffer' = <<>>
    /\ UNCHANGED <<m_topics, m_dropped, registered, user, dispatching, enqueued, overlapped, pollCalls, pollMessages>>

PollNext ==
    \/ \E u \in PollUsers, t \in PollTopics : subscribeTopic(u, t) \/ unsubscribe(u, t) \/ Registers(u, t)
    \/ \E u \in PollUsers : unsubscribeAll(u)
    \/ \E t \in PollTopics : MessageArrives(t)
    \/ enqueue \/ poll
PollSpec == PollInit /\ [][PollNext]_pollVars
--------------------------------------------------------------------------------
(* Qt.  Objects 1, 2, ... use the same address one after the other; one of them *)
(* at most is alive.  A registration belongs to the object its QPointer guards. *)
VARIABLES alive,             \* the object that lives, or 0
          objects,           \* how many there have been
          qtRegistered,      \* guards of the entries in m_msgHandlers under that address
          connections,       \* how many handlers of destroyed the object has
          qtBatch,           \* the processing thread: where it is, and the guards it goes through
          qtEvents,          \* posted calls
          qtMade,            \* history: <<object the call was meant for, object that ran it>>
          undefined,         \* history: a call was posted to an object that was gone
          raced,             \* history: an object went between the look at its guard and the post
          qtCalls, qtMessages
qtVars == <<alive, objects, qtRegistered, connections, qtBatch, qtEvents, qtMade, undefined, raced, qtCalls, qtMessages>>

QtInit ==
    /\ alive = 0 /\ objects = 0 /\ qtRegistered = <<>> /\ connections = 0
    /\ qtBatch = <<"looks", <<>>>> /\ qtEvents = <<>> /\ qtMade = {} /\ undefined = FALSE /\ raced = FALSE
    /\ qtCalls = 0 /\ qtMessages = 0

ContextCreated ==
    /\ alive = 0 /\ objects < MaxObjects
    /\ alive' = objects + 1 /\ objects' = objects + 1
    /\ UNCHANGED <<qtRegistered, connections, qtBatch, qtEvents, qtMade, undefined, raced, qtCalls, qtMessages>>

qtRegisterCallback ==
    /\ alive # 0 /\ qtCalls < MaxQtCalls /\ qtCalls' = qtCalls + 1
    /\ qtRegistered' = Append(qtRegistered, alive)
    /\ connections' = connections + 1
    /\ UNCHANGED <<alive, objects, qtBatch, qtEvents, qtMade, undefined, raced, qtMessages>>
qtUnregisterCallback ==
    /\ alive # 0 /\ qtRegistered # <<>>
    /\ qtRegistered' = <<>>
    /\ UNCHANGED <<alive, objects, connections, qtBatch, qtEvents, qtMade, undefined, raced, qtCalls, qtMessages>>

(* ~QObject clears the guards, emits destroyed and drops the posted calls.      *)
ContextDestroyed ==
    /\ alive # 0
    /\ alive' = 0 /\ qtEvents' = <<>> /\ connections' = 0
    /\ qtRegistered' = IF connections > 0 THEN <<>> ELSE qtRegistered
    /\ raced' = (raced \/ qtBatch[1] = "posts")
    /\ UNCHANGED <<objects, qtBatch, qtMade, undefined, qtCalls, qtMessages>>

QtMessage ==
    /\ qtBatch[2] = <<>> /\ qtRegistered # <<>> /\ qtMessages < MaxQtMessages
    /\ qtMessages' = qtMessages + 1 /\ qtBatch' = <<"looks", qtRegistered>>
    /\ UNCHANGED <<alive, objects, qtRegistered, connections, qtEvents, qtMade, undefined, raced, qtCalls>>
AnyTarget(guarded) == TRUE
Guarded(guarded) == alive = guarded
LooksAtGuard ==
    /\ qtBatch[1] = "looks" /\ qtBatch[2] # <<>>
    /\ qtBatch' = IF Guarded(Head(qtBatch[2])) THEN <<"posts", qtBatch[2]>> ELSE <<"looks", Tail(qtBatch[2])>>
    /\ UNCHANGED <<alive, objects, qtRegistered, connections, qtEvents, qtMade, undefined, raced, qtCalls, qtMessages>>
invokeMethod ==
    /\ qtBatch[1] = "posts"
    /\ qtBatch' = <<"looks", Tail(qtBatch[2])>>
    /\ \/ alive # 0 /\ qtEvents' = Append(qtEvents, Head(qtBatch[2])) /\ UNCHANGED undefined
       \/ alive = 0 /\ undefined' = TRUE /\ UNCHANGED qtEvents
    /\ UNCHANGED <<alive, objects, qtRegistered, connections, qtMade, raced, qtCalls, qtMessages>>
EventLoop ==
    /\ qtEvents # <<>>
    /\ qtMade' = qtMade \cup {<<Head(qtEvents), alive>>} /\ qtEvents' = Tail(qtEvents)
    /\ UNCHANGED <<alive, objects, qtRegistered, connections, qtBatch, undefined, raced, qtCalls, qtMessages>>

QtNext ==
    \/ ContextCreated \/ qtRegisterCallback \/ qtUnregisterCallback \/ ContextDestroyed
    \/ QtMessage \/ LooksAtGuard \/ invokeMethod \/ EventLoop
QtSpec == QtInit /\ [][QtNext]_qtVars
--------------------------------------------------------------------------------
PollersIdle == \A u \in PollUsers : user[u] = NoCall
(* Where no two calls for a topic overlap, the poller has one callback for each  *)
(* of its topics and none for any other, so that unsubscribeAll in the           *)
(* destructor leaves none behind.                                                *)
RegistrationsMatchTopics ==
    PollersIdle => \A t \in PollTopics \ overlapped : registered[t] = IF t \in m_topics THEN 1 ELSE 0

(* "subscribe()/unsubscribe() may be called from any thread": the same, however  *)
(* the calls overlap.                                                            *)
AnyThreadMaySubscribe ==
    PollersIdle => \A t \in PollTopics : registered[t] = IF t \in m_topics THEN 1 ELSE 0

(* A stalled loop comes back to the newest messages, in the order of arrival,    *)
(* and every message was handed over, waits, or was counted as dropped.          *)
PollerKeepsNewest ==
    /\ IsSuffix(m_buffer, enqueued)
    /\ Len(enqueued) = Len(polled) + m_dropped + Len(m_buffer)

(* The poller receives what it is subscribed to, and keeps the newest of it.     *)
PollerIsSound == RegistrationsMatchTopics /\ PollerKeepsNewest

(* When a context is gone, so are its registrations.                             *)
DestroyedLeavesNothing == \A g \in Range(qtRegistered) : g = alive

(* The guard keeps calls from objects that are gone, and from others that came   *)
(* to their address, unless the object goes right between the look at its guard  *)
(* and the post.                                                                 *)
GuardKeepsCalls == ~ raced => ~ undefined /\ \A made \in qtMade : made[1] = made[2]

(* The Qt adapter calls the objects that live, and none that was destroyed.      *)
QtCallsReachTheLiving == DestroyedLeavesNothing /\ GuardKeepsCalls
--------------------------------------------------------------------------------
PolledMessages == PollTopics \X Nat
Pending(u, topic) == topic \in user[u][2]
PollTypeOK ==
    /\ m_topics \subseteq PollTopics /\ registered \in [PollTopics -> Nat]
    /\ user \in [PollUsers -> {NoCall} \cup {"register", "unregister"} \X (SUBSET PollTopics)]
    /\ m_buffer \in Seq(PolledMessages) /\ dispatching \in Seq(PolledMessages)
    /\ enqueued \in Seq(PolledMessages) /\ polled \in Seq(PolledMessages)
    /\ m_dropped \in Nat /\ pollMessages \in Nat

(* A topic that no calls overlapped on is one user's business at a time, and its  *)
(* registration is as m_topics has it, or about to be.                            *)
TopicsInStep ==
    \A t \in PollTopics \ overlapped :
        /\ \A u, v \in PollUsers : Pending(u, t) /\ Pending(v, t) => u = v
        /\ \A u \in PollUsers : Pending(u, t) =>
              IF user[u][1] = "register" THEN t \in m_topics /\ registered[t] = 0 ELSE t \notin m_topics
        /\ (\A u \in PollUsers : ~ Pending(u, t)) => registered[t] = IF t \in m_topics THEN 1 ELSE 0

(* The buffer is the end of what was enqueued, and within its capacity.           *)
EndOf(buffer, all) ==
    Len(buffer) <= Len(all) /\ \A i \in 1 .. Len(buffer) : buffer[i] = all[Len(all) - Len(buffer) + i]
BufferInStep ==
    /\ EndOf(m_buffer, enqueued) /\ Len(m_buffer) <= PollCapacity
    /\ Len(enqueued) = Len(polled) + m_dropped + Len(m_buffer)
PollInv == PollTypeOK /\ TopicsInStep /\ BufferInStep

QtTypeOK ==
    /\ alive \in Nat /\ objects \in Nat /\ alive <= objects /\ connections \in Nat
    /\ qtRegistered \in Seq(Nat) /\ qtEvents \in Seq(Nat)
    /\ qtBatch \in {"looks", "posts"} \X Seq(Nat)

(* Only the object that lives is registered, and it is connected to its end.      *)
QtRegistrationsInStep ==
    /\ \A i \in DOMAIN qtRegistered : qtRegistered[i] = alive
    /\ qtRegistered # <<>> => alive # 0 /\ connections > 0
    /\ \A i \in DOMAIN qtBatch[2] : qtBatch[2][i] \in 1 .. objects
    /\ \A i \in DOMAIN qtEvents : qtEvents[i] \in 1 .. objects
    /\ qtBatch[1] = "posts" => qtBatch[2] # <<>>

(* A posted call, and one about to be posted, is for the object that lives, as    *)
(* long as none went away between the look at its guard and the post.             *)
QtCallsInStep ==
    ~ raced => /\ qtBatch[1] = "posts" => Head(qtBatch[2]) = alive
               /\ \A i \in DOMAIN qtEvents : qtEvents[i] = alive
               /\ ~ undefined /\ \A made \in qtMade : made[1] = made[2]
QtInv == QtTypeOK /\ QtRegistrationsInStep /\ QtCallsInStep
================================================================================
