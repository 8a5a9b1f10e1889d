------------------------------- MODULE CliSession -------------------------------
(* wisp-cli pub, sub, req and stats: a command that finishes, over a session     *)
(* that answers RESETs only while it receives.  The worker is what ZmqWorker     *)
(* shows it to be: control first, in order, and a sync that returns once all of  *)
(* it is out and a heartbeat behind it is answered.                              *)
(* Models src/cli/brokersession.cpp and those commands of src/cli/commands.cpp.  *)
EXTENDS MessageKeys, Sequences, SequencesExt

CONSTANTS InboundLimit,   \* room in m_inbound
          MaxTraffic,     \* bound: messages of others the broker may route here
          MaxCliFaults    \* bound: sessions forgotten, broker restarts

ASSUME InboundAssumption == InboundLimit \in Nat

CliTopics == {"t", "reply", SYS_STATS}
Wanted(command) == CASE command = "sub" -> {"t"}
                     [] command = "req" -> {"reply"}
                     [] command = "stats" -> {SYS_STATS}
                     [] OTHER -> {}

VARIABLES
    command, origin, count,   \* of the options: count 0 is without end
    step, interrupted,    \* where the command is; the signal's flag
    m_open, m_subscriptions,
    cliControl, cliData,  \* the worker's queues
    wire,                 \* on its way to the broker
    m_inbound,
    cliKnown, cliHeld,    \* the broker's session: of this id, so maybe an older one's
    handled,              \* messages of this command the broker has routed
    answer,               \* what the command has printed last
    traffic, cliFaults,
    forgot, restarted,    \* history
    resetLost             \* history: the last RESET was dropped, and none is waiting

options == <<command, origin, count>>
cliBroker == <<cliKnown, cliHeld, handled>>
cliVars == <<options, step, interrupted, m_open, m_subscriptions, cliControl, cliData, wire,
             m_inbound, cliBroker, answer, traffic, cliFaults, forgot, restarted, resetLost>>

CliInit ==
    /\ command \in {"pub", "sub", "req", "stats"}
    /\ origin \in {OriginLocal, OriginAny} /\ count \in {0, 1}
    /\ step = "opens" /\ interrupted = FALSE /\ m_open = FALSE /\ m_subscriptions = <<>>
    /\ cliControl = <<>> /\ cliData = <<>> /\ wire = <<>> /\ m_inbound = <<>>
    /\ \/ cliKnown = FALSE /\ cliHeld = [t \in CliTopics |-> NoScope]
       \/ cliKnown = TRUE /\ cliHeld = [t \in CliTopics |-> IF t = "t" THEN OriginAny ELSE NoScope]
    /\ handled = {} /\ answer = "none" /\ traffic = 0 /\ cliFaults = 0
    /\ forgot = FALSE /\ restarted = FALSE /\ resetLost = FALSE
--------------------------------------------------------------------------------
Among(m, messages) == \E i \in DOMAIN messages : messages[i] = m
Asks(key) == IF cliKnown \/ key \in {"CONNECT", "DISCONNECT"} THEN <<>> ELSE <<"RESET">>

(* The worker hands on what the broker sends.  The queue takes as much as it has *)
(* room for; the rest is dropped after one timed attempt, a RESET like any other. *)
Pushed(messages) ==
    LET all == m_inbound \o messages
    IN  IF Len(all) <= InboundLimit THEN all ELSE SubSeq(all, 1, InboundLimit)
HandsOn(messages) ==
    /\ m_inbound' = Pushed(messages)
    /\ resetLost' = IF Among("RESET", messages)
                    THEN ~ Among("RESET", Pushed(messages))
                    ELSE resetLost

(* open: the worker leads with CONNECT, unless the address is unusable.          *)
Opens ==
    /\ step = "opens"
    /\ \/ step' = "opened" /\ m_open' = TRUE /\ wire' = <<<<"CONNECT">>>>
       \/ step' = "failed" /\ UNCHANGED <<m_open, wire>>
    /\ UNCHANGED <<options, interrupted, m_subscriptions, cliControl, cliData, m_inbound,
                   cliBroker, answer, traffic, cliFaults, forgot, restarted, resetLost>>

(* Every step that a command may not go past unconfirmed is a sync; when it      *)
(* fails the command fails, and the session's destructor closes it.              *)
AfterSync == [opened |-> IF command = "pub" THEN "publishes" ELSE "subscribes",
              subscribed |-> IF command = "req" THEN "publishes" ELSE "receives",
              published |-> "closes"]

AllOut == cliControl = <<>> /\ cliData = <<>> /\ wire = <<>>

Syncs ==
    /\ step \in DOMAIN AfterSync /\ AllOut
    /\ step' = AfterSync[step]
    /\ HandsOn(Asks("HEARTBEAT"))
    /\ cliKnown' = TRUE
    /\ UNCHANGED <<options, wire, interrupted, m_open, m_subscriptions, cliControl, cliData,
                   cliHeld, handled, answer, traffic, cliFaults, forgot, restarted>>

SyncFails ==
    /\ step \in DOMAIN AfterSync
    /\ step' = "fails"
    /\ UNCHANGED <<options, interrupted, m_open, m_subscriptions, cliControl, cliData,
                   wire, m_inbound, cliBroker, answer, traffic, cliFaults, forgot, restarted, resetLost>>

ScopeOf(topic) == IF command = "sub" THEN origin ELSE OriginAny
subscribe(topics) ==
    /\ m_subscriptions' = SetToSeq({<<t, ScopeOf(t)>> : t \in topics})
    /\ cliControl' = cliControl \o SetToSeq({<<"SUBSCRIBE", t, ScopeOf(t)>> : t \in topics})

Subscribes ==
    /\ step = "subscribes" /\ step' = "subscribed"
    /\ subscribe(Wanted(command))
    /\ UNCHANGED <<options, interrupted, m_open, cliData, wire, m_inbound, cliBroker, answer,
                   traffic, cliFaults, forgot, restarted, resetLost>>

PublishesUnconfirmed == IF command = "pub" THEN "closes" ELSE "receives"
AfterPublish == IF command = "pub" THEN "published" ELSE "receives"

Publishes ==
    /\ step = "publishes"
    /\ \/ step' = AfterPublish /\ cliData' = Append(cliData, <<"data">>)
       \/ step' = "fails" /\ UNCHANGED cliData
    /\ UNCHANGED <<options, interrupted, m_open, m_subscriptions, cliControl, wire, m_inbound,
                   cliBroker, answer, traffic, cliFaults, forgot, restarted, resetLost>>
--------------------------------------------------------------------------------
(* receive: a RESET is answered with CONNECT and every subscription; another     *)
(* message is the command's, which takes what it asked for and no other.         *)
(* Statistics that cannot be unpacked are passed over.                           *)
ResubscribesWidely == <<<<"CONNECT">>>> \o
                [i \in DOMAIN m_subscriptions |-> <<"SUBSCRIBE", m_subscriptions[i][1], OriginAny>>]
Resubscribes == <<<<"CONNECT">>>> \o
                [i \in DOMAIN m_subscriptions |->
                    <<"SUBSCRIBE", m_subscriptions[i][1], m_subscriptions[i][2]>>]

Takes(topic) == command = "sub" \/ topic \in Wanted(command)
PassesOver(topic) == ~ Takes(topic) \/ command = "stats"

AfterMessage == IF command \in {"sub", "stats"} /\ count = 0 THEN "receives" ELSE "closes"

Receives ==
    /\ step = "receives" /\ ~ interrupted /\ m_inbound # <<>>
    /\ m_inbound' = Tail(m_inbound)
    /\ \/ /\ Head(m_inbound) = "RESET"
          /\ cliControl' = cliControl \o Resubscribes
          /\ UNCHANGED <<step, answer>>
       \/ /\ Head(m_inbound) # "RESET" /\ Takes(Head(m_inbound))
          /\ answer' = Head(m_inbound) /\ step' = AfterMessage
          /\ UNCHANGED cliControl
       \/ /\ Head(m_inbound) # "RESET" /\ PassesOver(Head(m_inbound))
          /\ UNCHANGED <<step, cliControl, answer>>
    /\ UNCHANGED <<options, wire, interrupted, m_open, m_subscriptions, cliData, cliBroker,
                   traffic, cliFaults, forgot, restarted, resetLost>>

(* The signal ends the loops, and req has a deadline as well.  Without a limit   *)
(* that is no failure.                                                           *)
AfterLoop == IF command = "sub" \/ (command = "stats" /\ count = 0) THEN "closes" ELSE "fails"

GivesUp ==
    /\ step = "receives" /\ (interrupted \/ command = "req")
    /\ step' = AfterLoop
    /\ UNCHANGED <<options, interrupted, m_open, m_subscriptions, cliControl, cliData,
                   wire, m_inbound, cliBroker, answer, traffic, cliFaults, forgot, restarted, resetLost>>

Interrupt ==
    /\ ~ interrupted /\ step \notin {"done", "failed"}
    /\ interrupted' = TRUE
    /\ UNCHANGED <<options, step, m_open, m_subscriptions, cliControl, cliData,
                   wire, m_inbound, cliBroker, answer, traffic, cliFaults, forgot, restarted, resetLost>>

(* close, of the command or of the destructor: the worker flushes its control    *)
(* messages if the pipe takes them, and drops the data it still has.             *)
Closes ==
    /\ step \in {"closes", "fails"}
    /\ step' = IF step = "closes" THEN "done" ELSE "failed"
    /\ m_open' = FALSE
    /\ \E kept \in 0 .. Len(cliControl) + 1 :
          wire' = wire \o SubSeq(Append(cliControl, <<"DISCONNECT">>), 1, kept)
    /\ cliControl' = <<>> /\ cliData' = <<>>
    /\ UNCHANGED <<options, interrupted, m_subscriptions, m_inbound, cliBroker, answer,
                   traffic, cliFaults, forgot, restarted, resetLost>>

WorkerSends ==
    /\ m_open
    /\ \/ cliControl # <<>> /\ wire' = Append(wire, Head(cliControl))
          /\ cliControl' = Tail(cliControl) /\ UNCHANGED cliData
       \/ cliControl = <<>> /\ cliData # <<>> /\ wire' = Append(wire, Head(cliData))
          /\ cliData' = Tail(cliData) /\ UNCHANGED cliControl
    /\ UNCHANGED <<options, step, interrupted, m_open, m_subscriptions, m_inbound, cliBroker,
                   answer, traffic, cliFaults, forgot, restarted, resetLost>>
--------------------------------------------------------------------------------
(* The broker, as Broker has it.  A request is answered at once: by then its     *)
(* reply topic had better be held.                                               *)
BrokerHandles ==
    LET m == Head(wire)
        answers == m[1] = "data" /\ command = "req" /\ cliHeld["reply"] # NoScope
    IN  /\ wire # <<>> /\ wire' = Tail(wire)
        /\ cliKnown' = (m[1] # "DISCONNECT")
        /\ cliHeld' = CASE m[1] = "SUBSCRIBE" -> [cliHeld EXCEPT ![m[2]] = m[3]]
                        [] m[1] = "DISCONNECT" -> [t \in CliTopics |-> NoScope]
                        [] OTHER -> cliHeld
        /\ HandsOn(Asks(m[1]) \o (IF answers THEN <<"reply">> ELSE <<>>))
        /\ handled' = handled \cup (IF m[1] # "data" THEN {}
                                  ELSE IF command = "req" /\ ~ answers THEN {"unanswerable"}
                                  ELSE {command})
        /\ UNCHANGED <<options, step, interrupted, m_open, m_subscriptions, cliControl, cliData,
                       answer, traffic, cliFaults, forgot, restarted>>

CliHeartbeat ==
    /\ m_open /\ ~ cliKnown
    /\ cliKnown' = TRUE
    /\ HandsOn(Asks("HEARTBEAT"))
    /\ UNCHANGED <<options, wire, step, interrupted, m_open, m_subscriptions, cliControl,
                   cliData, cliHeld, handled, answer, traffic, cliFaults, forgot, restarted>>

RoutesHere(topic) ==
    /\ m_open /\ cliHeld[topic] # NoScope
    /\ traffic < MaxTraffic /\ traffic' = traffic + 1
    /\ HandsOn(<<topic>>)
    /\ UNCHANGED <<options, wire, step, interrupted, m_open, m_subscriptions, cliControl,
                   cliData, cliBroker, answer, cliFaults, forgot, restarted>>

SessionForgotten ==
    /\ m_open /\ cliFaults < MaxCliFaults /\ cliFaults' = cliFaults + 1
    /\ cliKnown' = FALSE /\ cliHeld' = [t \in CliTopics |-> NoScope] /\ forgot' = TRUE
    /\ \/ UNCHANGED <<wire, restarted>>
       \/ restarted' = TRUE /\ wire' = <<>>
    /\ UNCHANGED <<options, step, interrupted, m_open, m_subscriptions, cliControl, cliData,
                   m_inbound, handled, answer, traffic, resetLost>>

CliNext ==
    \/ Opens \/ Syncs \/ SyncFails \/ Subscribes \/ Publishes \/ Receives \/ GivesUp \/ Interrupt
    \/ Closes \/ WorkerSends \/ BrokerHandles \/ CliHeartbeat \/ SessionForgotten
    \/ \E t \in {"t", SYS_STATS} : RoutesHere(t)

CliSpec == CliInit /\ [][CliNext]_cliVars

(* The command's loop runs, the broker reads and heartbeats go out.              *)
CliFairness == WF_cliVars(Receives) /\ WF_cliVars(WorkerSends \/ BrokerHandles \/ CliHeartbeat)
--------------------------------------------------------------------------------
(* pub exits with 0 only when the broker has routed its message, unless it was   *)
(* restarted meanwhile and lost it on the way.                                   *)
PublishIsConfirmed == command = "pub" /\ step = "done" /\ ~ restarted => handled = {"pub"}

(* req sends its request to a broker that can route the reply, unless the        *)
(* session was lost in between.                                                  *)
RequestIsAnswerable == "unanswerable" \in handled => forgot

(* req prints its reply and stats prints statistics, though the broker may still *)
(* have subscriptions of an earlier session under this id.                       *)
AnswerIsOwn == answer \in {"none"} \cup (IF command = "sub" THEN CliTopics ELSE Wanted(command))

(* What pub, req and stats report as done has been done.                         *)
SuccessIsReal == PublishIsConfirmed /\ RequestIsAnswerable /\ AnswerIsOwn

(* While sub or stats runs, a lost session comes back with the scopes it had,    *)
(* unless the queue was full when the broker asked for them.                     *)
SubscriptionComesBack ==
    (step = "receives" /\ ~ interrupted) ~>
        (step # "receives" \/ interrupted \/ resetLost \/ \A t \in Wanted(command) : cliHeld[t] = ScopeOf(t))
--------------------------------------------------------------------------------
(* The inductive invariant: what may be where on the way to the broker.          *)
ControlMessages == {<<"CONNECT">>} \cup ({"SUBSCRIBE"} \X CliTopics \X Origin)
WireMessages == {<<"data">>, <<"DISCONNECT">>} \cup ControlMessages
CliTypeOK ==
    /\ command \in {"pub", "sub", "req", "stats"} /\ origin \in Origin
    /\ step \in {"opens", "opened", "subscribes", "subscribed", "publishes", "published", "receives",
                 "closes", "fails", "done", "failed"}
    /\ m_inbound \in Seq(CliTopics \cup {"RESET"}) /\ m_subscriptions \in Seq(CliTopics \X Origin)
    /\ cliControl \in Seq(ControlMessages) /\ cliData \in Seq({<<"data">>}) /\ wire \in Seq(WireMessages)
    /\ cliHeld \in [CliTopics -> Origin \cup {NoScope}]

(* A session that is closed has nothing left to send, and DISCONNECT is its last. *)
CliOrder ==
    /\ command = "pub" => step \notin {"subscribes", "subscribed", "receives"}
    /\ m_open <=> step \notin {"opens", "done", "failed"}
    /\ m_open \/ (cliData = <<>> /\ cliControl = <<>>)
    /\ \A i \in DOMAIN wire : wire[i] = <<"DISCONNECT">> => step \in {"done", "failed"} /\ i = Len(wire)

(* What pub has published is on its way or routed.                                *)
PublishInv ==
    command = "pub" =>
        /\ handled \subseteq {"pub"}
        /\ step = "published" /\ ~ restarted => cliData # <<>> \/ Among(<<"data">>, wire) \/ "pub" \in handled
        /\ step \in {"closes", "done"} /\ ~ restarted => "pub" \in handled

(* req's subscription is ahead of its request, all the way.                       *)
ReplyHeld == cliHeld["reply"] # NoScope
ReplyAsked(messages) == \E o \in Origin : Among(<<"SUBSCRIBE", "reply", o>>, messages)
RequestInv ==
    command = "req" /\ ~ forgot =>
        /\ step = "subscribed" => ReplyHeld \/ ReplyAsked(cliControl) \/ ReplyAsked(wire)
        /\ step = "publishes" \/ cliData # <<>> \/ Among(<<"data">>, wire) => ReplyHeld
CliInv == CliTypeOK /\ CliOrder /\ PublishInv /\ RequestInv /\ RequestIsAnswerable /\ AnswerIsOwn
================================================================================
