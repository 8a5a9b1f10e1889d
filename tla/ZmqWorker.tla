-------------------------------- MODULE ZmqWorker --------------------------------
(* The worker that owns one connection to a broker: producers queue messages,  *)
(* the worker's own thread puts them on the wire, and sync waits until the     *)
(* broker has answered for them.  One action per lock the loop takes, so that  *)
(* producers and sync step in between.  The loop comes round by its poll       *)
(* timeout at the latest; the wake pings only make it come sooner.             *)
(* Models src/common/zmqworker.cpp over src/common/safequeue.h.                *)
EXTENDS Integers, Sequences, FiniteSets, Functions

CONSTANTS MaxMessages,           \* bound: messages the producers queue
          MaxFaults,             \* bound: stops of the worker and broker restarts
          MaxUnanswered,         \* bound: heartbeats sent and not acknowledged
          QueueLimit,            \* m_maxSize of the queues
          CONTROL_BACKLOG_LIMIT, DATA_BACKLOG_LIMIT,
          PipeLimit              \* external: the socket's send high-water mark

(* Every queue and the pipe has room for something.                            *)
ASSUME WorkerAssumption ==
    /\ MaxMessages \in Nat /\ QueueLimit \in Nat /\ MaxUnanswered \in Nat
    /\ CONTROL_BACKLOG_LIMIT \in Nat /\ DATA_BACKLOG_LIMIT \in Nat
    /\ PipeLimit \in Nat \ {0}

CONNECT == -1
HEARTBEAT == 0
Messages == 1 .. MaxMessages     \* numbered in the order they are queued
NoTarget == -1

VARIABLES
    link,          \* the worker of a peer link, whose data comes encoded
    control,       \* those of the messages that are control messages
    queued,        \* how many messages have been accepted by a queue
    m_controlQueue, m_dataQueue,   \* the latter m_outboundQueue or m_encodedQueue
    m_running, pc, \* the loop's next lock, or "stopped"
    isOnline, batch, controlBacklog, dataBacklog,
    unanswered,    \* m_heartbeatsSent - m_acksReceived
    m_syncRequested,
    m_syncTarget,  \* acknowledgements still to come for it, NoTarget for 0
    sync,          \* of the caller: where it is, which wait, its own target
    before,        \* history: messages accepted before that call
    pipe,          \* on the way to the broker
    back,          \* on the way to the worker: "HEARTBEAT_ACK" or "RESET"
    known,         \* the broker has a session for this client
    stray,         \* history: at the call, the loop had looked at the queues
    notified,      \* the stop, if there was one, has notified the callers of sync
    faults

queueVars == <<link, control, queued, m_controlQueue, m_dataQueue>>
loopVars == <<isOnline, batch, controlBacklog, dataBacklog>>
syncVars == <<m_syncRequested, m_syncTarget, sync, before, stray>>
lifeVars == <<m_running, notified, faults>>
wireVars == <<pipe, back, known>>
vars == <<queueVars, pc, loopVars, unanswered, syncVars, wireVars, lifeVars>>

NoCall == [at |-> "idle", stage |-> 1, target |-> NoTarget]

Init ==
    /\ link \in BOOLEAN
    /\ control = {} /\ queued = 0
    /\ m_controlQueue = <<>> /\ m_dataQueue = <<>>
    /\ m_running = TRUE /\ pc = "poll"
    /\ isOnline = FALSE
    /\ batch = <<>> /\ controlBacklog = <<>> /\ dataBacklog = <<>>
    /\ unanswered = 0
    /\ m_syncRequested = FALSE /\ m_syncTarget = NoTarget
    /\ sync = NoCall
    /\ before = {} /\ stray = FALSE
    /\ pipe = <<CONNECT>> /\ back = <<>> /\ known = FALSE
    /\ notified = TRUE /\ faults = 0
--------------------------------------------------------------------------------
(* Producers.  A push that finds no room in time is refused, and the caller    *)
(* knows; the message is then as if it had never been.                         *)
writeControlMessage ==
    /\ queued < MaxMessages
    /\ Len(m_controlQueue) < QueueLimit
    /\ queued' = queued + 1
    /\ control' = control \cup {queued'}
    /\ m_controlQueue' = Append(m_controlQueue, queued')
    /\ UNCHANGED <<link, m_dataQueue, pc, loopVars, unanswered, syncVars, wireVars,
                   lifeVars>>

(* writeMessage on the worker of a client, writeEncoded on that of a link.     *)
writeMessage ==
    /\ queued < MaxMessages
    /\ Len(m_dataQueue) < QueueLimit
    /\ queued' = queued + 1
    /\ m_dataQueue' = Append(m_dataQueue, queued')
    /\ UNCHANGED <<link, control, m_controlQueue, pc, loopVars, unanswered, syncVars,
                   wireVars, lifeVars>>
--------------------------------------------------------------------------------
(* sync, one caller at a time, and never on a link.  It holds m_syncMutex      *)
(* while it is "checked": the predicate was false, the wait has not begun.     *)
Locked == sync.at = "checked"

(* notify_all: it reaches a caller that waits, and no other.                   *)
Notified(s) == IF s.at = "asleep" THEN [s EXCEPT !.at = "awake"] ELSE s

SyncCall ==
    /\ sync.at = "idle" /\ m_running /\ ~ link
    /\ sync' = [NoCall EXCEPT !.at = "awake"]
    /\ before' = 1 .. queued
    /\ m_syncTarget' = NoTarget
    /\ m_syncRequested' = TRUE
    /\ stray' = (pc \in {"ask", "take", "beat", "target"})
    /\ UNCHANGED <<queueVars, pc, loopVars, unanswered, wireVars, lifeVars>>

(* It returns TRUE when its target has been reached, and FALSE otherwise.      *)
SyncReturns == sync' = NoCall /\ before' = {} /\ stray' = FALSE

(* Under the lock: on to the second wait, out, or about to wait.               *)
SyncChecks ==
    /\ sync.at = "awake"
    /\ \/ /\ sync.stage = 1 /\ m_syncTarget # NoTarget
          /\ sync' = [sync EXCEPT !.stage = 2, !.target = m_syncTarget]
          /\ UNCHANGED <<m_syncRequested, before, stray>>
       \/ /\ sync.stage = 1 /\ m_syncTarget = NoTarget /\ ~ m_running
          /\ SyncReturns
          /\ m_syncRequested' = FALSE
       \/ /\ sync.stage = 2 /\ (sync.target = 0 \/ ~ m_running)
          /\ SyncReturns
          /\ UNCHANGED m_syncRequested
       \/ /\ m_running
          /\ IF sync.stage = 1 THEN m_syncTarget = NoTarget ELSE sync.target # 0
          /\ sync' = [sync EXCEPT !.at = "checked"]
          /\ UNCHANGED <<m_syncRequested, before, stray>>
    /\ UNCHANGED <<queueVars, pc, loopVars, unanswered, m_syncTarget, wireVars, lifeVars>>

SyncWaits ==
    /\ sync.at = "checked"
    /\ sync' = [sync EXCEPT !.at = "asleep"]
    /\ UNCHANGED <<queueVars, pc, loopVars, unanswered, m_syncRequested, m_syncTarget,
                   before, stray, wireVars, lifeVars>>

(* The deadline passes.  A caller without a target takes its request back; the *)
(* loop may have taken it already and be about to send the heartbeat.          *)
SyncTimesOut ==
    /\ sync.at = "asleep"
    /\ \/ sync.stage = 1 /\ m_syncTarget = NoTarget /\ m_syncRequested' = FALSE
       \/ sync.stage = 2 /\ UNCHANGED m_syncRequested
    /\ SyncReturns
    /\ UNCHANGED <<queueVars, pc, loopVars, unanswered, m_syncTarget, wireVars, lifeVars>>
--------------------------------------------------------------------------------
(* The loop.  Wire::send refuses a message when the pipe is full.              *)
(* What fits in the pipe goes; the rest is counted by noteDroppedSend.         *)
Fitting(messages) ==
    SubSeq(messages, 1, IF Len(messages) > PipeLimit - Len(pipe) THEN PipeLimit - Len(pipe)
                        ELSE Len(messages))
Refused(messages) == SubSeq(messages, Len(Fitting(messages)) + 1, Len(messages))
SendBatch(messages) == pipe' = pipe \o Fitting(messages)

(* A backlog past its limit loses its oldest.                                  *)
Kept(messages, limit) ==
    SubSeq(messages, IF Len(messages) > limit THEN Len(messages) - limit + 1 ELSE 1,
           Len(messages))

(* One frame is received, if there is one.  Any frame proves the broker alive; *)
(* an acknowledgement is counted under m_syncMutex.                            *)
OneFewer(n) == IF n > 0 THEN n - 1 ELSE n

Poll ==
    /\ pc = "poll" /\ m_running
    /\ pc' = "control"
    /\ \/ /\ back = <<>>
          /\ UNCHANGED <<isOnline, back, unanswered, m_syncTarget, sync>>
       \/ /\ back # <<>>
          /\ back' = Tail(back)
          /\ isOnline' = TRUE
          /\ \/ /\ Head(back) = "HEARTBEAT_ACK" /\ ~ Locked
                /\ unanswered' = unanswered - 1
                /\ m_syncTarget' = OneFewer(m_syncTarget)
                /\ sync' = Notified([sync EXCEPT !.target = OneFewer(@)])
             \/ /\ Head(back) # "HEARTBEAT_ACK"
                /\ UNCHANGED <<unanswered, m_syncTarget, sync>>
    /\ UNCHANGED <<queueVars, batch, controlBacklog, dataBacklog, m_syncRequested, before,
                   stray, pipe, known, lifeVars>>

(* Control: drained into the backlog, the oldest dropped past its limit, and   *)
(* sent in order for as long as the pipe takes it.                             *)
DrainControl ==
    LET waiting == controlBacklog \o m_controlQueue
        kept == Kept(waiting, CONTROL_BACKLOG_LIMIT)
    IN  /\ pc = "control"
        /\ pc' = "data"
        /\ m_controlQueue' = <<>>
        /\ SendBatch(kept)
        /\ controlBacklog' = Refused(kept)
        /\ UNCHANGED <<link, control, queued, m_dataQueue, isOnline, batch, dataBacklog,
                       unanswered, syncVars, back, known, lifeVars>>

(* Data of a client, drained once online; whether control is still waiting is  *)
(* asked afterwards.                                                           *)
DrainData ==
    /\ pc = "data"
    /\ pc' = IF isOnline /\ ~ link /\ m_dataQueue # <<>> THEN "gate" ELSE "backlog"
    /\ IF isOnline /\ ~ link
       THEN batch' = m_dataQueue /\ m_dataQueue' = <<>>
       ELSE UNCHANGED <<batch, m_dataQueue>>
    /\ UNCHANGED <<link, control, queued, m_controlQueue, isOnline, controlBacklog,
                   dataBacklog, unanswered, syncVars, wireVars, lifeVars>>

ControlIsOut == controlBacklog = <<>> /\ m_controlQueue = <<>>

NoBacklogs == dataBacklog = <<>> /\ controlBacklog = <<>>
NothingAhead == dataBacklog = <<>> /\ ControlIsOut

Gate ==
    LET waiting == dataBacklog \o batch IN
    /\ pc = "gate"
    /\ pc' = "backlog"
    /\ batch' = <<>>
    /\ \/ /\ NothingAhead
          /\ SendBatch(batch)
          /\ UNCHANGED dataBacklog
       \/ /\ ~ NothingAhead
          /\ dataBacklog' = Kept(waiting, DATA_BACKLOG_LIMIT)
          /\ UNCHANGED pipe
    /\ UNCHANGED <<queueVars, isOnline, controlBacklog, unanswered, syncVars, back, known,
                   lifeVars>>

BacklogGoesWithBatch == dataBacklog # <<>> /\ ControlIsOut /\ batch # <<>>
BacklogGoes == dataBacklog # <<>> /\ ControlIsOut

SendBacklog ==
    /\ pc = "backlog"
    /\ pc' = IF link /\ isOnline /\ ControlIsOut THEN "encoded" ELSE "sync"
    /\ \/ BacklogGoes /\ SendBatch(dataBacklog) /\ dataBacklog' = <<>>
       \/ ~ BacklogGoes /\ UNCHANGED <<dataBacklog, pipe>>
    /\ UNCHANGED <<queueVars, isOnline, batch, controlBacklog, unanswered, syncVars, back, known,
                   lifeVars>>

(* Encoded data: asked first, drained after, and never held back.              *)
DrainEncoded ==
    /\ pc = "encoded"
    /\ pc' = "sync"
    /\ SendBatch(m_dataQueue)
    /\ m_dataQueue' = <<>>
    /\ UNCHANGED <<link, control, queued, m_controlQueue, loopVars, unanswered, syncVars,
                   back, known, lifeVars>>

(* A pending sync: every queue is asked in turn, then the request is taken,    *)
(* the heartbeat sent and the target set, under three holds of m_syncMutex.    *)
AskControl ==
    /\ pc = "sync"
    /\ pc' = IF isOnline /\ ControlIsOut /\ dataBacklog = <<>> THEN "ask" ELSE "tail"
    /\ UNCHANGED <<queueVars, loopVars, unanswered, syncVars, wireVars, lifeVars>>

AskData ==
    /\ pc = "ask"
    /\ pc' = IF m_dataQueue = <<>> THEN "take" ELSE "tail"
    /\ UNCHANGED <<queueVars, loopVars, unanswered, syncVars, wireVars, lifeVars>>

TakeRequest ==
    /\ pc = "take" /\ ~ Locked
    /\ pc' = IF m_syncRequested /\ unanswered < MaxUnanswered THEN "beat" ELSE "tail"
    /\ m_syncRequested' = (m_syncRequested /\ pc' = "tail")
    /\ UNCHANGED <<queueVars, loopVars, unanswered, m_syncTarget, sync, before, stray,
                   wireVars, lifeVars>>

(* A heartbeat is counted whether or not the pipe took it.                     *)
sendHeartbeat ==
    /\ unanswered' = unanswered + 1
    /\ pipe' = IF Len(pipe) < PipeLimit THEN Append(pipe, HEARTBEAT) ELSE pipe

SyncBeat ==
    /\ pc = "beat" /\ ~ Locked
    /\ pc' = "target"
    /\ sendHeartbeat
    /\ UNCHANGED <<queueVars, loopVars, syncVars, back, known, lifeVars>>

SetTarget ==
    /\ pc = "target" /\ ~ Locked
    /\ pc' = "tail"
    /\ m_syncTarget' = unanswered
    /\ sync' = Notified(sync)
    /\ UNCHANGED <<queueVars, loopVars, unanswered, m_syncRequested, before, stray,
                   wireVars, lifeVars>>

(* The end of an iteration: a heartbeat when one is due, and offline when the  *)
(* broker has been silent for too long.                                        *)
LoopTail(due, silent) ==
    /\ pc = "tail" /\ ~ Locked
    /\ pc' = "poll"
    /\ \/ due /\ unanswered < MaxUnanswered /\ sendHeartbeat
       \/ ~ due /\ UNCHANGED <<unanswered, pipe>>
    /\ isOnline' = (isOnline /\ ~ silent)
    /\ UNCHANGED <<queueVars, batch, controlBacklog, dataBacklog, syncVars, back, known,
                   lifeVars>>
--------------------------------------------------------------------------------
(* stop: m_running without the lock, then once through the lock, then notify;  *)
(* the join is the wait for "stopped".                                         *)
Stop ==
    /\ m_running /\ faults < MaxFaults
    /\ m_running' = FALSE
    /\ notified' = FALSE
    /\ faults' = faults + 1
    /\ UNCHANGED <<queueVars, pc, loopVars, unanswered, syncVars, wireVars>>

StopNotifiesUnlocked ==
    /\ ~ notified
    /\ notified' = TRUE
    /\ sync' = Notified(sync)
    /\ UNCHANGED <<queueVars, m_running, pc, loopVars, unanswered, m_syncRequested,
                   m_syncTarget, before, stray, wireVars, faults>>
StopNotifies ==
    /\ ~ notified /\ ~ Locked
    /\ notified' = TRUE
    /\ sync' = Notified(sync)
    /\ UNCHANGED <<queueVars, m_running, pc, loopVars, unanswered, m_syncRequested,
                   m_syncTarget, before, stray, wireVars, faults>>

(* The loop has ended: control is drained once more, retried while the pipe is *)
(* full, and given up in the end.                                              *)
FinalDrain ==
    LET waiting == controlBacklog \o m_controlQueue
    IN  /\ pc = "poll" /\ ~ m_running
        /\ pc' = "flush"
        /\ m_controlQueue' = <<>>
        /\ SendBatch(waiting)
        /\ controlBacklog' = Refused(waiting)
        /\ UNCHANGED <<link, control, queued, m_dataQueue, isOnline, batch, dataBacklog,
                       unanswered, syncVars, back, known, lifeVars>>

Flush ==
    /\ pc = "flush"
    /\ \/ /\ controlBacklog # <<>> /\ Len(pipe) < PipeLimit
          /\ SendBatch(controlBacklog)
          /\ controlBacklog' = Refused(controlBacklog)
          /\ UNCHANGED <<pc, dataBacklog>>
       \/ /\ controlBacklog = <<>> \/ Len(pipe) = PipeLimit
          /\ pc' = "stopped"
          /\ controlBacklog' = <<>> /\ dataBacklog' = <<>>
          /\ UNCHANGED pipe
    /\ UNCHANGED <<queueVars, isOnline, batch, unanswered, syncVars, back, known, lifeVars>>

(* start once more: a new socket with the old queues and the old counts.       *)
Start ==
    /\ pc = "stopped" /\ notified
    /\ pc' = "poll" /\ m_running' = TRUE
    /\ isOnline' = FALSE
    /\ pipe' = <<CONNECT>> /\ back' = <<>>
    /\ UNCHANGED <<queueVars, batch, controlBacklog, dataBacklog, unanswered, syncVars,
                   known, notified, faults>>
--------------------------------------------------------------------------------
(* The broker: it takes what arrives in order, acknowledges heartbeats, and    *)
(* asks a client it does not know for its subscriptions.                       *)
BrokerHandles ==
    LET message == Head(pipe) IN
    /\ pipe # <<>>
    /\ pipe' = Tail(pipe)
    /\ known' = TRUE
    /\ back' = back \o (IF known \/ message = CONNECT THEN <<>> ELSE <<"RESET">>)
                    \o (IF message = HEARTBEAT THEN <<"HEARTBEAT_ACK">> ELSE <<>>)
    /\ UNCHANGED <<queueVars, pc, loopVars, unanswered, syncVars, lifeVars>>

(* It may restart: what it had received and not handled is gone, and so is     *)
(* what was on its way back.                                                   *)
BrokerRestarts ==
    /\ faults < MaxFaults
    /\ faults' = faults + 1
    /\ \E n \in 0 .. Len(pipe) : pipe' = SubSeq(pipe, n + 1, Len(pipe))
    /\ back' = <<>>
    /\ known' = FALSE
    /\ UNCHANGED <<queueVars, m_running, notified, pc, loopVars, unanswered, syncVars>>
--------------------------------------------------------------------------------
LoopStep ==
    \/ Poll \/ DrainControl \/ DrainData \/ Gate \/ SendBacklog \/ DrainEncoded
    \/ AskControl \/ AskData \/ TakeRequest \/ SyncBeat \/ SetTarget
    \/ \E due, silent \in BOOLEAN : LoopTail(due, silent)
    \/ FinalDrain \/ Flush

SyncStep == SyncChecks \/ SyncWaits \/ StopNotifies

Next ==
    \/ writeControlMessage \/ writeMessage
    \/ SyncCall \/ SyncStep \/ SyncTimesOut
    \/ LoopStep
    \/ Stop \/ Start
    \/ BrokerHandles \/ BrokerRestarts

Spec == Init /\ [][Next]_vars

(* Threads run, the broker reads, and heartbeats come due; no call of sync     *)
(* need reach its deadline.                                                    *)
FairSpec ==
    /\ Spec
    /\ SF_vars(LoopStep) /\ SF_vars(LoopTail(TRUE, FALSE))
    /\ WF_vars(SyncStep)
    /\ WF_vars(BrokerHandles)
--------------------------------------------------------------------------------
Waiting == UNION {Range(q) : q \in {m_controlQueue, m_dataQueue, controlBacklog,
                                      dataBacklog, batch}}
Outstanding == (Waiting \cup Range(pipe)) \cap Messages

(* A message may go out ahead of one queued before it when it is control and   *)
(* that one data; on the worker of a link, also the other way round.           *)
MayOvertake(later, earlier) ==
    \/ later \in control /\ earlier \notin control
    \/ link /\ later \notin control /\ earlier \in control

(* On the worker of a client no data overtakes a control message queued before *)
(* it, whatever is refused, held back or retried; and neither kind is          *)
(* reordered in itself.                                                        *)
ControlGoesFirst ==
    \A i \in DOMAIN pipe :
        \A earlier \in (Waiting \cup {pipe[j] : j \in i + 1 .. Len(pipe)}) \cap Messages :
            earlier < pipe[i] => MayOvertake(pipe[i], earlier)

(* Control is state: a control message leaves the queue and the backlog only   *)
(* for the wire, but for a backlog at its limit and a worker that has given up *)
(* on its way out.                                                             *)
KeepsControl ==
    \A m \in control \cap Waiting :
        \/ m \in Outstanding'
        \/ Len(controlBacklog) + Len(m_controlQueue) > CONTROL_BACKLOG_LIMIT
        \/ pc' = "stopped"

SyncSucceeds == sync.target = 0 /\ sync'.at = "idle"

(* sync answers TRUE only when nothing accepted before the call is still on    *)
(* its way to the broker; unless, at the call, the loop was past its look at   *)
(* the queues, so that its heartbeat goes out ahead of them.                   *)
SyncConfirms == SyncSucceeds /\ ~ stray => before \cap Outstanding = {}

(* What the comment in sync says: the loop sends the heartbeat once everything *)
(* queued before the call is on the wire.                                      *)
SyncAlwaysConfirms == [][SyncSucceeds => before \cap Outstanding = {}]_vars

(* A caller of sync that waits when the worker is stopped returns, without its *)
(* deadline: stop's notify is never between its check and its wait.            *)
StopEndsSync == (~ m_running /\ sync.at # "idle") ~> (m_running \/ sync.at = "idle")

(* No step of a thread lets data overtake control, loses a control message, or *)
(* has sync answer for what the broker has not handled.                        *)
WorkerIsSafe == [][ControlGoesFirst' /\ KeepsControl /\ SyncConfirms]_vars

(* When the producers pause, everything accepted goes out in the end, through  *)
(* outages, full pipes and held-back data, while the worker is left running    *)
(* and the bound on the heartbeats does not stop them.                         *)
EverythingGoesOut ==
    (queued = MaxMessages) ~>
        (Outstanding = {} \/ ~ m_running \/ unanswered = MaxUnanswered)
--------------------------------------------------------------------------------
(* The inductive invariants.  Of the order: numbers grow along each chain of   *)
(* queues, control and data are kept apart, and a link holds nothing back.     *)
Increasing(q) == \A i, j \in DOMAIN q : i < j => q[i] < q[j]
Below(q, r) == \A i \in DOMAIN q, j \in DOMAIN r : q[i] < r[j]
ControlChain == Increasing(controlBacklog) /\ Increasing(m_controlQueue) /\ Below(controlBacklog, m_controlQueue)
DataChain ==
    /\ Increasing(dataBacklog) /\ Increasing(batch) /\ Increasing(m_dataQueue)
    /\ Below(dataBacklog, batch) /\ Below(dataBacklog, m_dataQueue) /\ Below(batch, m_dataQueue)
Accepted == 1 .. queued
Signals == {CONNECT, HEARTBEAT}
WorkerTypeOK ==
    /\ link \in BOOLEAN /\ queued \in 0 .. MaxMessages /\ control \subseteq Accepted
    /\ controlBacklog \in Seq(control) /\ m_controlQueue \in Seq(control)
    /\ dataBacklog \in Seq(Accepted \ control) /\ batch \in Seq(Accepted \ control)
    /\ m_dataQueue \in Seq(Accepted \ control)
    /\ pipe \in Seq(Accepted \cup Signals) /\ Len(pipe) <= PipeLimit
    /\ back \in Seq({"HEARTBEAT_ACK", "RESET"})
OrderInv ==
    /\ WorkerTypeOK /\ ControlChain /\ DataChain
    /\ link => dataBacklog = <<>> /\ batch = <<>>
    /\ pc = "encoded" => link
    /\ ControlGoesFirst

(* Of sync: acknowledgements that can come before a message is handled are     *)
(* fewer than those a call waits for, if the message was queued before it.     *)
Heartbeats(list) == {j \in DOMAIN list : list[j] = HEARTBEAT}
Acks(list) == {j \in DOMAIN list : list[j] = "HEARTBEAT_ACK"}
ToCome(out, in) == Cardinality(Heartbeats(out)) + Cardinality(Acks(in))
ToComeBefore(i, out, in) == Cardinality({j \in Heartbeats(out) : j < i}) + Cardinality(Acks(in))
Awaits(n, S, out, in) == \A i \in DOMAIN out : out[i] \in S => ToComeBefore(i, out, in) < n
Covers(n) == before \cap Waiting = {} /\ Awaits(n, before, pipe, back)
SyncTypeOK ==
    /\ unanswered \in Int /\ m_syncTarget \in Nat \cup {NoTarget}
    /\ sync \in [at : {"idle", "awake", "checked", "asleep"}, stage : {1, 2}, target : Nat \cup {NoTarget}]
    /\ stray \in BOOLEAN /\ before \subseteq Accepted
SyncInv ==
    /\ SyncTypeOK
    /\ ToCome(pipe, back) <= unanswered
    /\ sync.at = "idle" => sync.target = NoTarget
    /\ pc # "gate" => batch = <<>>
    /\ sync.at # "idle" /\ ~ stray =>
          /\ pc = "ask" => before \cap (Waiting \ Range(m_dataQueue)) = {}
          /\ pc \in {"take", "beat", "target"} => before \cap Waiting = {}
          /\ pc = "target" => Covers(unanswered)
          /\ m_syncTarget # NoTarget => Covers(m_syncTarget)
          /\ sync.target # NoTarget => Covers(sync.target)
================================================================================
