-------------------------------- MODULE SafeQueue --------------------------------
(* The bounded queue between threads, with the waits of its producers.         *)
(* Models src/common/safequeue.h.                                              *)
EXTENDS Naturals, Sequences

CONSTANT m_maxSize

ASSUME SizeAssumption == m_maxSize \in Nat \ {0}

VARIABLES
    m_queue, m_stop,
    at      \* at[t]: where thread t is, "pushes" or "sleeps" when in a push

queueVars == <<m_queue, m_stop, at>>

HasRoom == Len(m_queue) < m_maxSize \/ m_stop

(* notify_all on m_condFull.                                                   *)
Awoken == [t \in DOMAIN at |-> IF at[t] = "sleeps" THEN "pushes" ELSE at[t]]

(* pushInternal, each step under the lock: the value goes in, or is dropped    *)
(* when the queue is stopped; the thread waits; its wait ends at the timeout,  *)
(* which is the end of the push unless there is room by then.                  *)
push(t, value) ==
    /\ at[t] = "pushes" /\ HasRoom
    /\ m_queue' = IF m_stop THEN m_queue ELSE Append(m_queue, value)
    /\ at' = [at EXCEPT ![t] = "runs"]
    /\ UNCHANGED m_stop

pushWaits(t) ==
    /\ at[t] = "pushes" /\ ~ HasRoom
    /\ at' = [at EXCEPT ![t] = "sleeps"]
    /\ UNCHANGED <<m_queue, m_stop>>

pushNeverTimesOut(t) == FALSE /\ UNCHANGED queueVars
pushTimesOut(t) ==
    /\ at[t] = "sleeps"
    /\ at' = [at EXCEPT ![t] = IF HasRoom THEN "pushes" ELSE "runs"]
    /\ UNCHANGED <<m_queue, m_stop>>

(* pop and try_pop take one value and wake one producer.                       *)
popWakesNobody ==
    /\ m_queue # <<>>
    /\ m_queue' = Tail(m_queue)
    /\ UNCHANGED <<m_stop, at>>
pop ==
    /\ m_queue # <<>>
    /\ m_queue' = Tail(m_queue)
    /\ \/ \E t \in DOMAIN at : at[t] = "sleeps" /\ at' = [at EXCEPT ![t] = "pushes"]
       \/ (\A t \in DOMAIN at : at[t] # "sleeps") /\ UNCHANGED at
    /\ UNCHANGED m_stop

drainToSilently ==
    /\ m_queue # <<>>
    /\ m_queue' = <<>>
    /\ UNCHANGED <<m_stop, at>>
drainTo ==
    /\ m_queue # <<>>
    /\ m_queue' = <<>>
    /\ at' = Awoken
    /\ UNCHANGED m_stop

stop ==
    /\ m_stop' = TRUE
    /\ at' = Awoken
    /\ UNCHANGED m_queue

reset ==
    /\ m_stop' = FALSE
    /\ UNCHANGED <<m_queue, at>>
--------------------------------------------------------------------------------
(* A producer that waits does so for a reason: the queue is full and open, or  *)
(* another producer has been woken for the room there is.                      *)
SleepersAreWoken ==
    (\E t \in DOMAIN at : at[t] = "sleeps") /\ HasRoom => \E t \in DOMAIN at : at[t] = "pushes"

(* The queue never holds more than its limit, whoever pushes.                  *)
WithinLimit == Len(m_queue) <= m_maxSize

(* Waiting producers neither overfill the queue nor sleep beside its room.     *)
QueueIsSound == SleepersAreWoken /\ WithinLimit
================================================================================
