--------------------------- MODULE BrokerThreadsProofs ---------------------------
(* What the threads of a broker may rely on, for any number of peers, any size *)
(* of the queue and any number of cluster swaps, starts and failed dials.      *)
EXTENDS BrokerThreads, FiniteSetTheorems, TLAPS

ThreadStates == {"none", "runs", "pushes", "sleeps", "ended"}
MainStates == {"down", "up", "joins discovery", "joins broker", "joins links"}

ThreadTypes ==
    /\ m_dialed \in SUBSET Peers
    /\ m_queue \in Seq({"message"})
    /\ m_stop \in BOOLEAN
    /\ at \in [Peers \cup Joiners -> ThreadStates]
    /\ live \in SUBSET {"broker", "discovery"}
    /\ main \in MainStates
    /\ m_peers \in SUBSET Peers
    /\ todo \in [Joiners -> SUBSET Peers]

(* Which threads there are at each point of start and stop: one that has ended *)
(* left no link to drop and no worker to join, and a worker belongs to a link  *)
(* in m_peers or to one that stop is about to join.                            *)
LifeInv ==
    /\ m_running = (main = "up")
    /\ main \in {"joins broker", "joins links", "down"} => "discovery" \notin live
    /\ main \in {"joins links", "down"} => "broker" \notin live /\ m_peers = {}
    /\ "broker" \notin live => Free("broker")
    /\ "discovery" \notin live => Free("discovery")
    /\ main # "joins links" => Free("main")
    /\ \A p \in Peers : at[p] # "none" => p \in m_peers \cup todo["main"]
    /\ main = "up" => ~ m_stop

(* What discovery holds for dialed against what is being dropped: the broker   *)
(* thread may still drop a key that was dialed again, discovery itself never.  *)
RosterInv ==
    /\ m_dialed \cap todo["broker"] \subseteq failed \cup raced
    /\ m_dialed \cap todo["discovery"] = {}
    /\ EveryLinkIsKnown
    /\ DialedIsLinked

(* Nobody sleeps beside room: whatever makes room wakes every producer.        *)
QueueInv ==
    /\ WithinLimit
    /\ HasRoom => \A t \in Peers \cup Joiners : at[t] # "sleeps"

CapInv == IsFiniteSet(m_dialed) /\ DialsAreCapped

(* What the queue's operations make of a sequence.                             *)
LEMMA QueueTypes ==
    ASSUME NEW S, NEW q \in Seq(S), NEW v \in S
    PROVE  /\ <<>> \in Seq(S) /\ Len(<<>>) = 0
           /\ Append(q, v) \in Seq(S) /\ Len(Append(q, v)) = Len(q) + 1
           /\ Len(q) \in Nat
OBVIOUS

(* Waking the producers moves sleepers only.                                   *)
LEMMA AwokenType ==
    ASSUME ThreadTypes
    PROVE  /\ Awoken \in [Peers \cup Joiners -> ThreadStates]
           /\ \A t \in Peers \cup Joiners :
                 /\ Awoken[t] # "sleeps"
                 /\ (Awoken[t] = "none") = (at[t] = "none")
BY DEF Awoken, ThreadTypes, ThreadStates

(* Every step keeps the types.                                                 *)
LEMMA TypesStep ==
    ASSUME ThreadTypes, [Next]_vars
    PROVE  ThreadTypes'
<1> USE DEF ThreadTypes, ThreadStates, MainStates, Joiners
<1>1. CASE Start
  BY Zenon, <1>1 DEF Start, reset, outside
<1>2. CASE StopBegins
  BY Zenon, <1>2 DEF StopBegins, discoveryVars, queueVars
<1>3. CASE StopsQueue
  <2>1. at' \in [Peers \cup Joiners -> ThreadStates]
    BY Zenon, <1>3, AwokenType DEF StopsQueue, stop
  <2> QED
    BY Zenon, <1>3, <2>1 DEF StopsQueue, stop, discoveryVars
<1>4. CASE TakesLinks
  BY Zenon, <1>4 DEF TakesLinks, discoveryVars, queueVars
<1>5. CASE StopEnds
  BY Zenon, <1>5 DEF StopEnds, discoveryVars, queueVars
<1>6. ASSUME NEW j \in Joiners, Joined(j) PROVE ThreadTypes'
  BY Zenon, <1>6 DEF Joined, discoveryVars, life
<1>7. ASSUME NEW j \in Joiners, ThreadEnds(j) PROVE ThreadTypes'
  BY Zenon, <1>7 DEF ThreadEnds, discoveryVars, queueVars
<1>8. ASSUME NEW j \in Joiners, NEW p \in Peers, removePeer(j, p) PROVE ThreadTypes'
  <2>1. at' \in [Peers \cup Joiners -> ThreadStates] /\ m_peers' \in SUBSET Peers
    BY Zenon, <1>8 DEF removePeer
  <2>2. todo' \in [Joiners -> SUBSET Peers]
    BY Zenon, <1>8 DEF removePeer
  <2> QED
    BY Zenon, <1>8, <2>1, <2>2 DEF removePeer, discoveryVars, life
<1>9. CASE BrokerDrains
  <2>1. at' \in [Peers \cup Joiners -> ThreadStates]
    BY Zenon, <1>9, AwokenType DEF BrokerDrains, drainTo
  <2>2. m_queue' \in Seq({"message"})
    BY Zenon, <1>9, QueueTypes DEF BrokerDrains, drainTo
  <2> QED
    BY Zenon, <1>9, <2>1, <2>2 DEF BrokerDrains, drainTo, discoveryVars, life
<1>10. ASSUME NEW c \in Clusters, SetCluster(c) PROVE ThreadTypes'
  BY Zenon, <1>10 DEF SetCluster, setCluster, queueVars, life
<1>11. ASSUME NEW p \in Peers, NEW c \in Clusters, Dials(p, c) PROVE ThreadTypes'
  <2>1. at' \in [Peers \cup Joiners -> ThreadStates] /\ m_peers' \in SUBSET Peers
    BY Zenon, <1>11 DEF Dials
  <2> QED
    BY Zenon, <1>11, <2>1 DEF Dials, DialNew, life
<1>12. ASSUME NEW p \in Peers, DialFails(p) PROVE ThreadTypes'
  BY Zenon, <1>12 DEF DialFails, DialNew, queueVars, life
<1>13. ASSUME NEW p \in Peers, NEW c \in Clusters, Refreshes(p, c) PROVE ThreadTypes'
  BY Zenon, <1>13 DEF Refreshes, Refresh, queueVars, life
<1>14. ASSUME NEW p \in Peers, NEW c \in Clusters, PeerSwaps(p, c) PROVE ThreadTypes'
  BY Zenon, <1>14 DEF PeerSwaps, discoveryVars, queueVars, life
<1>15. CASE Expires
  BY Zenon, <1>15 DEF Expires, expireStale, Stale, queueVars, life
<1>16. CASE TimePasses
  BY Zenon, <1>16 DEF TimePasses, Tick, queueVars, life
<1>17. ASSUME NEW h \in Peers \cup Joiners, Receives(h) PROVE ThreadTypes'
  BY Zenon, <1>17 DEF Receives, discoveryVars, life
<1>18. ASSUME NEW h \in Peers \cup Joiners, Pushes(h) PROVE ThreadTypes'
  <2>1. at' \in [Peers \cup Joiners -> ThreadStates] /\ m_stop' = m_stop
    BY Zenon, <1>18 DEF Pushes, push, pushWaits, pushTimesOut
  <2>2. m_queue' = m_queue \/ m_queue' = Append(m_queue, "message")
    BY Zenon, <1>18 DEF Pushes, push, pushWaits, pushTimesOut
  <2>3. m_queue' \in Seq({"message"})
    BY Zenon, <2>2, QueueTypes
  <2> QED
    BY Zenon, <1>18, <2>1, <2>3 DEF Pushes, discoveryVars, life
<1>19. ASSUME NEW h \in Peers \cup Joiners, WorkerEnds(h) PROVE ThreadTypes'
  BY Zenon, <1>19 DEF WorkerEnds, discoveryVars, life
<1>20. CASE UNCHANGED vars
  BY Zenon, <1>20 DEF vars, discoveryVars, queueVars, life
<1> QED
  BY Zenon, <1>1, <1>2, <1>3, <1>4, <1>5, <1>6, <1>7, <1>8, <1>9, <1>10, <1>11, <1>12, <1>13, <1>14,
     <1>15, <1>16, <1>17, <1>18, <1>19, <1>20
     DEF Next, MainStep, JoinStep, WorkerStep

(* What removePeer does, value by value.                                       *)
Removed(j, p) ==
    /\ p \notin Joiners
    /\ at[j] = "none" /\ p \in todo[j]
    /\ \A i \in Joiners : todo'[i] = IF i = j THEN todo[i] \ {p} ELSE todo[i]
    /\ m_peers' = m_peers \ {p}
    /\ p \in m_peers \/ j = "main" =>
          \A h \in Peers \cup Joiners :
              at'[h] = IF h = p THEN "none" ELSE IF h = j THEN at[p] ELSE at[h]
    /\ ~ (p \in m_peers \/ j = "main") => at' = at
    /\ UNCHANGED <<m_dialed, m_running, main, live, m_stop, failed, raced>>

(* The step does as much, for any joiner and any link.                         *)
LEMMA RemoveEffect ==
    ASSUME ThreadTypes, NEW j \in Joiners, NEW p \in Peers, removePeer(j, p)
    PROVE  Removed(j, p)
<1>0. p \notin Joiners
  BY ThreadsAssumption
<1>1. at[j] = "none" /\ p \in todo[j] /\ todo' = [todo EXCEPT ![j] = @ \ {p}]
  BY DEF removePeer
<1>2. UNCHANGED <<m_dialed, m_running, main, live, m_stop, failed, raced>>
  BY DEF removePeer, discoveryVars, life, history
<1>3. \A i \in Joiners : todo'[i] = IF i = j THEN todo[i] \ {p} ELSE todo[i]
  BY Zenon, <1>1 DEF ThreadTypes
<1>4. CASE p \in m_peers \/ j = "main"
  <2>1. m_peers' = m_peers \ {p} /\ at' = [at EXCEPT ![j] = at[p], ![p] = "none"]
    BY <1>4 DEF removePeer
  <2>2. \A h \in Peers \cup Joiners :
            at'[h] = IF h = p THEN "none" ELSE IF h = j THEN at[p] ELSE at[h]
    BY <2>1 DEF ThreadTypes
  <2> QED
    BY Zenon, <1>0, <1>1, <1>2, <1>3, <1>4, <2>1, <2>2 DEF Removed
<1>5. CASE ~ (p \in m_peers \/ j = "main")
  <2>1. m_peers' = m_peers /\ at' = at
    BY <1>5 DEF removePeer
  <2> QED
    BY <1>0, <1>1, <1>2, <1>3, <1>5, <2>1 DEF Removed
<1> QED
  BY <1>4, <1>5

(* Every step keeps the order of start and stop.                               *)
LEMMA LifeStep ==
    ASSUME ThreadTypes, LifeInv, [Next]_vars
    PROVE  LifeInv'
<1> USE ThreadsAssumption DEF LifeInv, ThreadTypes, ThreadStates, MainStates, Joiners, Free
<1>1. CASE Start
  BY Zenon, <1>1 DEF Start, reset, outside
<1>2. CASE StopBegins
  BY Zenon, <1>2 DEF StopBegins, discoveryVars, queueVars
<1>3. CASE StopsQueue
  BY Zenon, <1>3, AwokenType DEF StopsQueue, stop, discoveryVars
<1>4. CASE TakesLinks
  BY Zenon, <1>4 DEF TakesLinks, discoveryVars, queueVars
<1>5. CASE StopEnds
  BY Zenon, <1>5 DEF StopEnds, discoveryVars, queueVars
<1>6. ASSUME NEW j \in Joiners, Joined(j) PROVE LifeInv'
  BY Zenon, <1>6 DEF Joined, discoveryVars, life
<1>7. ASSUME NEW j \in Joiners, ThreadEnds(j) PROVE LifeInv'
  BY Zenon, <1>7 DEF ThreadEnds, discoveryVars, queueVars
<1>8. ASSUME NEW j \in Joiners, NEW p \in Peers, removePeer(j, p) PROVE LifeInv'
  <2>0. Removed(j, p)
    BY Zenon, <1>8, RemoveEffect
  <2>1. CASE j = "main"
    <3>1. main = "joins links" /\ m_peers = {} /\ m_peers' = {}
      BY Zenon, <2>0, <2>1 DEF Removed
    <3>2. \A i \in {"broker", "discovery"} : at'[i] = at[i] /\ todo'[i] = todo[i]
      BY Zenon, <2>0, <2>1 DEF Removed
    <3>3. \A q \in Peers : at'[q] # "none" => q \in todo'["main"]
      BY Zenon, <2>0, <2>1, <3>1 DEF Removed
    <3> QED
      BY Zenon, <2>0, <3>1, <3>2, <3>3 DEF Removed
  <2>2. CASE j # "main"
    <3>1. j \in live
      BY Zenon, <2>0, <2>2 DEF Removed
    <3>2. todo'["main"] = todo["main"] /\ at'["main"] = at["main"]
      BY Zenon, <2>0, <2>2 DEF Removed
    <3>3. \A i \in {"broker", "discovery"} \ {j} : at'[i] = at[i] /\ todo'[i] = todo[i]
      BY Zenon, <2>0, <2>2 DEF Removed
    <3>4. \A q \in Peers : at'[q] # "none" => q \in m_peers' \cup todo'["main"]
      BY Zenon, <2>0, <2>2, <3>2 DEF Removed
    <3> QED
      BY Zenon, <2>0, <2>2, <3>1, <3>2, <3>3, <3>4 DEF Removed
  <2> QED
    BY Zenon, <2>1, <2>2
<1>9. CASE BrokerDrains
  BY Zenon, <1>9, AwokenType DEF BrokerDrains, drainTo, discoveryVars, life
<1>10. ASSUME NEW c \in Clusters, SetCluster(c) PROVE LifeInv'
  BY Zenon, <1>10 DEF SetCluster, setCluster, queueVars, life
<1>11. ASSUME NEW p \in Peers, NEW c \in Clusters, Dials(p, c) PROVE LifeInv'
  <2>1. UNCHANGED <<m_running, main, live, m_stop, todo>> /\ main = "up" /\ p \notin Joiners
    BY Zenon, <1>11 DEF Dials, BeaconArrives, Discovering, life
  <2>2. \/ UNCHANGED <<m_peers, at>>
        \/ m_peers' = m_peers \cup {p} /\ at' = [at EXCEPT ![p] = "runs"]
    BY Zenon, <1>11 DEF Dials
  <2>3. CASE UNCHANGED <<m_peers, at>>
    BY Zenon, <2>1, <2>3
  <2>4. CASE m_peers' = m_peers \cup {p} /\ at' = [at EXCEPT ![p] = "runs"]
    <3>1. \A j \in Joiners : at'[j] = at[j]
      BY Zenon, <2>1, <2>4
    <3>2. \A q \in Peers : at'[q] # "none" => q \in m_peers' \cup todo'["main"]
      BY Zenon, <2>1, <2>4
    <3> QED
      BY Zenon, <2>1, <3>1, <3>2
  <2> QED
    BY Zenon, <2>2, <2>3, <2>4
<1>12. ASSUME NEW p \in Peers, DialFails(p) PROVE LifeInv'
  BY Zenon, <1>12 DEF DialFails, DialNew, Discovering, queueVars, life
<1>13. ASSUME NEW p \in Peers, NEW c \in Clusters, Refreshes(p, c) PROVE LifeInv'
  BY Zenon, <1>13 DEF Refreshes, Refresh, queueVars, life
<1>14. ASSUME NEW p \in Peers, NEW c \in Clusters, PeerSwaps(p, c) PROVE LifeInv'
  BY Zenon, <1>14 DEF PeerSwaps, discoveryVars, queueVars, life
<1>15. CASE Expires
  BY Zenon, <1>15 DEF Expires, expireStale, Stale, Discovering, queueVars, life
<1>16. CASE TimePasses
  BY Zenon, <1>16 DEF TimePasses, Tick, queueVars, life
<1>17. ASSUME NEW h \in Peers \cup Joiners, Receives(h) PROVE LifeInv'
  BY Zenon, <1>17 DEF Receives, discoveryVars, life
<1>18. ASSUME NEW h \in Peers \cup Joiners, Pushes(h) PROVE LifeInv'
  <2>1. PICK s \in {"runs", "pushes", "sleeps"} : at' = [at EXCEPT ![h] = s]
    BY Zenon, <1>18 DEF Pushes, push, pushWaits, pushTimesOut
  <2>2. at[h] \in {"pushes", "sleeps"} /\ UNCHANGED <<m_running, main, live, m_stop, m_peers, todo>>
    BY Zenon, <1>18 DEF Pushes, push, pushWaits, pushTimesOut, life
  <2> QED
    BY Zenon, <2>1, <2>2
<1>19. ASSUME NEW h \in Peers \cup Joiners, WorkerEnds(h) PROVE LifeInv'
  BY Zenon, <1>19 DEF WorkerEnds, discoveryVars, life
<1>20. CASE UNCHANGED vars
  BY Zenon, <1>20 DEF vars, discoveryVars, queueVars, life
<1> QED
  BY Zenon, <1>1, <1>2, <1>3, <1>4, <1>5, <1>6, <1>7, <1>8, <1>9, <1>10, <1>11, <1>12, <1>13, <1>14,
     <1>15, <1>16, <1>17, <1>18, <1>19, <1>20
     DEF Next, MainStep, JoinStep, WorkerStep

(* Every step keeps what discovery holds for dialed and the links in line.     *)
LEMMA RosterStep ==
    ASSUME ThreadTypes, LifeInv, RosterInv, [Next]_vars
    PROVE  RosterInv'
<1> USE ThreadsAssumption DEF RosterInv, EveryLinkIsKnown, DialedIsLinked, Pending, LifeInv, ThreadTypes, MainStates, Joiners, Free
<1>1. CASE Start
  BY <1>1 DEF Start, reset, outside
<1>2. CASE StopBegins
  BY Zenon, <1>2 DEF StopBegins, discoveryVars, queueVars, history
<1>3. CASE StopsQueue
  BY Zenon, <1>3 DEF StopsQueue, stop, discoveryVars, history
<1>4. CASE TakesLinks
  BY Zenon, <1>4 DEF TakesLinks, discoveryVars, queueVars, history
<1>5. CASE StopEnds
  BY Zenon, <1>5 DEF StopEnds, discoveryVars, queueVars, history
<1>6. ASSUME NEW j \in Joiners, Joined(j) PROVE RosterInv'
  BY Zenon, <1>6 DEF Joined, discoveryVars, life, history
<1>7. ASSUME NEW j \in Joiners, ThreadEnds(j) PROVE RosterInv'
  BY Zenon, <1>7 DEF ThreadEnds, discoveryVars, queueVars, history
<1>8. ASSUME NEW j \in Joiners, NEW p \in Peers, removePeer(j, p) PROVE RosterInv'
  <2>0. Removed(j, p)
    BY Zenon, <1>8, RemoveEffect
  <2>1. CASE j = "main"
    BY Zenon, <2>0, <2>1 DEF Removed
  <2>2. CASE j = "broker"
    <3>1. todo'["broker"] = todo["broker"] \ {p} /\ todo'["discovery"] = todo["discovery"] /\ p \in todo["broker"]
      BY Zenon, <2>0, <2>2 DEF Removed
    <3>2. UNCHANGED <<m_dialed, main, failed, raced>> /\ m_peers' = m_peers \ {p}
      BY Zenon, <2>0 DEF Removed
    <3>3. EveryLinkIsKnown'
      BY Zenon, <3>1, <3>2
    <3>4. DialedIsLinked'
      BY Zenon, <3>1, <3>2
    <3> QED
      BY Zenon, <3>1, <3>2, <3>3, <3>4
  <2>3. CASE j = "discovery"
    <3>1. todo'["discovery"] = todo["discovery"] \ {p} /\ todo'["broker"] = todo["broker"]
      BY Zenon, <2>0, <2>3 DEF Removed
    <3>2. p \notin m_dialed
      BY Zenon, <2>0, <2>3 DEF Removed
    <3>3. UNCHANGED <<m_dialed, main, failed, raced>> /\ m_peers' = m_peers \ {p}
      BY Zenon, <2>0 DEF Removed
    <3>4. EveryLinkIsKnown'
      BY <3>1, <3>3
    <3>5. DialedIsLinked'
      BY <3>2, <3>3
    <3> QED
      BY Zenon, <3>1, <3>3, <3>4, <3>5
  <2> QED
    BY Zenon, <2>1, <2>2, <2>3
<1>9. CASE BrokerDrains
  BY Zenon, <1>9 DEF BrokerDrains, drainTo, discoveryVars, life, history
<1>10. ASSUME NEW c \in Clusters, SetCluster(c) PROVE RosterInv'
  BY Zenon, <1>10 DEF SetCluster, setCluster, queueVars, life
<1>11. ASSUME NEW p \in Peers, NEW c \in Clusters, Dials(p, c) PROVE RosterInv'
  <2>1. /\ main = "up" /\ todo["discovery"] = {}
        /\ m_dialed' = m_dialed \cup {p}
        /\ UNCHANGED <<todo, main, failed>>
    BY Zenon, <1>11 DEF Dials, DialNew, BeaconArrives, Discovering, life
  <2>2. m_peers' = m_peers \cup {p}
    BY Zenon, <1>11 DEF Dials
  <2>3. raced \subseteq raced' /\ (p \in todo["broker"] => p \in raced')
    BY Zenon, <1>11 DEF Dials
  <2> QED
    BY <2>1, <2>2, <2>3
<1>12. ASSUME NEW p \in Peers, DialFails(p) PROVE RosterInv'
  BY Zenon, <1>12 DEF DialFails, DialNew, Discovering, queueVars, life
<1>13. ASSUME NEW p \in Peers, NEW c \in Clusters, Refreshes(p, c) PROVE RosterInv'
  BY Zenon, <1>13 DEF Refreshes, Refresh, queueVars, life, history
<1>14. ASSUME NEW p \in Peers, NEW c \in Clusters, PeerSwaps(p, c) PROVE RosterInv'
  BY Zenon, <1>14 DEF PeerSwaps, discoveryVars, queueVars, life, history
<1>15. CASE Expires
  BY Zenon, <1>15 DEF Expires, expireStale, Stale, Discovering, queueVars, life
<1>16. CASE TimePasses
  BY Zenon, <1>16 DEF TimePasses, Tick, queueVars, life, history
<1>17. ASSUME NEW h \in Peers \cup Joiners, Receives(h) PROVE RosterInv'
  BY Zenon, <1>17 DEF Receives, discoveryVars, life, history
<1>18. ASSUME NEW h \in Peers \cup Joiners, Pushes(h) PROVE RosterInv'
  BY Zenon, <1>18 DEF Pushes, push, pushWaits, pushTimesOut, discoveryVars, life, history
<1>19. ASSUME NEW h \in Peers \cup Joiners, WorkerEnds(h) PROVE RosterInv'
  BY Zenon, <1>19 DEF WorkerEnds, discoveryVars, life, history
<1>20. CASE UNCHANGED vars
  BY Zenon, <1>20 DEF vars, discoveryVars, queueVars, life, history
<1> QED
  BY Zenon, <1>1, <1>2, <1>3, <1>4, <1>5, <1>6, <1>7, <1>8, <1>9, <1>10, <1>11, <1>12, <1>13, <1>14,
     <1>15, <1>16, <1>17, <1>18, <1>19, <1>20
     DEF Next, MainStep, JoinStep, WorkerStep

(* Every step keeps the queue within its limit and wakes who can go on.         *)
LEMMA QueueStep ==
    ASSUME ThreadTypes, QueueInv, [Next]_vars
    PROVE  QueueInv'
<1> USE SizeAssumption, ThreadsAssumption DEF QueueInv, WithinLimit, HasRoom, ThreadTypes, ThreadStates
<1>1. CASE Start
  BY <1>1 DEF Start, reset, outside
<1>2. CASE StopBegins
  BY Zenon, <1>2 DEF StopBegins, queueVars
<1>3. CASE StopsQueue
  BY Zenon, <1>3, AwokenType DEF StopsQueue, stop
<1>4. CASE TakesLinks
  BY Zenon, <1>4 DEF TakesLinks, queueVars
<1>5. CASE StopEnds
  BY Zenon, <1>5 DEF StopEnds, queueVars
<1>6. ASSUME NEW j \in Joiners, Joined(j) PROVE QueueInv'
  BY <1>6 DEF Joined
<1>7. ASSUME NEW j \in Joiners, ThreadEnds(j) PROVE QueueInv'
  BY <1>7 DEF ThreadEnds, queueVars
<1>8. ASSUME NEW j \in Joiners, NEW p \in Peers, removePeer(j, p) PROVE QueueInv'
  BY <1>8 DEF removePeer
<1>9. CASE BrokerDrains
  BY <1>9, AwokenType, QueueTypes DEF BrokerDrains, drainTo
<1>10. ASSUME NEW c \in Clusters, SetCluster(c) PROVE QueueInv'
  BY <1>10 DEF SetCluster, setCluster, queueVars
<1>11. ASSUME NEW p \in Peers, NEW c \in Clusters, Dials(p, c) PROVE QueueInv'
  BY <1>11 DEF Dials, DialNew, HasPlace
<1>12. ASSUME NEW p \in Peers, DialFails(p) PROVE QueueInv'
  BY <1>12 DEF DialFails, DialNew, Discovering, queueVars
<1>13. ASSUME NEW p \in Peers, NEW c \in Clusters, Refreshes(p, c) PROVE QueueInv'
  BY <1>13 DEF Refreshes, Refresh, queueVars
<1>14. ASSUME NEW p \in Peers, NEW c \in Clusters, PeerSwaps(p, c) PROVE QueueInv'
  BY <1>14 DEF PeerSwaps, queueVars
<1>15. CASE Expires
  BY <1>15 DEF Expires, expireStale, Stale, Discovering, queueVars
<1>16. CASE TimePasses
  BY <1>16 DEF TimePasses, Tick, queueVars
<1>17. ASSUME NEW h \in Peers \cup Joiners, Receives(h) PROVE QueueInv'
  BY <1>17 DEF Receives
<1>18. ASSUME NEW h \in Peers \cup Joiners, Pushes(h) PROVE QueueInv'
  BY <1>18, QueueTypes DEF Pushes, push, pushWaits, pushTimesOut
<1>19. ASSUME NEW h \in Peers \cup Joiners, WorkerEnds(h) PROVE QueueInv'
  BY <1>19 DEF WorkerEnds
<1>20. CASE UNCHANGED vars
  BY <1>20 DEF vars, queueVars
<1> QED
  BY <1>1, <1>2, <1>3, <1>4, <1>5, <1>6, <1>7, <1>8, <1>9, <1>10, <1>11, <1>12, <1>13, <1>14,
     <1>15, <1>16, <1>17, <1>18, <1>19, <1>20
     DEF Next, MainStep, JoinStep, WorkerStep

(* Every step keeps the dialed peers under the cap.                             *)
LEMMA CapStep ==
    ASSUME ThreadTypes, CapInv, [Next]_vars
    PROVE  CapInv'
<1> USE DiscoveryAssumption DEF CapInv, DialsAreCapped, ThreadTypes
<1>1. CASE Start
  BY <1>1, FS_EmptySet DEF Start, reset, outside
<1>2. CASE StopBegins
  BY Zenon, <1>2 DEF StopBegins, discoveryVars
<1>3. CASE StopsQueue
  BY Zenon, <1>3 DEF StopsQueue, stop, discoveryVars
<1>4. CASE TakesLinks
  BY Zenon, <1>4 DEF TakesLinks, discoveryVars
<1>5. CASE StopEnds
  BY Zenon, <1>5 DEF StopEnds, discoveryVars
<1>6. ASSUME NEW j \in Joiners, Joined(j) PROVE CapInv'
  BY <1>6 DEF Joined, discoveryVars
<1>7. ASSUME NEW j \in Joiners, ThreadEnds(j) PROVE CapInv'
  BY <1>7 DEF ThreadEnds, discoveryVars
<1>8. ASSUME NEW j \in Joiners, NEW p \in Peers, removePeer(j, p) PROVE CapInv'
  BY <1>8 DEF removePeer, discoveryVars
<1>9. CASE BrokerDrains
  BY <1>9 DEF BrokerDrains, drainTo, discoveryVars
<1>10. ASSUME NEW c \in Clusters, SetCluster(c) PROVE CapInv'
  BY <1>10, FS_EmptySet DEF SetCluster, setCluster
<1>11. ASSUME NEW p \in Peers, NEW c \in Clusters, Dials(p, c) PROVE CapInv'
  <2>1. m_dialed' = m_dialed \cup {p} /\ Cardinality(m_dialed) < MaxDialedPeers /\ p \notin m_dialed
    BY <1>11 DEF Dials, DialNew, HasPlace
  <2>2. IsFiniteSet(m_dialed') /\ Cardinality(m_dialed') = Cardinality(m_dialed) + 1
    BY <2>1, FS_AddElement
  <2>3. Cardinality(m_dialed) \in Nat
    BY FS_CardinalityType
  <2> QED
    BY <2>1, <2>2, <2>3
<1>12. ASSUME NEW p \in Peers, DialFails(p) PROVE CapInv'
  <2>1. m_dialed' = m_dialed \cup {p} /\ Cardinality(m_dialed) < MaxDialedPeers /\ p \notin m_dialed
    BY <1>12 DEF DialFails, DialNew, HasPlace
  <2>2. IsFiniteSet(m_dialed') /\ Cardinality(m_dialed') = Cardinality(m_dialed) + 1
    BY <2>1, FS_AddElement
  <2>3. Cardinality(m_dialed) \in Nat
    BY FS_CardinalityType
  <2> QED
    BY <2>1, <2>2, <2>3
<1>13. ASSUME NEW p \in Peers, NEW c \in Clusters, Refreshes(p, c) PROVE CapInv'
  BY <1>13 DEF Refreshes, Refresh
<1>14. ASSUME NEW p \in Peers, NEW c \in Clusters, PeerSwaps(p, c) PROVE CapInv'
  BY <1>14 DEF PeerSwaps, discoveryVars
<1>15. CASE Expires
  <2>1. m_dialed' \in SUBSET m_dialed
    BY <1>15 DEF Expires, expireStale
  <2>2. IsFiniteSet(m_dialed') /\ Cardinality(m_dialed') <= Cardinality(m_dialed)
    BY <2>1, FS_Subset
  <2>3. Cardinality(m_dialed) \in Nat /\ Cardinality(m_dialed') \in Nat
    BY <2>2, FS_CardinalityType
  <2> QED
    BY <2>2, <2>3
<1>16. CASE TimePasses
  BY <1>16 DEF TimePasses, Tick
<1>17. ASSUME NEW h \in Peers \cup Joiners, Receives(h) PROVE CapInv'
  BY <1>17 DEF Receives, discoveryVars
<1>18. ASSUME NEW h \in Peers \cup Joiners, Pushes(h) PROVE CapInv'
  BY <1>18 DEF Pushes, push, pushWaits, pushTimesOut, discoveryVars
<1>19. ASSUME NEW h \in Peers \cup Joiners, WorkerEnds(h) PROVE CapInv'
  BY <1>19 DEF WorkerEnds, discoveryVars
<1>20. CASE UNCHANGED vars
  BY <1>20 DEF vars, discoveryVars
<1> QED
  BY <1>1, <1>2, <1>3, <1>4, <1>5, <1>6, <1>7, <1>8, <1>9, <1>10, <1>11, <1>12, <1>13, <1>14,
     <1>15, <1>16, <1>17, <1>18, <1>19, <1>20
     DEF Next, MainStep, JoinStep, WorkerStep

(* The types, the order of start and stop, the roster, the queue and the cap   *)
(* hold together: each lemma above rests on the ones before it.                *)
ThreadsInv == ThreadTypes /\ LifeInv /\ RosterInv /\ QueueInv /\ CapInv

(* A broker that was never started satisfies the invariant.                    *)
LEMMA InitThreads == Init => ThreadsInv
<1> SUFFICES ASSUME Init PROVE ThreadsInv
  OBVIOUS
<1> USE DEF Init, DiscoveryInit
<1>1. ThreadTypes
  <2>1. m_queue \in Seq({"message"})
    BY QueueTypes
  <2> QED
    BY Zenon, <2>1 DEF ThreadTypes, ThreadStates, MainStates
<1>2. LifeInv
  BY Zenon DEF LifeInv, Free, Joiners
<1>3. RosterInv
  BY DEF RosterInv, EveryLinkIsKnown, DialedIsLinked
<1>4. QueueInv
  BY SizeAssumption, QueueTypes DEF QueueInv, WithinLimit
<1>5. CapInv
  BY DiscoveryAssumption, FS_EmptySet DEF CapInv, DialsAreCapped
<1> QED
  BY <1>1, <1>2, <1>3, <1>4, <1>5 DEF ThreadsInv

(* The invariant holds in every behaviour.                                     *)
LEMMA ThreadsCorrect == Spec => []ThreadsInv
<1>1. ThreadsInv /\ [Next]_vars => ThreadsInv'
  BY TypesStep, LifeStep, RosterStep, QueueStep, CapStep DEF ThreadsInv
<1> QED
  BY <1>1, InitThreads, PTL DEF Spec

(* The queue between the links and the broker keeps its limit.                 *)
THEOREM QueueIsBounded == Spec => []WithinLimit
BY ThreadsCorrect, PTL DEF ThreadsInv, QueueInv

(* No worker sleeps in push while there is room, or after the queue stopped,   *)
(* without another one awake to use it: no wake-up is lost.                    *)
THEOREM NoLostWakeup == Spec => []SleepersAreWoken
<1>1. ThreadsInv => SleepersAreWoken
  BY DEF ThreadsInv, ThreadTypes, QueueInv, SleepersAreWoken
<1> QED
  BY <1>1, ThreadsCorrect, PTL

(* Dialing under discovery's lock is enough: every link of a running broker is *)
(* one that discovery will expire, or that a thread is about to drop.          *)
THEOREM LinksKnown == Spec => []EveryLinkIsKnown
BY ThreadsCorrect, PTL DEF ThreadsInv, RosterInv

(* A dialed peer has its link, but for the two exceptions it names: there is   *)
(* no third way to lose one.                                                   *)
THEOREM DialedLinked == Spec => []DialedIsLinked
BY ThreadsCorrect, PTL DEF ThreadsInv, RosterInv

(* Discovery never dials beyond its cap.                                       *)
THEOREM DialsCapped == Spec => []DialsAreCapped
BY ThreadsCorrect, PTL DEF ThreadsInv, CapInv

(* stop leaves no thread, no link and no worker behind, and start finds none.  *)
THEOREM NothingSurvivesStop == Spec => []DownIsDown
<1>1. ThreadsInv => DownIsDown
  <2> SUFFICES ASSUME ThreadsInv, main = "down" PROVE DownIsDown
    BY DEF DownIsDown
  <2> USE DEF ThreadsInv, ThreadTypes, LifeInv, Free, Joiners
  <2>1. live = {} /\ m_peers = {}
    OBVIOUS
  <2>2. \A h \in Peers \cup Joiners : at[h] = "none"
    OBVIOUS
  <2> QED
    BY <2>1, <2>2 DEF DownIsDown
<1> QED
  BY <1>1, ThreadsCorrect, PTL

(* Together, for the queue: it is bounded, and no wake-up is lost.             *)
THEOREM QueueCorrect == Spec => []QueueIsSound
BY QueueIsBounded, NoLostWakeup, PTL DEF QueueIsSound

(* For the roster of discovery: it and the links stay in step, below the cap.  *)
THEOREM RosterCorrect == Spec => []RosterIsSound
BY LinksKnown, DialedLinked, DialsCapped, PTL DEF RosterIsSound

(* And for start and stop: what is down is all down, and what is up is open.   *)
THEOREM StartStopCorrect == Spec => []StartsAndStopsClean
<1>1. ThreadsInv => UpIsOpen
  BY DEF ThreadsInv, LifeInv, UpIsOpen
<1> QED
  BY <1>1, ThreadsCorrect, NothingSurvivesStop, PTL DEF StartsAndStopsClean
================================================================================
