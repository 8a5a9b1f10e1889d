------------------------------ MODULE BrokerThreads ------------------------------
(* The threads of one broker and what they wait for: the broker thread, which  *)
(* drains the queue of the links and drops links at a cluster swap; discovery, *)
(* which dials and drops; the workers of the links, which push into the queue; *)
(* and the caller of start and stop, which joins them all.                     *)
(* Models start, stop, run, addPeer and removePeer of src/server/broker.cpp    *)
(* over Discovery and SafeQueue.  What the links carry is in PeerLinks.        *)
EXTENDS Discovery, SafeQueue

CONSTANTS MaxSwaps,      \* bound: cluster swaps, of this broker and of its peers
          MaxStrays,     \* bound: late beacons with a former cluster, failed dials
          MaxStarts      \* bound: starts of the broker

(* A link's worker belongs to m_peers, under its key, or to the thread that    *)
(* has taken it from there to stop and join it.                                *)
Joiners == {"broker", "discovery", "main"}

ASSUME ThreadsAssumption == Peers \cap Joiners = {}

VARIABLES
    m_running,
    main,        \* where the caller of start and stop is
    live,        \* threads that run, of "broker" and "discovery"
    m_peers,
    todo,        \* todo[j]: the links joiner j has yet to drop
    theirs,      \* theirs[p]: the cluster p is in
    failed,      \* history: dialed, but the link could not be opened
    raced,       \* history: dialed while a drop of the same key was pending
    swaps, strays, starts

outside == <<theirs, swaps, strays>>
life == <<m_running, main, live, starts>>
history == <<failed, raced>>
vars == <<discoveryVars, queueVars, life, m_peers, todo, outside, history>>

Init ==
    /\ DiscoveryInit
    /\ m_queue = <<>> /\ m_stop = FALSE
    /\ at = [h \in Peers \cup Joiners |-> "none"]
    /\ m_running = FALSE /\ main = "down" /\ live = {} /\ starts = 0
    /\ m_peers = {} /\ todo = [j \in Joiners |-> {}]
    /\ theirs \in [Peers -> Clusters]
    /\ failed = {} /\ raced = {}
    /\ swaps = 0 /\ strays = 0

(* A thread with links to drop, or a worker to join, does nothing else.        *)
Free(j) == todo[j] = {} /\ at[j] = "none"
--------------------------------------------------------------------------------
(* start: the queue is reopened, discovery is made anew and runs first.        *)
Start ==
    /\ main = "down" /\ starts < MaxStarts
    /\ main' = "up" /\ m_running' = TRUE
    /\ live' = {"broker", "discovery"}
    /\ starts' = starts + 1
    /\ reset
    /\ m_dialed' = {} /\ failed' = {} /\ raced' = {}
    /\ UNCHANGED <<m_cluster, silence, m_peers, todo, outside>>

(* stop: discovery is joined, the queue stopped, the broker thread joined, and *)
(* the links taken and joined one after the other.                             *)
StopBegins ==
    /\ main = "up"
    /\ main' = "joins discovery" /\ m_running' = FALSE
    /\ UNCHANGED <<discoveryVars, queueVars, live, starts, m_peers, todo, outside, history>>

StopsQueueFirst ==
    /\ main = "joins discovery"
    /\ main' = "joins broker"
    /\ stop
    /\ UNCHANGED <<discoveryVars, m_running, live, starts, m_peers, todo, outside, history>>
StopsQueue ==
    /\ main = "joins discovery" /\ "discovery" \notin live
    /\ main' = "joins broker"
    /\ stop
    /\ UNCHANGED <<discoveryVars, m_running, live, starts, m_peers, todo, outside, history>>

TakesLinks ==
    /\ main = "joins broker" /\ "broker" \notin live
    /\ main' = "joins links"
    /\ todo' = [todo EXCEPT !["main"] = m_peers]
    /\ m_peers' = {}
    /\ UNCHANGED <<discoveryVars, queueVars, m_running, live, starts, outside, history>>

StopEnds ==
    /\ main = "joins links" /\ Free("main")
    /\ main' = "down"
    /\ UNCHANGED <<discoveryVars, queueVars, m_running, live, starts, m_peers, todo, outside,
                   history>>

(* A loop ends when it next looks at its flag.                                 *)
ThreadEnds(thread) ==
    /\ thread \in live /\ ~ m_running /\ Free(thread)
    /\ live' = live \ {thread}
    /\ UNCHANGED <<discoveryVars, queueVars, m_running, main, starts, m_peers, todo, outside,
                   history>>
--------------------------------------------------------------------------------
(* The broker thread: the queue is drained, or a SET_CLUSTER is handled.       *)
BrokerDrains ==
    /\ "broker" \in live /\ Free("broker")
    /\ drainTo
    /\ UNCHANGED <<discoveryVars, life, m_peers, todo, outside, history>>

SetCluster(cluster) ==
    /\ "broker" \in live /\ Free("broker") /\ swaps < MaxSwaps
    /\ swaps' = swaps + 1
    /\ setCluster(cluster)
    /\ todo' = [todo EXCEPT !["broker"] = m_dialed]
    /\ failed' = {} /\ raced' = {}
    /\ UNCHANGED <<queueVars, life, m_peers, theirs, strays>>

(* removePeer, on any of the threads: the worker is taken out of m_peers and   *)
(* told to stop, then joined.                                                  *)
removePeer(j, peer) ==
    /\ at[j] = "none" /\ peer \in todo[j]
    /\ todo' = [todo EXCEPT ![j] = @ \ {peer}]
    /\ \/ /\ peer \in m_peers \/ j = "main"
          /\ m_peers' = m_peers \ {peer}
          /\ at' = [at EXCEPT ![j] = at[peer], ![peer] = "none"]
       \/ /\ peer \notin m_peers /\ j # "main"
          /\ UNCHANGED <<m_peers, at>>
    /\ UNCHANGED <<discoveryVars, m_queue, m_stop, life, outside, history>>

Joined(j) ==
    /\ at[j] = "ended"
    /\ at' = [at EXCEPT ![j] = "none"]
    /\ UNCHANGED <<discoveryVars, m_queue, m_stop, life, m_peers, todo, outside, history>>
--------------------------------------------------------------------------------
(* The discovery thread.  A new peer is dialed under discovery's lock; addPeer *)
(* keeps a link it has under that key, and may fail to open a new one.         *)
Discovering == "discovery" \in live /\ Free("discovery") /\ m_running

BeaconArrives(peer, cluster) ==
    /\ Discovering
    /\ \/ cluster = theirs[peer] /\ UNCHANGED strays
       \/ cluster # theirs[peer] /\ strays < MaxStrays /\ strays' = strays + 1

Dials(peer, cluster) ==
    /\ BeaconArrives(peer, cluster)
    /\ DialNew(peer, cluster)
    /\ \/ /\ peer \in m_peers
          /\ UNCHANGED <<m_peers, at, failed>>
       \/ /\ peer \notin m_peers
          /\ m_peers' = m_peers \cup {peer}
          /\ at' = [at EXCEPT ![peer] = "runs"]
          /\ UNCHANGED failed
    /\ raced' = IF peer \in todo["broker"] THEN raced \cup {peer} ELSE raced
    /\ UNCHANGED <<m_queue, m_stop, life, todo, theirs, swaps>>

DialFails(peer) ==
    /\ Discovering /\ strays < MaxStrays
    /\ strays' = strays + 1
    /\ DialNew(peer, theirs[peer])
    /\ peer \notin m_peers
    /\ failed' = failed \cup {peer}
    /\ UNCHANGED <<queueVars, life, m_peers, todo, theirs, swaps, raced>>

Refreshes(peer, cluster) ==
    /\ BeaconArrives(peer, cluster)
    /\ Refresh(peer, cluster)
    /\ UNCHANGED <<queueVars, life, m_peers, todo, theirs, swaps, history>>

ExpireForgetsLinks ==
    /\ Discovering
    /\ expireStale
    /\ failed' = failed \ Stale /\ raced' = raced \ Stale
    /\ UNCHANGED <<queueVars, life, m_peers, todo, outside>>
Expires ==
    /\ Discovering
    /\ expireStale
    /\ todo' = [todo EXCEPT !["discovery"] = Stale]
    /\ failed' = failed \ Stale /\ raced' = raced \ Stale
    /\ UNCHANGED <<queueVars, life, m_peers, outside>>

TimePasses == Discovering /\ Tick /\ UNCHANGED <<queueVars, life, m_peers, todo, outside, history>>

PeerSwaps(peer, cluster) ==
    /\ swaps < MaxSwaps /\ swaps' = swaps + 1
    /\ cluster # theirs[peer]
    /\ theirs' = [theirs EXCEPT ![peer] = cluster]
    /\ UNCHANGED <<discoveryVars, queueVars, life, m_peers, todo, strays, history>>
--------------------------------------------------------------------------------
(* The worker of a link: its loop ends at the flag removePeer and stop set; a  *)
(* message it receives goes through the callback, which pushes with a timeout. *)
ToldToStop(h) == h \in Joiners

Receives(h) ==
    /\ at[h] = "runs" /\ ~ ToldToStop(h)
    /\ at' = [at EXCEPT ![h] = "pushes"]
    /\ UNCHANGED <<discoveryVars, m_queue, m_stop, life, m_peers, todo, outside, history>>

Pushes(h) ==
    /\ push(h, "message") \/ pushWaits(h) \/ pushTimesOut(h)
    /\ UNCHANGED <<discoveryVars, life, m_peers, todo, outside, history>>

WorkerEnds(h) ==
    /\ at[h] = "runs" /\ ToldToStop(h)
    /\ at' = [at EXCEPT ![h] = "ended"]
    /\ UNCHANGED <<discoveryVars, m_queue, m_stop, life, m_peers, todo, outside, history>>
--------------------------------------------------------------------------------
MainStep == StopsQueue \/ TakesLinks \/ StopEnds
JoinStep(j) == Joined(j) \/ ThreadEnds(j) \/ \E p \in Peers : removePeer(j, p)
WorkerStep(h) == Pushes(h) \/ WorkerEnds(h)

Next ==
    \/ Start \/ StopBegins \/ MainStep
    \/ \E j \in Joiners : JoinStep(j)
    \/ BrokerDrains \/ \E c \in Clusters : SetCluster(c)
    \/ \E p \in Peers, c \in Clusters :
          Dials(p, c) \/ DialFails(p) \/ Refreshes(p, c) \/ PeerSwaps(p, c)
    \/ Expires \/ TimePasses
    \/ \E h \in Peers \cup Joiners : Receives(h) \/ WorkerStep(h)

Spec == Init /\ [][Next]_vars

(* Threads run, those that are waited for above all, and time passes; nothing  *)
(* makes the broker stop or swap, or beacons come.                             *)
FairSpec ==
    /\ Spec
    /\ WF_vars(MainStep)
    /\ \A j \in Joiners : WF_vars(JoinStep(j)) /\ WF_vars(WorkerStep(j))
    /\ SF_vars(Expires) /\ SF_vars(TimePasses)
--------------------------------------------------------------------------------
Pending == todo["broker"] \cup todo["discovery"]

(* What onDatagram's comment asks of the lock: no link is left that neither    *)
(* expiry nor a swap will ever see.                                            *)
EveryLinkIsKnown == main = "up" => m_peers \subseteq m_dialed \cup Pending

(* And a peer that discovery holds for dialed has its link, but for a dial     *)
(* that failed, or one that a pending drop of the same key undid.              *)
DialedIsLinked ==
    main = "up" => m_dialed \subseteq m_peers \cup failed \cup raced

(* What the comment on m_dialed says: each uuid in it is a link.               *)
DialedHasLink == main = "up" => m_dialed \subseteq m_peers \cup failed

(* Discovery holds no more links open than its cap.                            *)
DialsAreCapped == Cardinality(m_dialed) <= MaxDialedPeers

(* Discovery's roster and the links of the broker stay in step, below the cap, *)
(* although they are kept under different locks.                               *)
RosterIsSound == EveryLinkIsKnown /\ DialedIsLinked /\ DialsAreCapped

(* A broker that is down has no thread left, nor a link.                       *)
DownIsDown ==
    main = "down" => /\ live = {} /\ m_peers = {}
                     /\ \A h \in DOMAIN at : at[h] = "none"

(* A broker that runs hears its peers: its queue is open.                      *)
UpIsOpen == main = "up" => ~ m_stop

(* stop leaves nothing behind, and start finds a queue that takes messages.    *)
StartsAndStopsClean == DownIsDown /\ UpIsOpen

(* No thread waits for ever on another: a broker told to stop is down in the   *)
(* end, whoever is joining, pushing or dropping at that moment.                *)
StopsInTheEnd == (main = "joins discovery") ~> (main = "down")

(* A cluster swap ends: the broker thread joins workers that push into the     *)
(* very queue it drains.                                                       *)
SwapEnds == (todo["broker"] # {}) ~> Free("broker")

(* Neither a stop nor a swap waits for ever.                                   *)
WaitsEnd == StopsInTheEnd /\ SwapEnds

(* A link to a broker that has left the cluster goes in the end.               *)
LeavingIsNoticed ==
    \A p \in Peers :
        (p \in m_peers /\ theirs[p] # m_cluster) ~>
            (p \notin m_peers \/ theirs[p] = m_cluster)
================================================================================
