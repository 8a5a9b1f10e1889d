-------------------------------- MODULE Discovery --------------------------------
(* What a broker's discovery knows of its peers: it dials the ones it hears in *)
(* its cluster and drops the ones it no longer hears.  The dialing and the     *)
(* dropping themselves are the broker's; see BrokerThreads.                    *)
(* Models src/server/discovery.cpp; every action is one hold of m_mutex.       *)
EXTENDS Naturals, FiniteSets

CONSTANTS Peers,           \* uuids larger than m_selfUuid: this broker dials them
          Clusters,
          MaxDialedPeers,
          PeerTimeout      \* m_peerTimeout, in ticks

ASSUME DiscoveryAssumption ==
    MaxDialedPeers \in Nat /\ PeerTimeout \in Nat

VARIABLES m_cluster,
          m_dialed,
          silence   \* silence[p]: ticks since a beacon of p was last heeded

discoveryVars == <<m_cluster, m_dialed, silence>>

DiscoveryInit ==
    /\ m_cluster \in Clusters
    /\ m_dialed = {}
    /\ silence = [p \in Peers |-> 0]

(* A beacon is heeded only within the cluster.  The broker's own, and those of *)
(* smaller uuids, whose brokers dial this one, change nothing.                 *)
Heeded(peer, cluster) == peer \in Peers /\ cluster = m_cluster

HasPlace == Cardinality(m_dialed) < MaxDialedPeers

(* onDatagram, for a peer not dialed yet, and for one that is.                 *)
DialNew(peer, cluster) ==
    /\ Heeded(peer, cluster)
    /\ peer \notin m_dialed /\ HasPlace
    /\ m_dialed' = m_dialed \cup {peer}
    /\ silence' = [silence EXCEPT ![peer] = 0]
    /\ UNCHANGED m_cluster

RefreshOfAnyCluster(peer, cluster) ==
    /\ peer \in m_dialed
    /\ silence' = [silence EXCEPT ![peer] = 0]
    /\ UNCHANGED <<m_cluster, m_dialed>>
Refresh(peer, cluster) ==
    /\ Heeded(peer, cluster)
    /\ peer \in m_dialed
    /\ silence' = [silence EXCEPT ![peer] = 0]
    /\ UNCHANGED <<m_cluster, m_dialed>>

(* setCluster and expireStale; what they return is to be dropped.              *)
setCluster(cluster) ==
    /\ cluster # m_cluster
    /\ m_cluster' = cluster
    /\ m_dialed' = {}
    /\ UNCHANGED silence

Stale == {p \in m_dialed : silence[p] > PeerTimeout}

expireStale ==
    /\ Stale # {}
    /\ m_dialed' = m_dialed \ Stale
    /\ UNCHANGED <<m_cluster, silence>>

Tick ==
    /\ silence' = [p \in Peers |-> IF p \in m_dialed /\ silence[p] <= PeerTimeout
                                   THEN silence[p] + 1 ELSE silence[p]]
    /\ silence' # silence
    /\ UNCHANGED <<m_cluster, m_dialed>>
================================================================================
