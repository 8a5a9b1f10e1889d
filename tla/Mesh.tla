---------------------------------- MODULE Mesh ----------------------------------
(* Brokers joined by links, and one topic: how interest travels against the      *)
(* links, how messages are flooded along them and delivered back over them, and   *)
(* how each broker's record of ids stops the copies.                              *)
(* A link is a client of the broker that was dialed.  That broker reads it on its *)
(* ROUTER socket like any client; the broker that dialed gets what comes back     *)
(* through m_peerInboundQueue, as traffic of a peer.                              *)
(* Models the routing of src/server/broker.cpp.  Sessions and RESETs are those of *)
(* Broker and PeerLinks, the rotation of the records that of DedupWindow.         *)
EXTENDS MessageKeys, FiniteSets

CONSTANTS
    Brokers,
    Shapes,                \* the sets of links that are looked at
    Messages,              \* their uuids
    MaxSubscribes,         \* how often clients subscribe or unsubscribe
    MaxRefusals            \* how many copies full queues refuse

Nowhere == "nowhere"

(* Each shape is a set of links between brokers; no uuid is a key of control.      *)
ASSUME MeshAssumption ==
    /\ IsFiniteSet(Brokers) /\ Nowhere \notin Brokers /\ Shapes \subseteq SUBSET (Brokers \X Brokers)
    /\ Messages \cap {"SUBSCRIBE", "UNSUBSCRIBE"} = {} /\ MaxRefusals \in Nat

VARIABLES
    dials,                 \* the links: <<x, y>> where x has dialed y
    want,                  \* want[b]: the scope b's client has for the topic
    asks,                  \* the links that are subscribed at the broker they dialed
    outbound,              \* outbound[l]: on the way from the broker that dialed
    inbound,               \* inbound[l]: on the way back to it
    seen,                  \* seen[b]: the ids b remembers
    got,                   \* got[b][m]: how many copies b's client was sent
    source,                \* source[m]: the broker m was published at, or Nowhere
    undisturbed,           \* history: messages since whose publication, in a settled
                           \* mesh, no client subscribed and no copy was refused
    subscribes, refusals
meshVars == <<dials, want, asks, outbound, inbound, seen, got, source, undisturbed, subscribes, refusals>>

DialedBy(b) == {l \in dials : l[1] = b}
DialsTo(b) == {l \in dials : l[2] = b}

(* Discovery lets the smaller uuid of a pair dial; WISP_PEERS may dial anything,  *)
(* both ways and in circles included.  The links are up when this begins.         *)
MeshInit ==
    /\ dials \in Shapes
    /\ want = [b \in Brokers |-> NoScope]
    /\ asks = {}
    /\ outbound = [l \in dials |-> <<>>]
    /\ inbound = [l \in dials |-> <<>>]
    /\ seen = [b \in Brokers |-> {}]
    /\ got = [b \in Brokers |-> [m \in Messages |-> 0]]
    /\ source = [m \in Messages |-> Nowhere]
    /\ undisturbed = {}
    /\ subscribes = 0
    /\ refusals = 0

Settled == \A l \in dials : outbound[l] = <<>> /\ inbound[l] = <<>>
--------------------------------------------------------------------------------
(* A link subscribes without a payload, and so to both origins.                   *)
WantedByOwnClient(b) == scopeAccepts(want[b], FALSE)
WantedFromMesh(b) == scopeAccepts(want[b], FALSE) \/ \E l \in DialsTo(b) : l \in asks

IsControl(item) == item \in {"SUBSCRIBE", "UNSUBSCRIBE"}

(* A worker sends control before the data it still holds; data that is on its way *)
(* already stays ahead.                                                           *)
Inserted(queue, key, sent) == SubSeq(queue, 1, sent) \o <<key>> \o SubSeq(queue, sent + 1, Len(queue))
DataBehind(queue, sent) == sent <= Len(queue) /\ \A j \in sent + 1 .. Len(queue) : ~ IsControl(queue[j])

(* What b's interest became is told to the links b dialed; rest is what remained  *)
(* on the link the change came from.                                              *)
noteMeshInterestChange(b, rest) ==
    IF WantedFromMesh(b)' = WantedFromMesh(b)
    THEN outbound' = rest
    ELSE LET key == IF WantedFromMesh(b)' THEN "SUBSCRIBE" ELSE "UNSUBSCRIBE"
         IN  \E sent \in [DialedBy(b) -> UNION {0 .. Len(rest[l]) : l \in DialedBy(b)}] :
                 /\ \A l \in DialedBy(b) : DataBehind(rest[l], sent[l])
                 /\ outbound' = [l \in dials |-> IF l \in DialedBy(b) THEN Inserted(rest[l], key, sent[l])
                                                 ELSE rest[l]]

(* SUBSCRIBE and UNSUBSCRIBE of a client.                                         *)
ClientSubscribes(b, scope) ==
    /\ subscribes < MaxSubscribes
    /\ scope # want[b]
    /\ want' = [want EXCEPT ![b] = scope]
    /\ subscribes' = subscribes + 1
    /\ undisturbed' = {}
    /\ UNCHANGED <<dials, asks>>
    /\ noteMeshInterestChange(b, outbound)
    /\ UNCHANGED <<inbound, seen, got, source, refusals>>

(* And of a link.                                                                 *)
LinkSubscribes(l) ==
    /\ outbound[l] # <<>> /\ IsControl(Head(outbound[l]))
    /\ asks' = IF Head(outbound[l]) = "SUBSCRIBE" THEN asks \cup {l} ELSE asks \ {l}
    /\ UNCHANGED <<dials, want>>
    /\ noteMeshInterestChange(l[2], [outbound EXCEPT ![l] = Tail(@)])
    /\ UNCHANGED <<inbound, seen, got, source, undisturbed, subscribes, refusals>>
--------------------------------------------------------------------------------
RepeatsNever(b, m) == FALSE
Repeats(b, m) == m \in seen[b]

(* Links of b that are sent m: the subscribed ones but for the sender, if it is   *)
(* one of them; a peer's message has no sender here.                               *)
Delivered(b, sender) == (DialsTo(b) \cap asks) \ sender
FloodedUnlessFromPeer(b, isFromPeer) == IF isFromPeer THEN {} ELSE DialedBy(b)
Flooded(b, isFromPeer) == DialedBy(b)

Accepts(b, isFromPeer) == scopeAccepts(want[b], ~isFromPeer)

(* processMessage from the test for a duplicate on: deliverToSubscribers, then    *)
(* floodPeers.  A full queue refuses its copy, and the others still get theirs.   *)
processMessage(b, m, sender, isFromPeer, out, in, calm) ==
    IF Repeats(b, m)
    THEN outbound' = out /\ inbound' = in /\ UNCHANGED <<seen, got, undisturbed, refusals>>
    ELSE \E refused \in SUBSET (Delivered(b, sender) \cup Flooded(b, isFromPeer)) :
            /\ refusals + Cardinality(refused) <= MaxRefusals
            /\ refusals' = refusals + Cardinality(refused)
            /\ undisturbed' = IF refused = {} THEN calm ELSE calm \ {m}
            /\ seen' = [seen EXCEPT ![b] = @ \cup {m}]
            /\ got' = [got EXCEPT ![b][m] = IF Accepts(b, isFromPeer) THEN @ + 1 ELSE @]
            /\ inbound' = [l \in dials |-> IF l \in Delivered(b, sender) \ refused THEN Append(in[l], m) ELSE in[l]]
            /\ outbound' = [l \in dials |-> IF l \in Flooded(b, isFromPeer) \ refused THEN Append(out[l], m) ELSE out[l]]

(* Another client of b publishes, and b stamps the id.                            *)
Publish(b, m) ==
    /\ source[m] = Nowhere
    /\ source' = [source EXCEPT ![m] = b]
    /\ processMessage(b, m, {}, FALSE, outbound, inbound,
                      IF Settled THEN undisturbed \cup {m} ELSE undisturbed)
    /\ UNCHANGED <<dials, want, asks, subscribes>>

(* The dialed broker reads a flooded message from its ROUTER socket.              *)
LinkPublishes(l) ==
    /\ outbound[l] # <<>> /\ ~IsControl(Head(outbound[l]))
    /\ processMessage(l[2], Head(outbound[l]), {l}, FALSE, [outbound EXCEPT ![l] = Tail(@)], inbound, undisturbed)
    /\ UNCHANGED <<dials, want, asks, source, subscribes>>

(* The broker that dialed takes a delivered one from m_peerInboundQueue.          *)
PeerDelivers(l) ==
    /\ inbound[l] # <<>>
    /\ processMessage(l[1], Head(inbound[l]), {}, TRUE, outbound, [inbound EXCEPT ![l] = Tail(@)], undisturbed)
    /\ UNCHANGED <<dials, want, asks, source, subscribes>>

MeshNext ==
    \/ \E b \in Brokers, scope \in Origin \cup {NoScope} : ClientSubscribes(b, scope)
    \/ \E b \in Brokers, m \in Messages : Publish(b, m)
    \/ \E l \in dials : LinkSubscribes(l) \/ LinkPublishes(l) \/ PeerDelivers(l)
MeshSpec == MeshInit /\ [][MeshNext]_meshVars
--------------------------------------------------------------------------------
(* y is reached from x by hops: it is in every set that x is in and no hop leaves. *)
Reaches(hops, x, y) ==
    \A S \in SUBSET Brokers : x \in S /\ (\A h \in hops : h[1] \in S => h[2] \in S) => y \in S

(* Whose interest a broker should carry: its own client's, and that of every      *)
(* broker with a path of links to it.                                             *)
DialPath(x, y) == Reaches(dials, x, y)
Interested(b) == \E c \in Brokers : scopeAccepts(want[c], FALSE) /\ DialPath(c, b)
InCircle(b) == \E l \in DialedBy(b) : DialPath(l[2], b)

(* And the hops a message takes: along a link always, against it to a broker that *)
(* is interested.                                                                 *)
Hops == dials \cup {<<l[2], l[1]>> : l \in {k \in dials : Interested(k[1])}}
Route(x, y) == Reaches(Hops, x, y)

(* Whatever the mesh's shape, circles included, a broker gives its client a       *)
(* message at most once: copies that return find the id in its record.            *)
MeshDeliversOnce == \A b \in Brokers, m \in Messages : got[b][m] <= 1

(* When all that was said has arrived, the links into a broker are subscribed     *)
(* just when someone behind them wants the topic, however many hops away and in   *)
(* whatever order the subscriptions crossed; where links form a circle, interest  *)
(* may stay behind, but none is ever missing.                                     *)
InterestCrossesTheMesh ==
    Settled => \A l \in dials : /\ Interested(l[1]) => l \in asks
                                /\ l \in asks => Interested(l[1]) \/ \E b \in Brokers : InCircle(b) /\ DialPath(b, l[1])

(* A message that was published in a settled mesh, and met no full queue, has     *)
(* reached every client that takes both origins and to which there is a route,    *)
(* when no copies are left.                                                       *)
RoutesAreTaken ==
    Settled => \A m \in undisturbed, b \in Brokers :
                  want[b] = OriginAny /\ Route(source[m], b) => got[b][m] = 1

(* What PROTOCOL.md says of the scopes: local is what a client of the receiving   *)
(* broker published, mesh is what arrived across a link.                          *)
ScopeFollowsOrigin ==
    \A m \in undisturbed, b \in Brokers : got[b][m] > 0 => scopeAccepts(want[b], source[m] = b)
--------------------------------------------------------------------------------
(* The inductive invariants.  Of interest: each link ends up subscribed just when *)
(* the broker that dialed has an interest, once what it says last is read.        *)
Items == Messages \cup {"SUBSCRIBE", "UNSUBSCRIBE"}
MeshTypeOK ==
    /\ dials \subseteq Brokers \X Brokers /\ asks \subseteq dials
    /\ want \in [Brokers -> Origin \cup {NoScope}]
    /\ outbound \in [dials -> Seq(Items)] /\ inbound \in [dials -> Seq(Messages)]
    /\ seen \in [Brokers -> SUBSET Messages] /\ source \in [Messages -> Brokers \cup {Nowhere}]
    /\ undisturbed \subseteq Messages

NoControl(queue) == \A j \in DOMAIN queue : ~ IsControl(queue[j])
SaysLast(queue) ==
    \E i \in DOMAIN queue : /\ queue[i] = "SUBSCRIBE"
                            /\ \A j \in DOMAIN queue : j > i => ~ IsControl(queue[j])
Told(l) == SaysLast(outbound[l]) \/ (l \in asks /\ NoControl(outbound[l]))
InterestInv == MeshTypeOK /\ \A l \in dials : Told(l) <=> WantedFromMesh(l[1])

(* Of messages: a broker that has one has passed it on, over every hop there is.  *)
InQueue(m, queue) == \E i \in DOMAIN queue : queue[i] = m
PassedOn(m) ==
    \A l \in dials : /\ m \in seen[l[1]] => m \in seen[l[2]] \/ InQueue(m, outbound[l])
                     /\ l \in asks /\ m \in seen[l[2]] => m \in seen[l[1]] \/ InQueue(m, inbound[l])
CopiesInv ==
    /\ \A m \in Messages, b \in Brokers : m \in seen[b] => source[m] # Nowhere
    /\ \A m \in Messages, l \in dials : /\ InQueue(m, outbound[l]) => m \in seen[l[1]]
                                        /\ InQueue(m, inbound[l]) => m \in seen[l[2]]
    /\ undisturbed # {} => \A l \in dials : NoControl(outbound[l])
    /\ \A m \in undisturbed :
          /\ source[m] \in Brokers /\ m \in seen[source[m]] /\ PassedOn(m)
          /\ \A b \in Brokers : m \in seen[b] /\ want[b] = OriginAny => got[b][m] = 1
================================================================================
