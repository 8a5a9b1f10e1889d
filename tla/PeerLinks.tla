-------------------------------- MODULE PeerLinks --------------------------------
(* The links a broker dials to its peers, at the granularity of its locks.     *)
(* Three threads meet here: the broker thread, which changes the interest      *)
(* under m_interestMutex and then tells the links under m_peersMutex; the      *)
(* thread that dials and drops links; and each link's worker thread, which     *)
(* answers a RESET with the whole interest.  The remote end of a link is the   *)
(* session the peer keeps for it, which it may forget at any time.             *)
(* Models addPeer, removePeer, sendInterestTo, noteTopicSubscribed and         *)
(* noteTopicUnsubscribed of src/server/broker.cpp.                             *)
EXTENDS MessageKeys, SequencesExt

CONSTANTS Links,              \* peer keys
          AddressOf,          \* AddressOf[l]: the address a key stands for
          Topics,             \* topics of applications
          MaxInterestTopics,
          MaxChanges,         \* bound: how often the broker's subscriptions change
          MaxDials,           \* bound: how often links are dialed
          MaxForgets          \* bound: how often a remote forgets, restarts or leaves

ASSUME LinksAssumption ==
    /\ MaxInterestTopics \in Nat
    /\ MaxChanges \in Nat
    /\ MaxDials \in Nat
    /\ MaxForgets \in Nat
    /\ WILDCARD_TOPIC \notin Topics

VARIABLES
    wanted,     \* topics some subscriber here wants from the mesh, "*" included
    m_interest, m_interestSaturated, m_interestWildcard,
    updates,    \* what the broker thread has yet to tell the links
    telling,    \* it holds m_peersMutex
    m_peers,
    state,      \* state[l] of the worker: "none", "dialed", "up" or "stopping"
    pipe,       \* pipe[l]: control messages queued on the link or on their way
    answer,     \* answer[l]: what sendInterestTo has yet to queue for a RESET
    active,     \* links their brokers still flood to
    back,       \* back[l]: RESETs and UNLINKs on their way to the link
    session,    \* links the remotes know
    held,       \* held[l]: what the remote has subscribed the link to
    left,       \* links whose remote has unlinked them and left the cluster
    unaware,    \* history: links dialed, not registered, as updates was decided
    missed,     \* history: missed[l]: the updates they were not told
    changes, dials, forgets   \* how often each has happened

interestVars == <<wanted, m_interest, m_interestSaturated, m_interestWildcard, changes>>
tellVars == <<updates, telling>>
linkVars == <<m_peers, state, active, dials>>
remoteVars == <<session, held, left, forgets>>
vars == <<interestVars, tellVars, linkVars, pipe, answer, back, remoteVars, unaware, missed>>

Subscribe(topic) == <<"SUBSCRIBE", topic>>
Unsubscribe(topic) == <<"UNSUBSCRIBE", topic>>
Subscribes(topics) == SetToSeq({Subscribe(t) : t \in topics})

Init ==
    /\ wanted = {} /\ m_interest = {}
    /\ m_interestSaturated = FALSE /\ m_interestWildcard = FALSE
    /\ updates = <<>> /\ telling = FALSE
    /\ m_peers = {} /\ state = [l \in Links |-> "none"]
    /\ pipe = [l \in Links |-> <<>>]
    /\ answer = [l \in Links |-> <<>>]
    /\ active = {}
    /\ back = [l \in Links |-> <<>>]
    /\ session = {} /\ held = [l \in Links |-> {}] /\ left = {}
    /\ unaware = {} /\ missed = [l \in Links |-> {}]
    /\ changes = 0 /\ dials = 0 /\ forgets = 0
--------------------------------------------------------------------------------
(* The broker thread.  First the interest, under its lock; what the links must *)
(* be told is decided there.  Both only when a topic's mesh subscribers appear *)
(* or are gone, which noteMeshInterestChange has found out.                    *)
BrokerFree == updates = <<>> /\ ~ telling

Dialed == {l \in Links : state[l] = "dialed"}

noteTopicSubscribed(topic) ==
    /\ BrokerFree
    /\ changes < MaxChanges /\ changes' = changes + 1
    /\ topic \notin wanted
    /\ wanted' = wanted \cup {topic}
    /\ \/ /\ topic = WILDCARD_TOPIC
          /\ m_interestWildcard' = TRUE
          /\ updates' = <<Subscribe(WILDCARD_TOPIC)>>
          /\ UNCHANGED <<m_interest, m_interestSaturated>>
       \/ /\ topic # WILDCARD_TOPIC
          /\ ~ m_interestSaturated
          /\ m_interest' = m_interest \cup {topic}
          /\ m_interestSaturated' = (Cardinality(m_interest') > MaxInterestTopics)
          /\ updates' = <<Subscribe(IF m_interestSaturated' THEN WILDCARD_TOPIC ELSE topic)>>
          /\ UNCHANGED m_interestWildcard
       \/ /\ topic # WILDCARD_TOPIC
          /\ m_interestSaturated
          /\ UNCHANGED <<m_interest, m_interestSaturated, m_interestWildcard, updates>>
    /\ unaware' = Dialed
    /\ UNCHANGED <<telling, linkVars, pipe, answer, back, remoteVars, missed>>

(* What narrowing from the wildcard tells the links.                           *)
NarrowedWithoutTopics == <<Unsubscribe(WILDCARD_TOPIC)>>
Narrowed == <<Unsubscribe(WILDCARD_TOPIC)>> \o Subscribes(m_interest)

noteTopicUnsubscribed(topic) ==
    /\ BrokerFree
    /\ changes < MaxChanges /\ changes' = changes + 1
    /\ topic \in wanted
    /\ wanted' = wanted \ {topic}
    /\ \/ /\ topic = WILDCARD_TOPIC
          /\ m_interestWildcard' = FALSE
          /\ updates' = IF m_interestSaturated THEN <<>> ELSE Narrowed
          /\ UNCHANGED m_interest
       \/ /\ topic # WILDCARD_TOPIC
          /\ ~ m_interestSaturated
          /\ m_interest' = m_interest \ {topic}
          /\ updates' = <<Unsubscribe(topic)>>
          /\ UNCHANGED m_interestWildcard
       \/ /\ topic # WILDCARD_TOPIC
          /\ m_interestSaturated
          /\ UNCHANGED <<m_interest, m_interestWildcard, updates>>
    /\ unaware' = Dialed
    /\ UNCHANGED <<m_interestSaturated, telling, linkVars, pipe, answer, back,
                   remoteVars, missed>>

(* Then the links, under the other lock, one message at a time.                *)
LockPeers ==
    /\ updates # <<>> /\ ~ telling
    /\ telling' = TRUE
    /\ UNCHANGED <<interestVars, updates, linkVars, pipe, answer, back, remoteVars, unaware, missed>>

Tell ==
    LET update == Head(updates)
        about == {<<key, update[2]>> : key \in {"SUBSCRIBE", "UNSUBSCRIBE"}}
    IN
    /\ telling
    /\ pipe' = [l \in Links |-> IF l \in m_peers THEN Append(pipe[l], update) ELSE pipe[l]]
    /\ missed' = [l \in Links |-> IF l \in m_peers THEN missed[l] \ about
                                  ELSE IF l \in unaware THEN missed[l] \cup {update}
                                  ELSE missed[l]]
    /\ updates' = Tail(updates)
    /\ telling' = (updates' # <<>>)
    /\ UNCHANGED <<interestVars, linkVars, answer, back, remoteVars, unaware>>
--------------------------------------------------------------------------------
(* What sendInterestTo reads under m_interestMutex, as the messages it queues. *)
SnapshotOfTopics == Subscribes(m_interest)
Snapshot ==
    IF m_interestSaturated \/ m_interestWildcard THEN <<Subscribe(WILDCARD_TOPIC)>>
    ELSE Subscribes(m_interest)

(* addPeer.  The worker is not started and nobody else knows it: its queue     *)
(* holds the interest of this moment, and its thread will lead with CONNECT.   *)
addPeer(link) ==
    /\ dials < MaxDials /\ dials' = dials + 1
    /\ state[link] = "none"
    /\ state' = [state EXCEPT ![link] = "dialed"]
    /\ pipe' = [pipe EXCEPT ![link] = <<<<"CONNECT", "">>>> \o Snapshot]
    /\ unaware' = unaware \ {link}
    /\ missed' = [missed EXCEPT ![link] = {}]
    /\ UNCHANGED <<interestVars, tellVars, m_peers, active, answer, back, remoteVars>>

(* Its second half, under m_peersMutex: the worker is started and registered,  *)
(* or thrown away when its address is linked already.                          *)
LinkedAs(link) == m_peers \cap {link}
Linked(link) == {k \in m_peers : AddressOf[k] = AddressOf[link]}

RegisterPeer(link) ==
    /\ ~ telling
    /\ state[link] = "dialed"
    /\ \/ /\ Linked(link) = {}
          /\ state' = [state EXCEPT ![link] = "up"]
          /\ m_peers' = m_peers \cup {link}
          /\ active' = active \cup {link}
          /\ left' = left \ {link}
          /\ UNCHANGED pipe
       \/ /\ Linked(link) # {}
          /\ state' = [state EXCEPT ![link] = "none"]
          /\ pipe' = [pipe EXCEPT ![link] = <<>>]
          /\ UNCHANGED <<m_peers, active, left>>
    /\ UNCHANGED <<interestVars, tellVars, dials, answer, back, session, held, forgets, unaware, missed>>

(* removePeer: out of m_peers under the lock, then DISCONNECT behind whatever  *)
(* is queued.  The worker sends its queue out and ends.                        *)
removePeer(link) ==
    /\ ~ telling
    /\ link \in m_peers
    /\ m_peers' = m_peers \ {link}
    /\ active' = active \ {link}
    /\ state' = [state EXCEPT ![link] = "stopping"]
    /\ pipe' = [pipe EXCEPT ![link] = Append(@, <<"DISCONNECT", "">>)]
    /\ UNCHANGED <<interestVars, tellVars, dials, answer, back, remoteVars, unaware, missed>>

Stopped(link) ==
    /\ state[link] = "stopping"
    /\ pipe[link] = <<>> /\ answer[link] = <<>>
    /\ state' = [state EXCEPT ![link] = "none"]
    /\ back' = [back EXCEPT ![link] = <<>>]
    /\ UNCHANGED <<interestVars, tellVars, m_peers, active, dials, pipe, answer, remoteVars,
                   unaware, missed>>

(* The worker thread, which runs until its queue is out.  A RESET is answered  *)
(* with a snapshot of the interest, queued message by message with no lock     *)
(* held in between; an UNLINK ends the flooding and nothing else.              *)
Runs(link) == state[link] \in {"up", "stopping"}

OnReset(link) ==
    /\ Runs(link)
    /\ back[link] # <<>> /\ Head(back[link]) = "RESET" /\ answer[link] = <<>>
    /\ back' = [back EXCEPT ![link] = Tail(@)]
    /\ answer' = [answer EXCEPT ![link] = Snapshot]
    /\ missed' = [missed EXCEPT ![link] = {u \in @ : u[1] # "SUBSCRIBE"}]
    /\ UNCHANGED <<interestVars, tellVars, linkVars, pipe, remoteVars, unaware>>

Answer(link) ==
    /\ answer[link] # <<>>
    /\ pipe' = [pipe EXCEPT ![link] = Append(@, Head(answer[link]))]
    /\ answer' = [answer EXCEPT ![link] = Tail(@)]
    /\ UNCHANGED <<interestVars, tellVars, linkVars, back, remoteVars, unaware, missed>>

OnUnlink(link) ==
    /\ Runs(link)
    /\ back[link] # <<>> /\ Head(back[link]) = "UNLINK" /\ answer[link] = <<>>
    /\ back' = [back EXCEPT ![link] = Tail(@)]
    /\ active' = active \ {link}
    /\ UNCHANGED <<interestVars, tellVars, m_peers, state, dials, pipe, answer, remoteVars,
                   unaware, missed>>

(* Heartbeats go out as long as the worker runs.  Those that a remote with a   *)
(* session answers change nothing.                                             *)
Heartbeat(link) ==
    /\ Runs(link)
    /\ pipe[link] = <<>>
    /\ link \notin session
    /\ pipe' = [pipe EXCEPT ![link] = <<<<"HEARTBEAT", "">>>>]
    /\ UNCHANGED <<interestVars, tellVars, linkVars, answer, back, remoteVars, unaware, missed>>
--------------------------------------------------------------------------------
(* The remote handles what a started link sends, as Broker's Connect,          *)
(* Heartbeat, SubscribeAccepted, Unsubscribe and Disconnect do.                *)
AskNobody(link, key) == back
AskUnknown(link, key) ==
    IF link \notin session /\ key \notin {"CONNECT", "DISCONNECT"}
    THEN [back EXCEPT ![link] = Append(@, "RESET")] ELSE back

Handled(topics, key, topic) ==
    CASE key = "SUBSCRIBE" -> topics \cup {topic}
      [] key = "UNSUBSCRIBE" -> topics \ {topic}
      [] key = "DISCONNECT" -> {}
      [] OTHER -> topics

Deliver(link) ==
    LET key == Head(pipe[link])[1]
        topic == Head(pipe[link])[2]
    IN  /\ Runs(link)
        /\ pipe[link] # <<>>
        /\ session' = IF key = "DISCONNECT" THEN session \ {link} ELSE session \cup {link}
        /\ held' = [held EXCEPT ![link] = Handled(@, key, topic)]
        /\ back' = AskUnknown(link, key)
        /\ pipe' = [pipe EXCEPT ![link] = Tail(@)]
        /\ UNCHANGED <<interestVars, tellVars, linkVars, answer, left, forgets, unaware, missed>>

(* The remote loses the session of the link: it times it out; it restarts,     *)
(* which also loses the oldest messages of the pipe and those coming back; or  *)
(* it leaves the cluster and says so.                                          *)
RemoteSweeps(link) ==
    /\ link \in session
    /\ UNCHANGED <<pipe, back, left>>

RemoteRestarts(link) ==
    /\ Runs(link)
    /\ \E n \in 0 .. Len(pipe[link]) :
          pipe' = [pipe EXCEPT ![link] = SubSeq(@, n + 1, Len(@))]
    /\ back' = [back EXCEPT ![link] = <<>>]
    /\ UNCHANGED left

unlinkInboundPeers(link) ==
    /\ link \in session
    /\ left' = left \cup {link}
    /\ back' = [back EXCEPT ![link] = Append(@, "UNLINK")]
    /\ UNCHANGED pipe

RemoteForgets(link) ==
    /\ forgets < MaxForgets /\ forgets' = forgets + 1
    /\ session' = session \ {link}
    /\ held' = [held EXCEPT ![link] = {}]
    /\ RemoteSweeps(link) \/ RemoteRestarts(link) \/ unlinkInboundPeers(link)
    /\ UNCHANGED <<interestVars, tellVars, linkVars, answer, unaware, missed>>
--------------------------------------------------------------------------------
BrokerStep == LockPeers \/ Tell
WorkerStep(link) ==
    OnReset(link) \/ OnUnlink(link) \/ Answer(link) \/ Heartbeat(link) \/ Stopped(link)

Next ==
    \/ \E t \in Topics \cup {WILDCARD_TOPIC} :
          noteTopicSubscribed(t) \/ noteTopicUnsubscribed(t)
    \/ BrokerStep
    \/ \E l \in Links :
          \/ addPeer(l) \/ RegisterPeer(l) \/ removePeer(l)
          \/ WorkerStep(l) \/ Deliver(l) \/ RemoteForgets(l)

(* Threads keep running and the network keeps delivering; nothing makes        *)
(* clients subscribe, peers appear or remotes fail.                            *)
Spec == Init /\ [][Next]_vars
Fairness ==
    /\ WF_vars(BrokerStep)
    /\ \A l \in Links : /\ WF_vars(RegisterPeer(l))
                        /\ WF_vars(WorkerStep(l))
                        /\ WF_vars(Deliver(l))
--------------------------------------------------------------------------------
(* The interest the links should carry, and the part of it a link does.        *)
Interest == IF m_interestSaturated \/ m_interestWildcard THEN {WILDCARD_TOPIC} ELSE m_interest

Covers(link, topics) == topics \subseteq held[link] \/ WILDCARD_TOPIC \in held[link]

Missed(link) == {t \in Interest : <<"SUBSCRIBE", t>> \in missed[link]}

Settled(link) ==
    /\ link \in m_peers /\ link \in session
    /\ BrokerFree
    /\ pipe[link] = <<>> /\ answer[link] = <<>> /\ back[link] = <<>>

(* The links in m_peers are the ones whose workers are up, only those are      *)
(* flooded, and a remote holds nothing for a link it does not know.            *)
TypeOK ==
    /\ m_interest \subseteq Topics
    /\ m_peers = {l \in Links : state[l] = "up"}
    /\ active \subseteq m_peers
    /\ \A l \in Links : /\ held[l] \subseteq Topics \cup {WILDCARD_TOPIC}
                         /\ l \notin session => held[l] = {}

(* An address is linked once, although the manual peers and the discovered     *)
(* ones are dialed by different threads and under different keys.              *)
OneLinkPerAddress ==
    \A k, l \in m_peers : AddressOf[k] = AddressOf[l] => k = l

(* m_peers is the set of the links that are up, and has each address once.     *)
PeersAreSound == TypeOK /\ OneLinkPerAddress

(* Once everything said has arrived, a link takes all that this broker wants,  *)
(* whatever the remote forgot and when, and however updates and answers to     *)
(* RESETs were interleaved; all but what went out while it was being dialed.   *)
SettledLinksCover ==
    \A l \in Links : Settled(l) => Covers(l, Interest \ Missed(l))

(* And everything said does arrive: when subscriptions have stopped changing   *)
(* and remotes have stopped forgetting, a link that stays comes to cover the   *)
(* interest for good.                                                          *)
LinksRecover ==
    \A l \in Links : <>[](l \in m_peers => Covers(l, Interest \ Missed(l)))

(* What addPeer's comment says of the topics subscribed while it dials: they   *)
(* ride out on the updates to every link.                                      *)
DialedLinksCover == \A l \in Links : Settled(l) => Covers(l, Interest)

(* What the comment on m_interestWildcard says: the wildcard of a client that  *)
(* is gone does not stay with a link that was told it is gone.                 *)
WildcardIsWithdrawn ==
    \A l \in Links :
        Settled(l) /\ WILDCARD_TOPIC \in held[l] =>
            \/ m_interestSaturated \/ m_interestWildcard
            \/ <<"UNSUBSCRIBE", WILDCARD_TOPIC>> \in missed[l]

(* What the comment in unlinkInboundPeers says: a link that was told to unlink *)
(* is delivered nothing more.                                                  *)
UnlinkedStaysForgotten == \A l \in left : held[l] = {}
================================================================================
