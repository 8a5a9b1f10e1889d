# Wisp verification

TLA+ models of the Wisp message broker, its client library and its tools, the TLC
configurations that check them on small instances, and theorems about them that
TLAPS checks for every value of their constants. Source paths are relative to the
root of the repository, where the code is under `src/`. `PROJECT.json` holds the
same information in a form for tools: the components, the runs, the source lines
behind every definition, the mutants that show each property can fail, the hazards
and the findings.

## The system and its parts

A broker is a process with a ROUTER socket. Clients connect to it with DEALER
sockets, subscribe to topics, publish, and are sent what they subscribed to.
Brokers that share a cluster name find each other by UDP beacons and dial one
another: a *link* is a client session of one broker at another, held by a worker
thread of the dialing broker.

| Part | Operations | Meets | Modules |
| --- | --- | --- | --- |
| Message keys (`common/messagekeys.h`) | scope tests, scope codec | everything that subscribes | `MessageKeys`, `MCMessageKeys` |
| Subscription registry (`server/subscriptionregistry.h`) | subscribe, unsubscribe, removeClient, queries | broker thread only | `SubscriptionMap`, `Subscriptions`, `SubscriptionRegistry` |
| Duplicate windows (`Broker::isDuplicate`, `MessageIdSet`) | isDuplicate; insert, contains, clear | broker thread only | `DedupWindow`, `MessageIdSet` |
| Broker thread (`server/broker.cpp`) | one handler per control key, publish, inbound from links, sweep, statistics | clients, links, discovery | `Broker` |
| Peer links (`Broker::addPeer` and the rest) | dial, register, remove, update, answer RESET and UNLINK | broker thread, dialing threads, workers, remotes | `PeerLinks` |
| Mesh | interest hop by hop, flooding, delivery back | all brokers | `Mesh` |
| Threads of a broker (`start`, `stop`, `run`) | start, stop, the joins, cluster swap | discovery, workers, the queue | `BrokerThreads` |
| Discovery (`server/discovery.cpp`) | onDatagram, setCluster, expireStale | peer links | `Discovery` |
| Bounded queue (`common/safequeue.h`) | push, pop, drainTo, stop, reset | every pair of threads | `SafeQueue` |
| ZeroMQ worker (`common/zmqworker.cpp`) | the loop, sync, start, stop | connection manager, links | `ZmqWorker` |
| Connection manager (`common/connectionmanager.cpp`) | register, unregister, sendRequest, resubscribeAll, dispatch, init, shutdown | application threads, worker | `ConnectionManager` |
| C interface (`common/connectionapi.cpp`) | every call, its error, its buffers | application threads | `ConnectionApi` |
| Bindings (`bindings/`) | poller, Qt adapter | connection manager | `Bindings` |
| Frames and payloads (`zmqframes.h`, `wireframe.h`, `anyframe.h`, codecs) | write, read, recognize, render | every socket | `Frames`, `Payloads` |
| Beacon and configuration (`common/beacon.cpp`, `common/config.h`) | encode, decode, parsePeerList, parsePort | discovery, start-up | `Texts` |
| Command line tool (`cli/`) | parsing; pub, sub, req, stats; record, replay | a session, a capture file | `CommandLine`, `CliSession`, `Captures` |
| Inspector (`inspector/`) | attach, filter, trim, select, replay | tap and beacon threads | `Inspector` |

What is hard to test here: sessions that end in three different ways and come
back at any time; interest that is derived step by step from the registry and
sent step by step to links; locks taken one after the other where a link's own
thread runs in between; remotes that restart; messages that come back over
several links; queues at their limits; joins of threads that wait for each other.
The `hazards` of `PROJECT.json` list each with its source line and with the
properties that watch it.

## Modules

**Tables.** `MessageKeys`: an `Origin`, a bitmask in the code, is the set of its
bits; `decodeSubscribeScope` takes the payload frame as a sequence of bytes.
`SubscriptionMap` is the registry as a value, a total map from client and topic to
a scope. `Subscriptions` is the registry's abstract specification over that value.
`SubscriptionRegistry` is the code: a map of maps, and a map of lists whose gaps
are filled by the last entry, with an empty entry different from a missing one. It
implements `Subscriptions` under `subs[c][t] <- Held(c, t)`. `DedupWindow` models
`isDuplicate` with sets; its history variable `age` counts the ids accepted after
each one. `MessageIdSet` is the open-addressed table behind those sets, slot by
slot.

**The broker thread.** `Broker` handles one message, one sweep or one report at a
time, so each is one action; a handler's whole effect is in its action, including
the interest changes that `removeClient` and `noteMeshInterestChange` make. It is
written over `SubscriptionMap` and `DedupWindow`.

| Variable of `Broker` | Code |
| --- | --- |
| `m_clients`, `expired` | `m_clients`; those whose `lastSeen` is older than `m_clientTimeout` |
| `subs` | `m_subscriptions`, through its abstract value |
| `m_interest`, `m_interestSaturated`, `m_interestWildcard`, `m_clusterName` | the members of these names |
| `linkSubs` | what the updates sent to the links add up to |
| `m_seenCurrent`, `m_seenPrevious` | the members of these names |
| `sent` | control frames of the last step, for the statistics property |
| `got` | history: copies of each message each client published or was sent |

`Speaks(client)` is `processMessage` for a frame from that client, with one action
per control key. `FromPeer` is the drain of `m_peerInboundQueue`; `Sweep` and
`BroadcastStats` are the two timers of `run`; `Expire` is time passing. A link
among the clients subscribes only as a broker does (`SubscribeIsSent`).

**Links.** `PeerLinks` is at the granularity of `m_interestMutex` and
`m_peersMutex`. The broker thread changes the interest in one step
(`noteTopicSubscribed`, `noteTopicUnsubscribed`) and tells the links in later ones
(`LockPeers`, `Tell`). `addPeer` takes its snapshot in one step and enters the
link in another (`RegisterPeer`). The worker thread answers a RESET with a
snapshot (`OnReset`) that it queues message by message (`Answer`), and runs on for
a while after `removePeer` has queued its DISCONNECT. The remote is the session it
keeps for the link; `Deliver` is its handler and `RemoteForgets` its timeout
(`RemoteSweeps`), its restart (`RemoteRestarts`, which loses a prefix of what is on
its way) or its departure from the cluster (`unlinkInboundPeers`). `missed` is a history of the updates that were decided and told while a
link was between the two halves of `addPeer`.

**Mesh.** `Mesh` joins brokers by links in any shape. Interest travels against the
links and each broker passes on the changes it sees; messages are flooded along
links and delivered back over them; a full queue refuses a copy; each broker's
record of ids stops repeats. Links are read on the ROUTER socket of the dialed
broker, and through `m_peerInboundQueue` at the dialing one, as in the code.

**Threads.** `BrokerThreads` extends `Discovery` and `SafeQueue`, which are
component modules without a next-state relation of their own: every action of
`Discovery` is one hold of its mutex, every one of `SafeQueue` one hold of the
queue's, and `at` says where each thread is. `BrokerThreads` adds the caller of
`start` and `stop`, the joins, and the drops of links, in which a thread waits for
a worker that may itself be waiting to push.

**Client side.** `ZmqWorker` has one action per lock that the loop takes, so that
producers and `sync` step in between; limits, backlogs, heartbeats, offline
detection, the broker's restart and a stop and start again are in it.
`ConnectionManager` has one action per hold of `m_mapMutex`. In it the worker is
what `ZmqWorker` shows it to be: control first and in order, data once connected.
`sendRequest` fails at once when its message is refused, and at its deadline.
`CliSession` makes the same use of the worker, which hands on to the session's
bounded queue and drops what that refuses, a RESET like any other (`HandsOn`;
`resetLost` is the history of it). `ConnectionApi` adds the calls of several
threads with their error texts and buffers; a topic in it is its length and whether
it is in the reserved namespace. `Bindings` has the poller's buffer and the Qt
adapter's guarded, queued calls; Qt's event loop is external.

**Inspector.** `Inspector` has the worker that posts packets to the UI thread, the
handlers there, and the proxy model: a row is accepted if its topic is checked and
its sender, key or topic contains the text of the filter bar (a packet carries the
texts it contains). When a selected row is trimmed or filtered away, Qt selects the
next row that is left, or the last one (`Reselected`, external), and
`onSelectionChanged` shows its details.

**Codecs and files.** `Payloads`, `Frames`, `Texts` and `CommandLine` are
operators over sequences of bytes, frames, characters or words, checked against a
reference definition (a grammar, or the round trip) over all inputs up to a
length. A character, a word or a cell stands for what the code tells apart.
`Captures` writes a file cell by cell with a recorder that may be killed and a
disk that may fill up, and reads it back.

`MC...` modules hold the values the configurations need. `MCParts` and `MCClients`
put modules that share nothing beside each other: the part is chosen in the
initial state and the others rest. The definitions that precede a mapped definition
and carry a variant of its name (`AcceptLate` before `Accept`) are mutated forms of
it; nothing else uses them.

## Runs

| Run | Instance | Shows |
| --- | --- | --- |
| `parts` | registry: 3 clients, 2 topics; windows: 7 ids, windows of 3; hash set: 6 ids, 8 slots, 3 ids with one home; codecs: every payload of up to 5 bytes and text of up to 6 characters over small alphabets, command lines of up to 4 words; captures of 2 messages; 5 meshes of 3 brokers with 1 message, 3 subscriptions and 1 refusal | the registry's maps agree and implement `Subscriptions`; windows remember and forget as sized; probes end and answer as a set; codecs agree with their definitions; a capture cut anywhere is read as a prefix and reported; in a mesh, nothing is delivered twice, interest reaches and leaves every broker where there are no circles, and messages take the routes |
| `clients` | broker: 1 client, 1 link, 1 topic, `*`, statistics, 2 messages, windows of 1, every scope, fair; C interface: 2 threads of 2 calls; poller: 2 threads of 4 calls together, a buffer of 2; Qt: 2 objects; tool: 2 broker faults, an inbound queue of 2, fair; inspector: 1 broker and the local tap, a history of 2, 3 packets, 1 search text | a routing broker sends no copy twice and leaves nobody out, and bounded sweeps get to everyone; what a tool reports as confirmed or answered is, and its subscription comes back; waiters are woken; registrations follow topics; nothing is called on a destroyed object; table, selector and replay agree with what is attached to |
| `broker_control` | 2 clients, 1 link, 2 topics, `*`, statistics; interest limit 1, subscription limit 2, 1 removal per sweep, 2 clusters | sessions, registry, interest and updates agree |
| `links` | 1 link under 4 changes and 2 dials, or 2 keys for one address under 1 change and 3 dials; 1 failure of the remote; fair | a settled link covers the interest, an address is linked once, a forgotten link recovers |
| `broker_threads` | 2 peers, 2 clusters, a cap of 1 dialed peer, a queue of 1, 2 swaps, 2 starts, 1 stray beacon; fair | no link escapes discovery, no wake-up is lost, stop and swap end, a broker that is down is all down |
| `worker` | 2 messages, 1 fault, every limit 1; fair | control is not overtaken or lost below its limit, sync answers for what came before it and returns when the worker stops, what was accepted goes out |
| `client` | 2 instances, 3 calls, 1 fault, inbound queue of 1, control queue of 3 | settled subscriptions match the callbacks, scopes are honoured, a request finds its subscription |
| `client_settles` | 1 instance, 2 calls; fair | subscriptions settle, shutdown returns |
| `links_dial_window`, `links_reset_race`, `mesh_scope`, `subscribe_scope` | small | disagreements with a comment or with PROTOCOL.md, below |

Several properties are conjunctions, one for each thing a component promises. A
violation of any conjunct is a violation of the run; to see which one it was, check
them one by one.

| Property | Run | Conjuncts |
| --- | --- | --- |
| `RegistryIsSound` | `parts` | `SidesAgree`, `ListedOnce`, `NothingLeftBehind`, the types, `MeshAnswerIsRight` |
| `WindowsAsSized` | `parts` | `RecentRemembered`, `OldForgotten` |
| `AnswersAsSet` | `parts` | `ContainsIsMembership`, `ProbesEnd` |
| `WireIsUnderstood` | `parts` | `AskedScopeArrives`, `ReadMatchesGrammar`, `EveryoneUnderstands`, `NotMisread`, `RenderIsReadable`, `HeaderSurvives`, `EachGroupIsOneMessage`, `AcceptedArriveWhole` |
| `InputIsUnderstood` | `parts` | `PeerListIsSplit`, `BeaconsRoundTrip`, `AcceptedCanRun`, `OptionsStandAnywhere`, `BrokerCanStart` |
| `CaptureIsFaithful` | `parts` | `ReplayIsPrefix`, `SuccessMeansComplete`, `SuccessMeansRouted`, `CutShortIsReported` |
| `SuccessIsReal` | `clients` | `PublishIsConfirmed`, `RequestIsAnswerable`, `AnswerIsOwn` |
| `CallsKeepTheirWord` | `clients` | `ErrorIsOfLastCall`, `BuffersHold`, `MadeTopicIsTaken` |
| `PollerIsSound` | `clients` | `RegistrationsMatchTopics`, `PollerKeepsNewest` |
| `QtCallsReachTheLiving` | `clients` | `DestroyedLeavesNothing`, `GuardKeepsCalls` |
| `WindowShowsAttached` | `clients` | `TableShowsChecked`, `CaptureIsOfAttached`, `SelectorShowsAttached`, `ReplayGoesToAttached` |
| `SessionsAreSound` | `broker_control` | `NoGhostSubscriptions`, `LimitsHold`, `StatsStayLocal` |
| `PeersAreSound` | `links` | `TypeOK`, `OneLinkPerAddress` |
| `QueueIsSound` | `broker_threads` | `SleepersAreWoken`, `WithinLimit` |
| `RosterIsSound` | `broker_threads` | `EveryLinkIsKnown`, `DialedIsLinked`, `DialsAreCapped` |
| `StartsAndStopsClean` | `broker_threads` | `DownIsDown`, `UpIsOpen` |
| `WaitsEnd` | `broker_threads` | `StopsInTheEnd`, `SwapEnds` |
| `WorkerIsSafe` | `worker` | `ControlGoesFirst`, `KeepsControl`, `SyncConfirms` |

**Bounds.** Seven ids with windows of three let an id pass through both windows
and be accepted again. Two topics with an interest limit of one reach saturation;
three subscriptions wanted with a limit of two reach the refusal; three sessions
with sweeps of one leave some for the next sweep. One client and one link are
enough for routing, because `deliverToSubscribers` treats clients independently of
one another; what they may hold, exact and wildcard in every scope, is complete.
Links share only the lock and the addresses, so one link is checked deeply and two
for the address. Queues of one are full with one message and make the second
producer wait. An inbound queue of two holds a RESET behind a message, and is
full with two messages when a RESET comes. Request topics of 0 and 4 characters,
with room for 6 and a suffix of 3, are kept whole and trimmed, reserved and not;
buffers of 3 and 7 are too small by one and just large enough. Packets come with
the empty topic, with and without the search text, and as statistics; one is posted
and not yet shown at a time (`MaxPosted`), and three pass a history of two. Three
brokers have chains, hubs that dial, hubs that are dialed,
full meshes and circles. Payloads of five bytes hold a tag, a length and a body,
each cut short or too long, with 16-bit words standing for the 64-bit ones so that
a varint can overflow. The constants whose names begin with `Max` and that stand
for nothing in the code (`MaxChanges`, `MaxDials`, `MaxForgets`, `MaxSwaps`,
`MaxStrays`, `MaxStarts`, `MaxFaults`, `MaxMessages`, `MaxCalls`, `MaxInits`, and
those of the parts) bound how often a client, a user, a peer or the network does
something; they appear in guards of such actions only. `client` has three calls and
one init; two calls and two inits (`MaxCalls` 2, `MaxInits` 2) pass as well, with
the parts of `ManagerInv` as invariants, and any number is proved. The other limits
are the code's own, made small.

**Fairness.** Threads that can run do, and timers come due; nothing makes clients
subscribe, applications call, beacons come, remotes fail or requests time out.

- `Broker`: the loop of `run` comes round to its sweep every `m_cleanupInterval`.
- `PeerLinks`: broker thread, dialing thread, workers (with their heartbeat timer)
  and the network go on.
- `BrokerThreads`: the caller of `stop`, each thread it joins, and each worker that
  is being joined go on (weak). Discovery's expiry and the clock are taken strongly
  fairly: they need discovery's mutex, which a stream of beacons may take again and
  again but never keeps; a loop that wakes every interval gets it.
- `ZmqWorker`: the loop is strongly fair for the same reason, as its steps are
  disabled and enabled by stop and start; a heartbeat comes due again and again. The
  broker reads. `sync` need not reach its deadline.
- `ConnectionManager`, `CliSession`: processing thread, worker, teardown, broker and
  heartbeats go on (weak).

`CHECK_DEADLOCK FALSE` is set where a run rests when its bounds are used up or a
program has ended.

## Proofs

Eight modules hold theorems. They speak of every set of clients, topics, ids,
links, peers, threads and brokers, of any number of calls and faults, and of every
value of the limits.

| Module | Of | Theorems on properties of the runs |
| --- | --- | --- |
| `RoutingProofs` | registry, hash set, mesh | `RegistryAnswers`, `RegistryImplementsSubscriptions`, `IdSetIsASet`, `DeliveredOnce`, `MeshInterestCorrect`, `RoutesCorrect` |
| `BrokerProofs` | windows, broker thread | `WindowsKeepTheirSize`, `SessionsCorrect`, `InterestCorrect`, `UpdatesCorrect`, `DeliveredAtMostOnce`, `RoutedMessagesServeEveryone` |
| `PeerLinksProofs` | links | `PeersCorrect`, `SettledCovers` |
| `BrokerThreadsProofs` | threads, discovery, queue | `QueueCorrect`, `RosterCorrect`, `StartStopCorrect` |
| `ZmqWorkerProofs` | worker | `WorkerCorrect` |
| `ConnectionManagerProofs` | connection manager | `SubscriptionsCorrect`, `RequestCorrect`, `ScopesCorrect` |
| `CallsProofs` | C interface, command line tool | `ApiCallsCorrect`, `WaitersCorrect`, `CliCorrect` |
| `WindowsProofs` | poller, Qt adapter, inspector | `PollerCorrect`, `QtCallsCorrect`, `WindowCorrect`, `ReplayCorrect` |

The assumptions on the constants are named, stand in the modules that declare the
constants, and are evaluated by TLC in the runs.

| Assumption | Says | Why |
| --- | --- | --- |
| `HistoryAssumption`, `SizeAssumption`, `DiscoveryAssumption` | sizes are naturals, and those of windows and queues positive | they are positive constants of the code |
| `IdSetAssumption` | the hash table has more slots than ids are put into it | the windows rotate at half the capacity |
| `BrokerAssumption`, `LinksAssumption`, `ClusterAssumption` | links are clients, the special topics are topics of the broker and not of its links, limits are naturals, no cluster is named by the empty string | keys and limits of the code |
| `ThreadsAssumption` | a peer is not one of the broker's own threads | naming |
| `MeshAssumption` | finitely many brokers, links join brokers, no message id is a control key | the same, and uuids |
| `WorkerAssumption` | limits are naturals, the pipe takes at least one message | a pipe that took nothing would be no pipe; its limit is ZeroMQ's own |
| `ManagerAssumption` | finitely many topics, `*` among them, the reply topic not; callbacks have scopes that `decodeSubscribeScope` can give | makeReplyTopic appends a fresh suffix |
| `ApiAssumption` | lengths are naturals, the suffix of a reply topic fits into a topic | constants of `connectionapi` |
| `PollAssumption` | the buffer's capacity is positive | the constructor makes a 0 a 1 |
| `InspectorAssumption` | a trim removes no more than the history holds; uuids are numbers; packets contain search texts | 10000 of 100000 |
| `InboundAssumption` | the limit of the tool's inbound queue is a natural | 5000 |

*Registry.* The inductive invariant `RegistryInv` is `TypeOK`, `SidesAgree`,
`ListedOnce` and `NothingLeftBehind` together. None of the middle ones is
inductive alone: dropping a client's first entry removes it only if it has no
other, and moving the last entry into the gap keeps the sides in step only then.
From it follow `RegistryImplementsSubscriptions`, a step simulation, and
`MeshAnswerCorrect`; `RegistryAnswers` is the two invariants together.

*Windows and hash set.* `WindowInv` says that an id is in the current window
exactly when its age is below the window's fill, and in the previous one exactly
when its age is within the next `MaxHistorySize`; `RepeatsRecognized` and
`MemoryBounded` follow, together `WindowsKeepTheirSize`. `IdSetInv` says that every
stored id has no empty slot between its home and its place; `ContainsCorrect` follows. `CountInv` adds that the
stored ids are in different slots and as many as `m_count`: with fewer ids than
slots some slot is empty, the probes of an id come round to every slot, and so each
probe stops; `IdSetIsASet` is both.

*Broker.* `ControlInv` is `SessionInv` (sessions, registry, limits), `InterestInv`
(interest against registry, updates against interest, finiteness of the set whose
size saturation counts) and `StatsStayLocal`. The interest part rests on three
lemmas, one for each thing a handler can do: nothing (`InterestSame`), gain a topic
(`InterestGains`), lose a set of topics (`InterestLoses`).
`BrokerImplementsDedup` shows that the windows inside the broker behave as
`DedupWindow`, so `RecentRemembered` holds of the broker, and with it
`DeliveredAtMostOnce`. `RoutedMessagesServeEveryone` uses `NoGhostSubscriptions`:
the look at `m_clients` skips nobody with a subscription. `SessionsCorrect` joins
`NoGhosts`, `LimitsCorrect` and `StatsCorrect`.

*Mesh.* `DeliveredOnce`, in any shape of mesh and under any loss and order of
copies: a broker remembers every id it has delivered. `InterestInv` says of every
link that what its queue says last, or what the remote holds when the queue says
nothing, is the interest of the broker that dialed; a settled link is therefore
subscribed just when that broker has an interest. `Reaches` defines a path as
membership in every set that the hops do not leave, so that statements along a path
of any length need no induction: interest follows every path because the brokers
that have it are such a set. For the converse (`InterestHasASource`), suppose a
broker has an interest that no client accounts for, and take, among those behind
it, one that the fewest brokers have a path to: its interest comes from a link, the
broker that dialed that link has the same brokers behind it, and so there is a
circle. `CopiesInv` says that a broker that has an undisturbed message has passed it
on over every hop that there is; `RoutesCorrect` follows by the same closure.

*Threads.* `ThreadsInv` has four parts. `LifeInv` ties the place of the caller of
`start` and `stop` to the threads that are alive and to what each has still to
drop: from it, `NothingSurvivesStop`. `RosterInv` holds m_dialed against m_peers
with the drops that are pending, including a key that is dialed again before its
drop: `LinksKnown`, `DialedLinked`. `QueueInv` says that room in the queue goes
with a producer that is awake: `QueueIsBounded`, `NoLostWakeup`. `CapInv` is
`DialsCapped` with the finiteness that makes the count mean something.
`QueueCorrect`, `RosterCorrect` and `StartStopCorrect` join them into the properties
that `broker_threads` checks.

*Links.* `SettledLinksCover` speaks of links on which nothing is under way, so its
invariant has to say what is on its way. `CoverInv` says of every link that is
dialed or up that each topic of the interest, less what the link missed while it was dialed,
is `Covered`: either some message that is still to come says SUBSCRIBE, in the
worker's answer, in the broker's update to a link that will get it, or last of that
topic in the pipe; or the remote holds it and no UNSUBSCRIBE is in the pipe. The
exception is a link that is `Renewing`: the remote has forgotten it and its RESET is
on the way back, or will be at the next message, which is never a CONNECT. For that,
a CONNECT stands only at the head of a pipe, and no DISCONNECT is in the pipe of a
live link. `UpdatesInv` says that answers are snapshots and nothing but SUBSCRIBEs,
and that an update in progress withdraws no topic that is wanted. The lemmas on
sequences say what appending, dropping and concatenating do to "says" and "says
last"; then there is one lemma for each way to touch a link (`ChangeCovered`,
`TellCovered`, `DeliverCovered`, `ForgetCovered`, `AnswerCovered`, `SameLink`), and
`CoverStep` reduces every action to one of them. `PeersMatchWorkers` and
`AddressLinkedOnce` come from `PeersInv`; `PeersCorrect` is both.

*Worker.* `WorkerIsSafe` is one action property of three parts. `OrderInv` numbers
the messages as they are accepted and says that numbers grow along the chain of
control (backlog, queue) and along that of data (backlog, batch, queue), that
nothing is held back while the worker takes the link for up, and that no data in
the pipe is younger than control that waits. From it every step keeps control,
unless the backlog overflows or the worker ends. `SyncInv` is a count: for each
message in the pipe that a call of sync answers for, the acknowledgements that can
arrive before that message is handled (those under way and those for heartbeats in
front of it) are fewer than the ones the call waits for. Sending puts heartbeats
behind, the broker turns a heartbeat into an acknowledgement one for one, a restart
only takes away, and reading one lowers both sides (`BeatBehind`, `HandlingCounts`,
`WaitsNoMore`, `AckCounts`). When the count a call waits for is reached, no such
message is left. The window of `SyncAlwaysConfirms`, below, is excepted by `stray`.

*Connection manager.* `ManagerInv` has four parts: types; `CountInv`, that
`m_scopedHandlers` is the number of registered callbacks with a narrower scope
(`ScopesCorrect` follows, since the look at the origin is skipped only when it is
0); `ReplyInv`, that the reply topic has the request's one callback while the
request is out and none otherwise; and `WishesInv`, which relates for every topic
what the callbacks want, what is queued to the broker and what the broker holds.
While the client is connected, the last thing queued about a topic asks for what
the callbacks want, and a CONNECT in the queue is followed by a SUBSCRIBE for every
topic wanted. If nothing is queued, the broker holds what is wanted, unless it has
forgotten the client and its RESET is on the way, or has still to be drawn by the
next message. Nothing of this holds once a full queue has refused a message
(`lost`). Each way to disturb a topic has its lemma: nothing is said about it
(`QuietWished`), one message more (`ChangeWished`), all topics are said anew
(`AnewWished`), the broker reads or forgets (`ControlWished`, `ForgetsWished`);
`ManagerStep` reduces every action to one of them.

*C interface and tool.* `ApiInv` keeps the record of each thread, where `MadeIsTaken`
says that a topic made for one that is not reserved has a length within the limit
and a prefix that is not reserved either; and `MutexInv`: a
thread that has looked and is about to sleep holds the status mutex of its
instance, so that no change of the status falls in between. `CliInv` follows the
CONNECT, the subscription and the message of a command from queue to wire to broker
in their order, so that the answer to a sync comes from a broker that has handled
the rest.

*Poller, Qt adapter, inspector.* `PollInv` says that a topic on which no calls
overlapped is one caller's business at a time, and that the buffer is the end of
what arrived. `QtInv` says that only the living context is registered and that
posted calls are for it, unless one was destroyed between the look at its guard and
the post. `InspectorInv` holds the table, the menu, the text, the list of brokers and
the packets in the event queue against the tap that is attached, and the selection
against the rows and the details shown: `SelectionRemains` for rows that go,
`FiltersInStep` for a filter that changes.

Only model-checked: every liveness property, and with it whatever needs ENABLED,
which TLAPS cannot prove; `WireIsUnderstood`, `InputIsUnderstood` and
`CaptureIsFaithful`, whose definitions are folds over their input or recursive, so
that a proof would need induction over data; and the properties of the four runs
that end in a counterexample.

## Findings

Each is a run that TLC ends with a counterexample to what a line of the
repository says; `PROJECT.json` quotes the lines.

- `links_dial_window`: a topic subscribed between `addPeer`'s snapshot and the
  registration of the link reaches the link by neither.
- `links_reset_race`: a wildcard withdrawn while a link's thread answers a RESET
  is subscribed again behind the withdrawal.
- `mesh_scope`: what a dialing broker floods is local traffic at the broker it
  dialed, and mesh traffic in the other direction.
- `subscribe_scope`: a scope byte with an unknown bit beside a known one keeps the
  known one, where the protocol and the comment say that it is widened.
  `AskedScopeArrives` speaks of the bytes without unknown bits.

## Known behaviours

The modules also state, without a run of their own, what further comments and
documents say and the models do not bear out. Each can be seen by putting the
definition into the configuration named, in the place of its properties.

| Definition | Configuration | What happens |
| --- | --- | --- |
| `UnlinkedStaysForgotten` | `MCPeerLinks.cfg` | a link that was told to unlink is a session again, with its subscriptions, at its next SUBSCRIBE or heartbeat |
| `DialedHasLink` | `MCBrokerThreads.cfg` | a peer dialed again while the drop of its old link is pending loses the new one, and stays in m_dialed |
| `BrokerIdComesFirst` | `MCConnectionManager.cfg`, `MaxInits` 2, `MaxCalls` 1, `MaxFaults` 0 | after a second init, a message is dispatched before the id of the broker is known |
| `SyncAlwaysConfirms` | `MCZmqWorker.cfg` | a message and a call of sync between the loop's look at the queues and at the request: sync returns before the message is out |
| `AnyThreadMaySubscribe` | `MCClients.cfg` | overlapping subscribe and unsubscribe of one topic leave the callback without the topic, or the topic without its callback |
| `SetClusterNeedsConnection` (a PROPERTY) | `MCClients.cfg` | setCluster before the connection is up is queued and succeeds |
| `CaptureIsNotMixed` | `MCClients.cfg` | packets that the old tap had posted join the capture of the new broker |

A client that is shut down and initialized again under a configured id may find a
broker that still holds subscriptions of its earlier connection: shutdown sends a
DISCONNECT only while it is connected, and a full queue may refuse it. Nothing
withdraws those that no callback of the new connection has, until the broker
forgets the session. `SettledMatches` excepts them (`inherited`), and holds of the
others for any number of inits. The origin of a message is judged by the id of the
broker at the time its callbacks are chosen, which may have changed again when they
are called; `ScopesAreHonoured` speaks of the choice.

Properties that hold but for a window of the code name it, and a history variable
records just that window:

| Property | Excepts |
| --- | --- |
| `RosterIsSound` | a dial that failed, and one that a pending drop of the same key undid (`failed`, `raced`): the peer stays in m_dialed without a link |
| `WorkerIsSafe` | a message and a call of sync between the loop's two looks (`stray`) |
| `SettledMatches`, `SubscriptionsSettle` | a message that a full queue refused (`lost`) |
| `SubscriptionComesBack` | a RESET that the tool's full queue dropped (`resetLost`) |
| `PublishIsConfirmed` | a broker that restarted and lost the message (`restarted`) |
| `MadeTopicIsTaken` | reply topics made for reserved topics: makeReplyTopic does not look, and sendDataWithReply refuses them |
| `RegistrationsMatchTopics` | topics whose calls overlapped (`overlapped`) |
| `GuardKeepsCalls` | an object destroyed between the look at its guard and the post (`raced`) |
| `CaptureIsOfAttached` | packets posted and not yet shown at a switch (`postedBefore`) |

In a mesh with a circle of links, two brokers that dial each other included, the
interest of the members keeps each other alive after the last subscriber has left,
and a SUBSCRIBE with an UNSUBSCRIBE behind it can travel round for ever:
`InterestCrossesTheMesh` excepts circles. Messages are not affected
(`MeshDeliversOnce`). A broker that dials two others does not pass the interest of
the one on to the other, so messages between these go through it only if it has an
interest of its own; `RoutesAreTaken` is about the routes that there are.

## Not modelled

Of the modelled parts: message ids are atoms, so `messageIdFrom` is taken to be
injective; the tap's frames, logging, rate limits of log lines and the counters
shown in statistics; refused sends to clients, which drop a message (`got` counts
sends); a RESET or UNLINK frame that the broker's socket refuses; the loss of queued
messages when a worker's socket closes with a remote that does not read; the wake
sockets of the worker, which only shorten a wait. `ConnectionManager` has one
instance at a time: an init that runs while another thread still tears down the
instance before it would need two, with a worker each, and is not an action;
neither is a shutdown from inside a callback, which the code refuses. Contents of messages are modelled
where a codec is about them and are atoms elsewhere.

Of the inspector, widgets, layout and the protobuf schema browser are left out: they
are calls of Qt and protobuf reflection without a state of this program. Of
configuration and start-up, reading the environment, signal handling and sockets are
I/O. The command line tool's printing and help texts, the logging library and the
protobuf classes (generated) have no state that a property could be about. Tests,
examples and benchmarks exercise the parts above and are not modelled. The
`components` of `PROJECT.json` say the same part by part.
