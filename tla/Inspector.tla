-------------------------------- MODULE Inspector --------------------------------
(* The inspector's window: the tap's thread and the beacon listener post to the   *)
(* UI thread, where the user attaches to another broker, filters, selects and     *)
(* replays.                                                                       *)
(* Models src/inspector and Beacon::Listener of src/common/beacon.cpp.            *)
EXTENDS MessageKeys, Sequences, SequencesExt, FiniteSets, FiniteSetsExt

CONSTANTS Uuids,            \* of the brokers that beacon: naturals, for QMap's order
          RouterEndpoints,  \* the router ports they advertise
          SearchTexts,      \* typed into the filter bar, case apart
          Contents,         \* of packets: their topics, and the texts they contain
          MaxPacketHistory, TrimChunk,
          MaxPackets,       \* bound: packets read from taps
          MaxPosted,        \* bound: those of them posted and not yet shown
          MaxBeacons        \* bound: beacons heard

NoText == ""                         \* the filter bar when nothing is typed
EmptyTopic == "[Empty]"
PacketTopics == {EmptyTopic, SYS_STATS}

(* 100000 rows are kept and 10000 go at a time: a trim leaves rows.               *)
ASSUME InspectorAssumption ==
    /\ MaxPacketHistory \in Nat /\ TrimChunk \in 0 .. MaxPacketHistory /\ Uuids \subseteq Nat
    /\ Contents \subseteq [topic : PacketTopics, contains : SUBSET SearchTexts]

localTap == "ipc"
defaultRouter == "tcp://localhost:5555"
TapEndpoints == {"", "tap"}          \* as advertised; "" is a broker without a remote tap

VARIABLES
    tapEndpoint,                     \* of the running InspectorWorker
    uiQueue,                         \* posted to the UI thread
    m_discoveredBrokers, quiet,      \* by uuid; those whose lastSeen is past the cutoff
    selectorItems, selectorShown,    \* the endpoints offered, and the one shown ("" for none)
    m_currentEndpoint, m_injectorAddress,
    m_packetHistory, m_knownTopics, unchecked, filterBar,
    m_allowedTopics, m_searchText,   \* of the proxy model: its filter
    visible,                         \* and the ids it lets through
    selected, details, stats,        \* the selected id, the packet detailed, "--" or "shown"
    injected,                        \* what the injector was given in the last step, if anything
    packets, beacons,                \* counters for the bounds
    advertised,                      \* history: <<tap, router>> of every beacon
    postedBefore                     \* history: packets that were posted and not shown at the last switch

proxyModel == <<m_allowedTopics, m_searchText, visible>>
filterVars == <<m_knownTopics, unchecked, filterBar, proxyModel, selected>>
captureView == <<m_packetHistory, filterVars, details, stats>>
brokerList == <<m_discoveredBrokers, quiet, selectorItems, selectorShown>>
attachment == <<tapEndpoint, m_currentEndpoint, m_injectorAddress>>
inspectorVars == <<uiQueue, brokerList, attachment, captureView, injected, packets, beacons,
                   advertised, postedBefore>>

InspectorInit ==
    /\ tapEndpoint = localTap /\ uiQueue = <<>>
    /\ m_discoveredBrokers = <<>> /\ quiet = {} /\ selectorItems = {localTap} /\ selectorShown = localTap
    /\ m_currentEndpoint = localTap /\ m_injectorAddress = defaultRouter
    /\ m_packetHistory = <<>> /\ m_knownTopics = {} /\ unchecked = {}
    /\ filterBar = NoText /\ m_allowedTopics = {} /\ m_searchText = NoText
    /\ visible = {} /\ selected = 0 /\ details = 0 /\ stats = "--"
    /\ injected = <<>> /\ packets = 0 /\ beacons = 0
    /\ advertised = {<<localTap, defaultRouter>>} /\ postedBefore = {}
--------------------------------------------------------------------------------
(* The worker's thread posts what it reads from the tap.  A packet contains a     *)
(* text if its sender, its key or its topic does.                                 *)
packetReceived(content) ==
    /\ Len(uiQueue) < MaxPosted /\ packets < MaxPackets /\ packets' = packets + 1
    /\ uiQueue' = Append(uiQueue, [id |-> packets + 1, topic |-> content.topic,
                                  contains |-> content.contains, from |-> tapEndpoint])
    /\ UNCHANGED <<brokerList, attachment, captureView, beacons, advertised, postedBefore>>
--------------------------------------------------------------------------------
(* The list of brokers.                                                           *)
SelectionKept(items) == IF m_currentEndpoint \in items THEN m_currentEndpoint ELSE ""

refreshBrokerList(brokers) ==
    /\ selectorItems' = {localTap} \cup {brokers[u].endpoint : u \in DOMAIN brokers}
    /\ selectorShown' = SelectionKept(selectorItems')

(* Run by the UI thread for each beacon that decodes, in the order they came.     *)
onBeaconHeard(uuid, endpoint, router) ==
    LET broker == [endpoint |-> endpoint, router |-> router]
        known == uuid \in DOMAIN m_discoveredBrokers
    IN  /\ beacons < MaxBeacons /\ beacons' = beacons + 1
        /\ m_discoveredBrokers' = [u \in DOMAIN m_discoveredBrokers \cup {uuid} |->
                                       IF u = uuid THEN broker ELSE m_discoveredBrokers[u]]
        /\ quiet' = quiet \ {uuid}
        /\ IF known /\ m_discoveredBrokers[uuid] = broker
           THEN UNCHANGED <<selectorItems, selectorShown>>
           ELSE refreshBrokerList(m_discoveredBrokers')
        /\ advertised' = advertised \cup {<<endpoint, router>>}
        /\ UNCHANGED <<uiQueue, attachment, captureView, packets, postedBefore>>

GoesQuiet(uuid) ==
    /\ uuid \in DOMAIN m_discoveredBrokers \ quiet
    /\ quiet' = quiet \cup {uuid}
    /\ UNCHANGED <<uiQueue, m_discoveredBrokers, selectorItems, selectorShown, attachment,
                   captureView, packets, beacons, advertised, postedBefore>>

expireDiscoveredBrokers ==
    /\ quiet # {} /\ quiet' = {}
    /\ m_discoveredBrokers' = [u \in DOMAIN m_discoveredBrokers \ quiet |-> m_discoveredBrokers[u]]
    /\ refreshBrokerList(m_discoveredBrokers')
    /\ UNCHANGED <<uiQueue, attachment, captureView, packets, beacons, advertised,
                   postedBefore>>
--------------------------------------------------------------------------------
IdsIn(history) == {history[i].id : i \in DOMAIN history}

routerEndpointForTap(tap) ==
    LET of == {u \in DOMAIN m_discoveredBrokers : m_discoveredBrokers[u].endpoint = tap}
    IN  IF of = {} THEN defaultRouter ELSE m_discoveredBrokers[Min(of)].router
retargetInjector(tap) == m_injectorAddress' = routerEndpointForTap(tap)

(* The filter itself is left as it was, until the next topic applies a new one,   *)
(* and so is the text in the filter bar.                                          *)
clearCapture ==
    /\ m_packetHistory' = <<>> /\ visible' = {} /\ selected' = 0
    /\ m_knownTopics' = {} /\ unchecked' = {}
    /\ details' = 0 /\ stats' = "--"
    /\ UNCHANGED <<filterBar, m_allowedTopics, m_searchText>>

(* The worker is stopped and waited for: what it read is posted, not yet shown.   *)
RestartedWithoutWait(endpoint) == tapEndpoint' \in {endpoint, tapEndpoint}
Restarted(endpoint) == tapEndpoint' = endpoint

attachTo(endpoint) ==
    IF endpoint = m_currentEndpoint
    THEN UNCHANGED <<attachment, captureView, postedBefore>>
    ELSE /\ clearCapture
         /\ Restarted(endpoint)
         /\ m_currentEndpoint' = endpoint
         /\ retargetInjector(endpoint)
         /\ postedBefore' = IdsIn(uiQueue)

onBrokerSelected(endpoint) ==
    /\ endpoint \in selectorItems \ {"", selectorShown}
    /\ selectorShown' = endpoint
    /\ attachTo(endpoint)
    /\ UNCHANGED <<uiQueue, m_discoveredBrokers, quiet, selectorItems, packets, beacons,
                   advertised>>
--------------------------------------------------------------------------------
filterAcceptsRow(packet, topics, text) == packet.topic \in topics /\ (text = NoText \/ text \in packet.contains)
Accepted(history, topics, text) ==
    {history[i].id : i \in {j \in DOMAIN history : filterAcceptsRow(history[j], topics, text)}}

updateFilters(history, topics, text) ==
    /\ m_allowedTopics' = topics /\ m_searchText' = text
    /\ visible' = Accepted(history, topics, text)

(* When the selected row goes, the view selects the next that is left, or else    *)
(* the last; onSelectionChanged shows its details.  Rows it passes by, going from *)
(* one removed range to another, are shown on the way.                            *)
NextRows(rows) == {r \in rows : r > selected /\ \A q \in rows : q > selected => r <= q}
LastRows(rows) == {r \in rows : \A q \in rows : q <= r}
Reselected(rows) ==
    IF selected \in rows \cup {0} THEN {selected}
    ELSE IF rows = {} THEN {0}
    ELSE IF \E r \in rows : r > selected THEN NextRows(rows) ELSE LastRows(rows)
Detailed(now) ==
    IF now = selected THEN {details}
    ELSE IF now = 0 THEN {details} \cup {r \in visible : r < selected}
    ELSE {now}
RowsRemain(rows) ==
    /\ selected' \in Reselected(rows)
    /\ details' \in Detailed(selected')

(* The oldest rows go in chunks.                                                  *)
Trimmed(history) ==
    IF Len(history) > MaxPacketHistory THEN SubSeq(history, TrimChunk + 1, Len(history)) ELSE history

(* A row is filtered as it is added, by the filter as it is; a topic seen first   *)
(* is checked in the menu, and the filter applied again, which adds rows.         *)
NewTopic(topic, history) ==
    /\ m_knownTopics' = m_knownTopics \cup {topic}
    /\ IF topic \in m_knownTopics
       THEN updateFilters(history, m_allowedTopics, m_searchText)
       ELSE updateFilters(history, m_knownTopics' \ unchecked, filterBar)

(* Statistics that cannot be unpacked leave the labels as they are.               *)
onNewPacket ==
    LET packet == Head(uiQueue)
        history == Trimmed(Append(m_packetHistory, packet))
    IN  /\ uiQueue # <<>> /\ uiQueue' = Tail(uiQueue)
        /\ m_packetHistory' = history
        /\ RowsRemain(Accepted(history, m_allowedTopics, m_searchText))
        /\ NewTopic(packet.topic, history)
        /\ stats' \in {stats} \cup (IF packet.topic = SYS_STATS THEN {"shown"} ELSE {})
        /\ UNCHANGED <<brokerList, attachment, unchecked, filterBar, packets, beacons,
                       advertised, postedBefore>>

(* applyFilters, run when a topic is checked or unchecked and for each change of  *)
(* the text.                                                                      *)
applyFilters ==
    /\ updateFilters(m_packetHistory, m_knownTopics \ unchecked', filterBar')
    /\ RowsRemain(visible')
    /\ UNCHANGED <<uiQueue, brokerList, attachment, m_packetHistory, m_knownTopics, stats,
                   packets, beacons, advertised, postedBefore>>

TopicToggled(topic) ==
    /\ topic \in m_knownTopics
    /\ unchecked' = (unchecked \ {topic}) \cup ({topic} \ unchecked) /\ UNCHANGED filterBar
    /\ applyFilters

TextChanged(text) ==
    /\ text # filterBar /\ filterBar' = text /\ UNCHANGED unchecked
    /\ applyFilters

onSelectionChanged(id) ==
    /\ id \in visible \ {selected}
    /\ selected' = id /\ details' = id
    /\ UNCHANGED <<uiQueue, brokerList, attachment, m_packetHistory, m_knownTopics, unchecked,
                   filterBar, proxyModel, stats, packets, beacons, advertised,
                   postedBefore>>

(* mapToSource: the row of the history that a row of the view stands for.         *)
ViewRow(id) == Cardinality({v \in visible : v <= id})
SourceRow(id) == CHOOSE i \in DOMAIN m_packetHistory : m_packetHistory[i].id = id

(* It goes to the injector's control queue if its key is of a control message.    *)
replaySelectedMessage ==
    LET packet == m_packetHistory[SourceRow(selected)]
    IN  /\ selected # 0
        /\ injected' = <<IF packet.topic = EmptyTopic THEN "control" ELSE "data", packet.id>>
        /\ UNCHANGED <<uiQueue, brokerList, attachment, captureView, packets, beacons, advertised,
                       postedBefore>>

InspectorNext ==
    \/ replaySelectedMessage
    \/ /\ injected' = <<>>
       /\ \/ \E c \in Contents : packetReceived(c)
          \/ \E t \in PacketTopics : TopicToggled(t)
          \/ \E x \in {NoText} \cup SearchTexts : TextChanged(x)
          \/ \E u \in Uuids, e \in TapEndpoints, r \in RouterEndpoints : onBeaconHeard(u, e, r)
          \/ \E u \in Uuids : GoesQuiet(u)
          \/ expireDiscoveredBrokers \/ onNewPacket
          \/ \E e \in {localTap} \cup TapEndpoints : onBrokerSelected(e)
          \/ \E id \in 1 .. MaxPackets : onSelectionChanged(id)

InspectorSpec == InspectorInit /\ [][InspectorNext]_inspectorVars
--------------------------------------------------------------------------------
(* The table shows exactly the captured rows whose topic is checked in the menu   *)
(* and that contain the text in the filter bar, through trims, new topics and     *)
(* switches of the broker.                                                        *)
TableShowsChecked == visible = Accepted(m_packetHistory, m_knownTopics \ unchecked, filterBar)

(* What the table and the labels show came from the broker attached to, but for   *)
(* packets that were posted and not yet handled at a switch.                      *)
CaptureIsOfAttached ==
    /\ \A i \in DOMAIN m_packetHistory :
          m_packetHistory[i].from = m_currentEndpoint \/ m_packetHistory[i].id \in postedBefore
    /\ m_packetHistory = <<>> => stats = "--"

(* As the comment on clearCapture has it, without the exception.                  *)
CaptureIsNotMixed ==
    \A i, j \in DOMAIN m_packetHistory : m_packetHistory[i].from = m_packetHistory[j].from

(* However the list of brokers changes, the selector shows the broker attached    *)
(* to, or nothing when that one is no longer listed.                              *)
SelectorShowsAttached ==
    selectorShown = IF m_currentEndpoint \in selectorItems THEN m_currentEndpoint ELSE ""

(* A replay goes to a router that the broker attached to has advertised.          *)
ReplayGoesToAttached == <<m_currentEndpoint, m_injectorAddress>> \in advertised

(* The window, its capture and its injector are those of the broker it is         *)
(* attached to.                                                                   *)
WindowShowsAttached ==
    /\ TableShowsChecked /\ CaptureIsOfAttached /\ SelectorShowsAttached
    /\ ReplayGoesToAttached

(* What is replayed is the packet whose details are on display.                   *)
ReplaysWhatIsShown == [][injected' # <<>> => injected'[2] = details]_inspectorVars
--------------------------------------------------------------------------------
(* The inductive invariant: the menu's filter is the table's, the list of brokers *)
(* is the one offered, and what is posted is of the running worker or of one that *)
(* was stopped.                                                                   *)
Endpoints == {localTap} \cup TapEndpoints
Packets == [id : Nat, topic : PacketTopics, contains : SUBSET SearchTexts, from : Endpoints]
InspectorTypeOK ==
    /\ uiQueue \in Seq(Packets) /\ m_packetHistory \in Seq(Packets) /\ packets \in Nat
    /\ m_currentEndpoint \in Endpoints /\ tapEndpoint = m_currentEndpoint
    /\ DOMAIN m_discoveredBrokers \subseteq Uuids
    /\ \A u \in DOMAIN m_discoveredBrokers :
          m_discoveredBrokers[u] \in [endpoint : TapEndpoints, router : RouterEndpoints]
BrokersInStep ==
    /\ selectorItems = {localTap} \cup {m_discoveredBrokers[u].endpoint : u \in DOMAIN m_discoveredBrokers}
    /\ <<localTap, defaultRouter>> \in advertised
    /\ \A u \in DOMAIN m_discoveredBrokers :
          <<m_discoveredBrokers[u].endpoint, m_discoveredBrokers[u].router>> \in advertised
PostedIsOfAttached ==
    \A i \in DOMAIN uiQueue : uiQueue[i].from = m_currentEndpoint \/ uiQueue[i].id \in postedBefore
FilterInStep ==
    /\ m_knownTopics = {} \/ m_allowedTopics = m_knownTopics \ unchecked
    /\ m_searchText = filterBar
SelectionInStep == selected # 0 => selected = details /\ selected \in visible
InspectorInv ==
    /\ InspectorTypeOK /\ BrokersInStep /\ PostedIsOfAttached /\ FilterInStep /\ SelectionInStep
    /\ WindowShowsAttached
================================================================================
