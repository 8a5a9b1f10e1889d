--------------------------------- MODULE MCParts ---------------------------------
(* Tables, codecs, the command line, captures, and messages that cross a mesh.     *)
(* The part is chosen at the start, and the others stay as they began.             *)
(* Nothing depends on a client's or a topic's name, so both sets are symmetric.    *)
EXTENDS SubscriptionRegistry, DedupWindow, MessageIdSet, MCMessageKeys, Texts, Payloads, Frames, CommandLine,
        Captures, MCMesh

CONSTANT Parts             \* the parts that are checked

VARIABLE part
partVars == <<part, vars, windowVars, idSetVars, scopeVars, textVars, payloadVars, frameVars, argv,
              captureVars, meshVars>>

Symmetry == Permutations(Clients) \cup Permutations(Topics)

(* Three ids share the last slot as their home, and their run wraps around.        *)
MCHash == [id \in MessageIds |-> IF id < 4 THEN Slots - 1 ELSE id]

(* A part that is not checked begins in one of its initial states.                 *)
PartsInit ==
    /\ part \in Parts
    /\ \/ part = "texts"
       \/ part # "texts" /\ beacon = [cluster |-> <<>>, uuid |-> <<"u">>, routerPort |-> 5, tapPort |-> 0]
    /\ \/ part = "payloads"
       \/ part # "payloads" /\ payload = <<>> /\ value = [kind |-> "string", type |-> <<1>>, body |-> <<>>]
    /\ \/ part = "frames"
       \/ part # "frames" /\ router = TRUE
    /\ \/ part = "captures"
       \/ part # "captures" /\ includeControl = FALSE /\ preserveUuids = FALSE
    /\ \/ part = "mesh"
       \/ part # "mesh" /\ dials = {<<b1, b2>>, <<b2, b3>>}
    /\ Init /\ WindowInit /\ IdSetInit /\ ScopeInit /\ TextInit /\ PayloadInit /\ FrameInit /\ CommandLineInit
    /\ CaptureInit /\ MeshInit

Only(p) ==
    /\ part = p /\ UNCHANGED part
    /\ IF p = "registry"  THEN TRUE ELSE UNCHANGED vars
    /\ IF p = "windows"   THEN TRUE ELSE UNCHANGED windowVars
    /\ IF p = "ids"       THEN TRUE ELSE UNCHANGED idSetVars
    /\ IF p = "scopes"    THEN TRUE ELSE UNCHANGED scopeVars
    /\ IF p = "texts"     THEN TRUE ELSE UNCHANGED textVars
    /\ IF p = "payloads"  THEN TRUE ELSE UNCHANGED payloadVars
    /\ IF p = "frames"    THEN TRUE ELSE UNCHANGED frameVars
    /\ IF p = "words"     THEN TRUE ELSE UNCHANGED argv
    /\ IF p = "captures"  THEN TRUE ELSE UNCHANGED captureVars
    /\ IF p = "mesh"      THEN TRUE ELSE UNCHANGED meshVars
PartsNext ==
    \/ Only("registry") /\ Next
    \/ Only("windows") /\ WindowNext
    \/ Only("ids") /\ IdSetNext
    \/ Only("scopes") /\ ScopeNext
    \/ Only("texts") /\ TextNext
    \/ Only("payloads") /\ PayloadNext
    \/ Only("frames") /\ FrameNext
    \/ Only("words") /\ CommandLineNext
    \/ Only("captures") /\ CaptureNext
    \/ Only("mesh") /\ MeshNext
PartsSpec == PartsInit /\ [][PartsNext]_partVars

(* What one program puts on the wire, another reads as it was meant: scopes,       *)
(* payloads, headers and the groups of frames.                                     *)
WireIsUnderstood ==
    /\ AskedScopeArrives /\ ReadMatchesGrammar /\ EveryoneUnderstands
    /\ NotMisread /\ RenderIsReadable /\ HeaderSurvives
    /\ EachGroupIsOneMessage /\ AcceptedArriveWhole

(* Texts from users and from the network are refused, or read as they were meant:  *)
(* peer lists, beacons and command lines.                                          *)
InputIsUnderstood ==
    /\ PeerListIsSplit /\ BeaconsRoundTrip /\ AcceptedCanRun
    /\ OptionsStandAnywhere /\ BrokerCanStart
================================================================================
