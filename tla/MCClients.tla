-------------------------------- MODULE MCClients --------------------------------
(* A broker that routes, and the programs on top of a connection: the C API, the   *)
(* two bindings, a session of the command line tool, and the inspector.  The part  *)
(* is chosen at the start, and the others stay as they began.                      *)
EXTENDS Broker, CliSession, ConnectionApi, Bindings, Inspector

CONSTANT Parts             \* the parts that are checked

PacketContents == {[topic |-> EmptyTopic, contains |-> {}], [topic |-> EmptyTopic, contains |-> {"x"}],
                   [topic |-> SYS_STATS, contains |-> {}]}

(* Of a SUBSCRIBE: the absent frame, and one byte for each narrower scope.          *)
EachScope == {<<>>, <<1>>, <<2>>}

VARIABLE part
partVars == <<part, vars, cliVars, apiVars, pollVars, qtVars, inspectorVars>>

PartsInit ==
    /\ part \in Parts
    /\ \/ part = "cli"
       \/ part # "cli" /\ command = "pub" /\ origin = OriginAny /\ count = 0 /\ cliKnown = FALSE
    /\ Init /\ CliInit /\ ApiInit /\ PollInit /\ QtInit /\ InspectorInit

PartsNext ==
    /\ UNCHANGED part
    /\ \/ part = "broker" /\ Next /\ UNCHANGED <<cliVars, apiVars, pollVars, qtVars, inspectorVars>>
       \/ part = "cli" /\ CliNext /\ UNCHANGED <<vars, apiVars, pollVars, qtVars, inspectorVars>>
       \/ part = "api" /\ ApiNext /\ UNCHANGED <<vars, cliVars, pollVars, qtVars, inspectorVars>>
       \/ part = "poller" /\ PollNext /\ UNCHANGED <<vars, cliVars, apiVars, qtVars, inspectorVars>>
       \/ part = "qt" /\ QtNext /\ UNCHANGED <<vars, cliVars, apiVars, pollVars, inspectorVars>>
       \/ part = "inspector" /\ InspectorNext /\ UNCHANGED <<vars, cliVars, apiVars, pollVars, qtVars>>
PartsSpec == PartsInit /\ [][PartsNext]_partVars /\ WF_vars(Sweep) /\ CliFairness
================================================================================
