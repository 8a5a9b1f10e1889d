-------------------------------- MODULE MCBroker --------------------------------
(* A small instance of Broker.  The payloads of a SUBSCRIBE are the absent     *)
(* frame, which asks for both origins, and the byte for the local one.         *)
EXTENDS Broker, TLC

AnyOrLocal == {<<>>, <<1>>}

Symmetry ==
    Permutations(Clients \ Links) \cup Permutations(Topics \ {WILDCARD_TOPIC, SYS_STATS})
    \cup Permutations(Clusters)
================================================================================
