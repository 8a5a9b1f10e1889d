------------------------------ MODULE MCPeerLinks -------------------------------
(* One link under many changes of the interest, or two keys for one address    *)
(* under few: links share nothing but the lock on m_peers and the addresses in *)
(* it.  Only what clients and discovery begin is limited, never what a thread  *)
(* that has begun goes on to do.                                               *)
EXTENDS PeerLinks

CONSTANTS
    FewChanges, FewDials,  \* the lower limits of the two scenes
    Second                 \* the link that only the second scene has

OneAddress == [l \in Links |-> "tcp"]

VARIABLE scene
sceneVars == <<vars, scene>>

OneLink == state'[Second] = "none" /\ dials' <= FewDials
TwoLinks == changes' <= FewChanges

SceneInit == Init /\ scene \in {"one link", "two links"}
SceneNext ==
    /\ UNCHANGED scene
    /\ \/ scene = "one link" /\ Next /\ OneLink
       \/ scene = "two links" /\ Next /\ TwoLinks
SceneSpec == SceneInit /\ [][SceneNext]_sceneVars /\ Fairness
================================================================================
