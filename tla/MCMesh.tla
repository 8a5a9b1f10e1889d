--------------------------------- MODULE MCMesh ---------------------------------
(* Three brokers, linked in different ways.                                        *)
EXTENDS Mesh

CONSTANTS b1, b2, b3

(* Everyone discovered by everyone; a chain, a hub that dials, a hub that is       *)
(* dialed; and a pair that is linked both ways, the smallest circle.               *)
MCShapes == {
    {<<b1, b2>>, <<b1, b3>>, <<b2, b3>>},
    {<<b1, b2>>, <<b2, b3>>},
    {<<b1, b2>>, <<b1, b3>>},
    {<<b1, b3>>, <<b2, b3>>},
    {<<b1, b2>>, <<b2, b1>>}}
================================================================================
