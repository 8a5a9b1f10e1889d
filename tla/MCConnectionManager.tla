--------------------------- MODULE MCConnectionManager ---------------------------
(* ConnectionManager where the instances are interchangeable.                  *)
EXTENDS ConnectionManager, TLC

InstancesAreAlike == Permutations(Instances)
================================================================================
