------------------------------ MODULE MCOverlap ------------------------------
(* Constants of the run of OverlappingPasses. *)
EXTENDS OverlappingPasses

CONSTANTS p1, x1

OneProject == [f \in Fips |-> p1]
OneLabel == [p \in Projects |-> x1]
=============================================================================
