-------------------------- MODULE MCRollingBatches --------------------------
(* The model values from which the .cfg files build small coordinators.       *)
EXTENDS RollingBatches, TLC

CONSTANTS p1, p2, p3, planA, planB, b1, b2

\* Nothing tells two plans apart when both are valid and neither includes the other.
PlansAlike == Permutations(Plans)
=============================================================================
