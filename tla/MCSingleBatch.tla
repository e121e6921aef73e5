---------------------------- MODULE MCSingleBatch ----------------------------
(* The model values from which the .cfg files build small batches.            *)
EXTENDS SingleBatch

CONSTANTS p1, p2, p3, p4, planA, planB, planPoor, planOdd, batch

\* What is underfunded may be funded by a plan with another input.
MCWider == {<<planA, planPoor>>}
==============================================================================
