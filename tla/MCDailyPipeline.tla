-------------------------- MODULE MCDailyPipeline --------------------------
(* Model-checking instances of DailyPipeline.                              *)
EXTENDS DailyPipeline, TLC

Symmetry == Permutations(Runners)

(* Safety needs no fairness; the liveness runs add the scheduler's.        *)
FairSpec == Spec /\ Progress
OperatorSpec == Spec /\ Progress /\ Operator
=============================================================================
