-------------------------- MODULE MCMotionLifecycle --------------------------
(* Instances of MotionLifecycle for TLC.                                   *)
EXTENDS MotionLifecycle, TLC

Symmetry == Permutations(Requests)
=============================================================================
