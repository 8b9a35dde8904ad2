---------------------------- MODULE MCScheduler ----------------------------
(* Bounded instance of Scheduler: three keys, one of which is added again   *)
(* with another weight.                                                     *)
EXTENDS Scheduler, TLC

CONSTANTS k1, k2, k3

UnequalWeights == (k1 :> {1, 2}) @@ (k2 :> {1}) @@ (k3 :> {1})
=============================================================================
