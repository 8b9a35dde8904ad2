----------------------------- MODULE MCKeyPool -----------------------------
(* Bounded instances of KeyPool. *)
EXTENDS KeyPool, TLC

UnitWeights == [k \in Keys |-> {1}]
=============================================================================
