------------------------------- MODULE MCAgent -------------------------------
(* Instances of Agent for TLC: the goroutines. *)
EXTENDS Agent, TLC

CONSTANTS w1, w2, w3, m1, m2, t1, t2

Symmetry == Permutations({w1, w2}) \cup Permutations({m1, m2}) \cup Permutations({t1, t2})
=============================================================================
