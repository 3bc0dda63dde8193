----------------------------- MODULE MCEdgeClient -----------------------------
(* Instances of EdgeClient for TLC. *)
EXTENDS EdgeClient, TLC

Symmetry == Permutations(Collectors) \cup Permutations(Events \ BadEvents)
===============================================================================
