-------------------------- MODULE MCSimpleMSQueue --------------------------
(* Symmetry for the runs of SimpleMSQueue: nodes and threads are only      *)
(* compared for equality.                                                  *)
EXTENDS SimpleMSQueue, TLC

Symmetry == Permutations(Nodes) \union Permutations(Producers) \union Permutations(Consumers)

=============================================================================
