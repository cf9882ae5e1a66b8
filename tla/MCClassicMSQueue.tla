------------------------- MODULE MCClassicMSQueue -------------------------
(* Symmetry for the run of ClassicMSQueue: nodes and threads are only      *)
(* compared for equality.                                                  *)
EXTENDS ClassicMSQueue, TLC

Symmetry == Permutations(Nodes) \union Permutations(Producers) \union Permutations(Consumers)

===========================================================================
