------------------------- MODULE MCInMemoryRefinement -------------------------
(* TLC instance of InMemoryRefinement. *)
EXTENDS InMemoryRefinement, TLC

Symmetry == Permutations(Workers) \cup Permutations(Users)
=============================================================================
