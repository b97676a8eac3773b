------------------------- MODULE MCSessionLifecycle -------------------------
(***************************************************************************)
(* SessionLifecycle on small sets.  Session ids and request slots are      *)
(* interchangeable, so the safety runs explore one of each permutation.    *)
(***************************************************************************)
EXTENDS SessionLifecycle, TLC

Symmetry == Permutations(Sessions) \cup Permutations(Requests)

=============================================================================
