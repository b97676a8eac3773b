---------------------------- MODULE MCIdempotency ----------------------------
(***************************************************************************)
(* Idempotency on small sets.  Keys do not interact, so one key is enough. *)
(***************************************************************************)
EXTENDS Idempotency, TLC

Symmetry == Permutations(Requests)

=============================================================================
