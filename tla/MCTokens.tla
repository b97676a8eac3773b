------------------------------- MODULE MCTokens -------------------------------
(***************************************************************************)
(* Tokens on small sets: the two rows of the environment's bearers and the *)
(* rows that rotations and issues make, which are alike.                   *)
(***************************************************************************)
EXTENDS Tokens, TLC

Symmetry == Permutations(Tokens \ {ApiToken, AdminToken}) \cup Permutations(Requests)

=============================================================================
