------------------------------- MODULE MCAudit -------------------------------
(***************************************************************************)
(* Audit on small sets.  Operations are told apart by their kind only.     *)
(***************************************************************************)
EXTENDS Audit

=============================================================================
