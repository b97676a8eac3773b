--------------------------- MODULE MCOrphanReaper ---------------------------
(* Instances of OrphanReaper for TLC. *)
EXTENDS OrphanReaper

CONSTANTS s1, s2

\* The container of one session cannot be removed.
OneStuck == {<<"container", s1>>}

=============================================================================
