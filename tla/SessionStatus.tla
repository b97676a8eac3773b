--------------------------- MODULE SessionStatus ---------------------------
(***************************************************************************)
(* The status column of a row of the sessions table and the moves between  *)
(* two statuses that the registry accepts.  "absent" stands for a session  *)
(* id that has no row yet.                                                 *)
(***************************************************************************)

Statuses ==
  {"CREATING", "RUNNING", "IDLE", "STOPPED", "DESTROYING", "DESTROYED"}

TRANSITIONS ==
  [CREATING   |-> {"RUNNING", "DESTROYING"},
   RUNNING    |-> {"IDLE", "STOPPED", "DESTROYING"},
   IDLE       |-> {"RUNNING", "STOPPED", "DESTROYING"},
   STOPPED    |-> {"RUNNING", "DESTROYING"},
   DESTROYING |-> {"DESTROYED"},
   DESTROYED  |-> {}]

Allowed(from, to) == from \in Statuses /\ to \in TRANSITIONS[from]

\* The rows that list_idle_running, stop and reap_stop look for.
Active == {"RUNNING", "IDLE"}

\* The rows that count_concurrent, list_expired and list_non_terminal leave out.
Terminal == {"DESTROYING", "DESTROYED"}

=============================================================================
