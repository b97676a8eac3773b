----------------------------- MODULE SessionRow -----------------------------
(***************************************************************************)
(* What the registry promises of a session's row: it is inserted once as   *)
(* CREATING, it moves along TRANSITIONS only, DESTROYED is final, and the  *)
(* one exception (any row that is not terminal forced to STOPPED) is made  *)
(* while the control plane starts, before it serves requests.              *)
(***************************************************************************)
EXTENDS SessionStatus

CONSTANT Sessions

VARIABLES status,   \* status[s]: the status of the row of s, or "absent"
          serving   \* TRUE when the control plane accepts requests

rowVars == <<status, serving>>

Init ==
  /\ status = [s \in Sessions |-> "absent"]
  /\ serving = TRUE

Insert(s) ==
  /\ status[s] = "absent"
  /\ status' = [status EXCEPT ![s] = "CREATING"]
  /\ UNCHANGED serving

Move(s, to) ==
  /\ Allowed(status[s], to)
  /\ status' = [status EXCEPT ![s] = to]
  /\ UNCHANGED serving

Orphan(s) ==
  /\ ~serving
  /\ status[s] \in Statuses \ Terminal
  /\ status' = [status EXCEPT ![s] = "STOPPED"]
  /\ UNCHANGED serving

Restart ==
  /\ serving' \in BOOLEAN
  /\ UNCHANGED status

Next ==
  \/ \E s \in Sessions : Insert(s) \/ Orphan(s)
  \/ \E s \in Sessions, to \in Statuses : Move(s, to)
  \/ Restart

Spec == Init /\ [][Next]_rowVars

=============================================================================
