SPECIFICATION Spec
CONSTANTS
  Requests = {q1, q2, q3}
  Keys = {k1}
  Routes = {exec}
  None = None
  Outcomes = {"ok", "error"}
  CanExpire = FALSE
  CanCrash = FALSE
CHECK_DEADLOCK FALSE
INVARIANTS
  OneInFlight
