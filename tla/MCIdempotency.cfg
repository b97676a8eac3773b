SPECIFICATION FairSpec
CONSTANTS
  Requests = {q1, q2, q3}
  Keys = {k1}
  Routes = {create, exec}
  None = None
  Outcomes = {"ok", "error", "stream", "raise"}
  CanExpire = TRUE
  CanCrash = TRUE
CHECK_DEADLOCK FALSE
INVARIANTS
  TypeOK
  DuplicateNeedsMiss
  ReplayIsFaithful
PROPERTIES
  RequestsAnswered
