SPECIFICATION Spec
CONSTANTS
  Sessions = {s1}
  Tenants = {tn1, tn2}
  Requests = {r1, r2}
  Daemon = daemon
  Deleter = deleter
  None = None
  Ops = {"create", "stop", "resume", "destroy", "exec", "stream", "file"}
  MaxConcurrent = 1
  DockerFails = FALSE
  CanCrash = TRUE
INVARIANTS
  RunningHasContainerId
  TenantIsolation
  DestroyedIsClean
PROPERTIES
  ReconcileHeals
SYMMETRY Symmetry
