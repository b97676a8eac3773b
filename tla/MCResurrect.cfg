SPECIFICATION Spec
CONSTANTS
  Sessions = {s1}
  Tenants = {tn1}
  Requests = {r1, r2}
  Daemon = daemon
  Deleter = deleter
  None = None
  Ops = {"create", "stop", "destroy", "exec"}
  MaxConcurrent = 1
  DockerFails = FALSE
  CanCrash = FALSE
PROPERTIES
  DestroyedIsFinal
SYMMETRY Symmetry
