SPECIFICATION Spec
CONSTANTS
  Sessions = {s1, s2}
  Tenants = {tn1}
  Requests = {r1, r2}
  Daemon = daemon
  Deleter = deleter
  None = None
  Ops = {"create", "resume", "destroy"}
  MaxConcurrent = 1
  DockerFails = TRUE
  CanCrash = TRUE
INVARIANTS
  TypeOK
  LockDiscipline
  ObjectsHaveRows
  RunningHasContainerId
PROPERTIES
  ImplementsSessionRow
SYMMETRY Symmetry
