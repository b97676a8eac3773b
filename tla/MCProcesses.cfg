SPECIFICATION Spec
CONSTANTS
  Procs = {p1, p2}
  Pids = {n1, n2}
  Requests = {r1, r2}
  None = None
  Cap = 1
  DockerFails = TRUE
  CanCrash = TRUE
CHECK_DEADLOCK FALSE
INVARIANTS
  TypeOK
  NoLiveProcessWrittenOff
  CodeIsOwn
PROPERTIES
  ExitIsFinal
SYMMETRY Symmetry
