SPECIFICATION FairSpec
CONSTANTS
  Sessions = {s1}
  Tenants = {tn1}
  Requests = {r1}
  Daemon = daemon
  Deleter = deleter
  None = None
  Ops = {"create", "stop", "resume", "destroy", "exec", "stream", "file", "delete_tenant"}
  MaxConcurrent = 1
  DockerFails = FALSE
  CanCrash = FALSE
PROPERTIES
  ExpiredIsDestroyed
  RequestsFinish
