SPECIFICATION FairSpec
CONSTANTS
  Guarded = {g1, g2}
  Background = {b1}
  Heartbeat = heartbeat
  CanCrash = TRUE
  MaxLines = 2
INVARIANTS
  TypeOK
  HealthyIsDrained
  NoRecordLost
  TimelineOrdered
PROPERTIES
  AuditRecovers
