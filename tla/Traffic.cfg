\* Connections that come and go, failing writes, resets, deletions, a restart.
\* The bounds end every behaviour, and so does the panel's last shutdown.
SPECIFICATION FairSpec
CONSTANTS
  Cid = {c1}
  Uid = {u1, u2}
  NoUser = NoUser
  Absent = Absent
  MaxBytes = 2
  MaxOpens = 2
  Restarts = 1
CHECK_DEADLOCK FALSE
INVARIANTS
  TypeOK
  Accounted
PROPERTIES
  CountersOnlyGrow
  TrafficStored
