\* The panel is restarted while a connection stays open.
\* The bounds end every behaviour, and so does the panel's shutdown.
SPECIFICATION Spec
CONSTANTS
  Cid = {c1}
  Uid = {u1}
  NoUser = NoUser
  Absent = Absent
  MaxBytes = 1
  MaxOpens = 1
  Restarts = 1
CHECK_DEADLOCK FALSE

INVARIANT NeverOverCounted
