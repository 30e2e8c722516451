\* Requests racing for ports, users and outbounds, with every disturbance.
\* The number of requests is bounded, so behaviours end.
SPECIFICATION FairSpec
CONSTANTS
  Req = {r1, r2}
  Iid = {i1, i2}
  Uid = {u1}
  Oid = {o1}
  Port = {p0, p1, p2}
  Reserved = {p0}
  Val = {v1}
  Absent = Absent
  NoOut = NoOut
  Manual = Manual
  NoReq = NoReq
  MaxRequests = 2
  Disturbed = TRUE
CHECK_DEADLOCK FALSE
INVARIANTS
  TypeOK
  ReferencesExist
  PortsDistinct
  QuietInSync
PROPERTY EventuallyInSync
