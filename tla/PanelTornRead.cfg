\* A user is moved to another outbound and the old one deleted while the
\* tables are being read.
SPECIFICATION Spec
CONSTANTS
  Req = {r1, r2, r3}
  Iid = {i1}
  Uid = {u1}
  Oid = {o1, o2}
  Port = {p1}
  Reserved = {}
  Val = {v1}
  Absent = Absent
  NoOut = NoOut
  Manual = Manual
  NoReq = NoReq
  MaxRequests = 3
  Disturbed = FALSE
CHECK_DEADLOCK FALSE
SYMMETRY Symmetry
INVARIANT EgressKept
