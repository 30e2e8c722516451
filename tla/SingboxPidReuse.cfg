\* The kernel may recycle a pid while Stop is waiting on it.
SPECIFICATION Spec
CONSTANTS
  Req = {r1}
  Pid = {p1, p2}
  Config = {good}
  Valid = {good}
  NoReq = NoReq
  NoPid = NoPid
  NoConfig = NoConfig
  PidReuseInCall = TRUE
  BinMayVanish = FALSE
INVARIANT SignalsOnlyOurs
