\* One caller, two pids and one config.
SPECIFICATION Spec
CONSTANTS
  Req = {r1}
  Pid = {p1, p2}
  Config = {good}
  Valid = {good}
  NoReq = NoReq
  NoPid = NoPid
  NoConfig = NoConfig
  PidReuseInCall = FALSE
  BinMayVanish = FALSE
INVARIANT NoDuplicateStart
