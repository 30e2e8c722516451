\* Two callers, two pids, two valid configs and a refused one; liveness, so no symmetry.
SPECIFICATION FairSpec
CONSTANTS
  Req = {r1, r2}
  Pid = {p1, p2}
  Config = {old, new, bad}
  Valid = {old, new}
  NoReq = NoReq
  NoPid = NoPid
  NoConfig = NoConfig
  PidReuseInCall = FALSE
  BinMayVanish = FALSE
INVARIANTS
  TypeOK
  ManagedIsOurs
  SignalsOnlyOurs
  NoSecondSingbox
  NoLostSingbox
  SuccessMeansInForce
  RefusedConfigLeavesProcess
PROPERTIES
  CallsReturn
  CrashNoticed
  ImplementsContract
