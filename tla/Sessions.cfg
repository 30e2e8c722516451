\* Logins from two addresses against password changes that do not overlap.
SPECIFICATION Spec
CONSTANTS
  Req = {r1, r2}
  Key = {k1, k2}
  Password = {a, b}
  NoPassword = NoPassword
  NoEntry = NoEntry
  NoKey = NoKey
  MaxFailures = 2
  Window = 2
  Block = 2
  MaxKeys = 1
  GcPeriod = 2
  Overlap = FALSE
  MaxVersion = 3
  MaxTime = 5
SYMMETRY Symmetry
INVARIANTS
  TypeOK
  SessionsCurrent
  LockoutHolds
  LockoutJustified
PROPERTY RevokedForGood
