\* Two password changes may be under way at once.
SPECIFICATION Spec
CONSTANTS
  Req = {r1, r2}
  Key = {k1}
  Password = {a, b, c}
  NoPassword = NoPassword
  NoEntry = NoEntry
  NoKey = NoKey
  MaxFailures = 1
  Window = 0
  Block = 0
  MaxKeys = 1
  GcPeriod = 0
  Overlap = TRUE
  MaxVersion = 3
  MaxTime = 0
SYMMETRY Symmetry
INVARIANT SessionsCurrent
