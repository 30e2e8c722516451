------------------------------ MODULE Throttle ------------------------------
(***************************************************************************)
(* The login throttle (backend/internal/auth/throttle.go): what Allow,     *)
(* Fail and Reset do to the map of entries.  Each runs under Throttle.mu,  *)
(* and Allow and Fail first drop the entries that have lapsed, at most     *)
(* once per GcPeriod.                                                      *)
(***************************************************************************)
EXTENDS Integers, FiniteSets

CONSTANTS Key,         \* client addresses
          NoEntry,
          MaxFailures, Window, Block, MaxKeys, GcPeriod \* max, window, block, maxKeys, gcPeriod

\* The panel locks out for as long as it remembers; the tests for less.
ASSUME ThrottleAssumption ==
  /\ IsFiniteSet(Key) /\ MaxKeys \in Nat
  /\ MaxFailures \in Nat \ {0} /\ GcPeriod \in Nat
  /\ Window \in Nat /\ Block \in 0..Window

Entry == [failures : 0..(MaxFailures - 1), last : Nat, blocked : Nat]

ASSUME NoEntryAssumption == NoEntry \notin Entry

Tracked(es) == {k \in Key : es[k] # NoEntry}

Refused(es, k, now) == es[k] # NoEntry /\ now < es[k].blocked

Lapsed(es, k, now) == ~Refused(es, k, now) /\ es[k] # NoEntry /\ now - es[k].last > Window

\* gcLocked
GcDue(now, lastGC) == now - lastGC >= GcPeriod
Collect(es, now, lastGC) ==
  IF GcDue(now, lastGC)
  THEN [k \in Key |-> IF Lapsed(es, k, now) THEN NoEntry ELSE es[k]]
  ELSE es

\* Faulty... definitions are plausible bugs for the mutation runs, used by no action.
FaultyRecorded(es, k) == es[k] # NoEntry \/ Cardinality(Tracked(es)) <= MaxKeys

\* With the map full a failure of a new key is not recorded.
Recorded(es, k) == es[k] # NoEntry \/ Cardinality(Tracked(es)) < MaxKeys

FaultyFail(e, now) == \* stale failures are not forgotten
  LET n == IF e = NoEntry THEN 1 ELSE e.failures + 1 IN
  IF n >= MaxFailures
  THEN [failures |-> 0, last |-> now, blocked |-> now + Block]
  ELSE [failures |-> n, last |-> now, blocked |-> IF e = NoEntry THEN 0 ELSE e.blocked]

FaultyFailBlock(e, now) == \* an entry is built anew, its lockout with it
  LET n == IF e = NoEntry \/ now - e.last > Window THEN 1 ELSE e.failures + 1 IN
  [failures |-> n % MaxFailures, last |-> now, blocked |-> IF n = MaxFailures THEN now + Block ELSE 0]

\* The entry after one more failure: the last of MaxFailures starts a lockout.
Fail(e, now) ==
  LET n == IF e = NoEntry \/ now - e.last > Window THEN 1 ELSE e.failures + 1 IN
  IF n >= MaxFailures
  THEN [failures |-> 0, last |-> now, blocked |-> now + Block]
  ELSE [failures |-> n, last |-> now, blocked |-> IF e = NoEntry THEN 0 ELSE e.blocked]
=============================================================================
