--------------------------- MODULE Sessions_proofs ---------------------------
(***************************************************************************)
(* Proofs about Sessions for any number of goroutines, addresses and       *)
(* passwords and any limits of the throttle.  Two invariants carry them:   *)
(* RowInv says what a handler that has read the admin row may still rely   *)
(* on, KeyInv how an entry of the throttle summarises the last MaxFailures *)
(* failures of its key.                                                    *)
(***************************************************************************)
EXTENDS Sessions, FiniteSetTheorems, SequenceTheorems, TLAPS

USE ThrottleAssumption, NoEntryAssumption, SessionsAssumption
DEF ThrottleAssumption, NoEntryAssumption, SessionsAssumption

\* What the program counter says about the request.
ReqInv ==
  \A r \in Req :
    /\ pc[r] \in {"login", "compare"} => req[r].key \in Key
    /\ pc[r] \in {"compare", "write"} => req[r].ver \in 1..MaxVersion /\ req[r].pw \in Password
    /\ pc[r] \in {"change", "write"} => req[r].new \in Password
    /\ pc[r] = "write" => req[r].ver < MaxVersion

\* A row as it is now, or one that has been overtaken.
Seen(ver, pw) == ver <= version /\ (ver = version => pw = password)

\* While password changes do not overlap: a cookie or a login holds a row that
\* is current or older, and a change about to write holds the current one.
RowInv ==
  /\ \A q, r \in Changing : q = r
  /\ \A c \in cookies : Seen(c.ver, c.pw)
  /\ \A r \in Req : pc[r] = "compare" => Seen(req[r].ver, req[r].pw)
  /\ \A r \in Req : pc[r] = "write" => req[r].ver = version

Gap(f, i) == f[i + 1] - f[i]

\* The entry e of a key and its history f at time t.  The entry's failures are
\* the end of f; what precedes them is nothing, a gap, or a lockout.
KeyInv(e, f, t) ==
  /\ \A i, j \in 1..Len(f) : i <= j => f[i] <= f[j]
  /\ \A i \in 1..Len(f) : f[i] <= t
  /\ e = NoEntry /\ Len(f) > 0 => t - f[Len(f)] > Window
  /\ e # NoEntry =>
       LET n == Len(f)
           s == n - e.failures
       IN /\ n > 0 /\ s \in Nat /\ f[n] = e.last /\ e.blocked <= e.last + Block
          /\ \A i \in (s + 1)..(n - 1) : Gap(f, i) <= Window
          /\ s = 0 \/ (s < n /\ Gap(f, s) > Window) \/ e.blocked >= f[s] + Block
          /\ t < e.blocked => InARow(f)

KeysInv == \A k \in Key : KeyInv(entries[k], fails[k], now)

(* The invariant, by the halves of the state, which few steps both change. *)

RowTyped ==
  /\ password \in Password /\ version \in 1..MaxVersion /\ cookies \subseteq Cookie
  /\ pc \in [Req -> {"idle", "login", "compare", "change", "write"}]
  /\ req \in [Req -> Request]

ThrottleTyped ==
  /\ entries \in [Key -> Entry \cup {NoEntry}] /\ lastGC \in -GcPeriod..MaxTime
  /\ now \in 0..MaxTime
  /\ fails \in [Key -> Seq(Nat)] /\ \A k \in Key : Len(fails[k]) <= MaxFailures
  /\ Cardinality(Tracked(entries)) <= MaxKeys

RowHalf == RowTyped /\ ReqInv /\ (~Overlap => RowInv)
ThrottleHalf == ThrottleTyped /\ KeysInv

IInv == RowHalf /\ ThrottleHalf

-----------------------------------------------------------------------------
(* The throttle.                                                           *)

\* The history after one more failure: it ends in it, and begins one later when full.
LEMMA LoggedProperties ==
  ASSUME NEW f \in Seq(Nat), Len(f) <= MaxFailures, NEW t \in Nat
  PROVE  LET g == Logged(f, t)
             d == IF Len(f) < MaxFailures THEN 0 ELSE 1
         IN /\ g \in Seq(Nat) /\ Len(g) \in 1..MaxFailures
            /\ Len(g) = Len(f) + 1 - d /\ g[Len(g)] = t
            /\ \A i \in 1..(Len(g) - 1) : g[i] = f[i + d]
<1>0. Len(f) \in Nat
  BY LenProperties
<1>1. CASE Len(f) < MaxFailures
  <2>1. Logged(f, t) = Append(f, t)
    BY <1>1 DEF Logged
  <2> QED BY <1>0, <1>1, <2>1, AppendProperties
<1>2. CASE Len(f) >= MaxFailures
  <2> DEFINE h == Tail(f)
  <2>1. Logged(f, t) = Append(h, t)
    BY <1>0, <1>2 DEF Logged
  <2>2. f # <<>> /\ h \in Seq(Nat) /\ Len(h) = Len(f) - 1 /\ \A i \in 1..Len(h) : h[i] = f[i + 1]
    BY <1>0, <1>2, HeadTailProperties
  <2> HIDE DEF h
  <2>3. /\ Append(h, t) \in Seq(Nat) /\ Len(Append(h, t)) = Len(f)
        /\ \A i \in 1..(Len(f) - 1) : Append(h, t)[i] = f[i + 1]
        /\ Append(h, t)[Len(f)] = t
    BY SMTT(20), <1>0, <2>2, AppendProperties
  <2> QED BY <1>0, <1>2, <2>1, <2>3
<1> QED BY <1>0, <1>1, <1>2

\* Dropping a lapsed entry loses nothing: the next failure would start over anyway.
LEMMA CollectKey ==
  ASSUME NEW k \in Key, NEW es \in [Key -> Entry \cup {NoEntry}], NEW t \in Nat, NEW l \in Int,
         NEW f \in Seq(Nat), KeyInv(es[k], f, t)
  PROVE  KeyInv(Collect(es, t, l)[k], f, t)
<1>1. CASE Collect(es, t, l)[k] = es[k]
  BY <1>1
<1>2. CASE Collect(es, t, l)[k] # es[k]
  <2>1. Lapsed(es, k, t) /\ Collect(es, t, l)[k] = NoEntry
    BY <1>2 DEF Collect
  <2>2. t - f[Len(f)] > Window
    BY <2>1 DEF Lapsed, KeyInv
  <2> QED BY <2>1, <2>2 DEF KeyInv
<1> QED BY <1>1, <1>2

\* An entry keeps summarising its key's history when a failure is added to both.
LEMMA FailKey ==
  ASSUME NEW e \in Entry \cup {NoEntry}, NEW f \in Seq(Nat), Len(f) <= MaxFailures,
         NEW t \in Nat, KeyInv(e, f, t)
  PROVE  Fail(e, t) \in Entry /\ KeyInv(Fail(e, t), Logged(f, t), t)
<1> DEFINE g == Logged(f, t)
           n == Len(f)
           N == Len(g)
           d == IF n < MaxFailures THEN 0 ELSE 1
           x == Fail(e, t)
           c == e.failures
           fresh == e # NoEntry /\ t - e.last <= Window
           m == IF fresh THEN c + 1 ELSE 1
<1>0. /\ d \in Nat /\ N = n + 1 - d /\ (d # 0 => d = 1 /\ N = MaxFailures)
      /\ \A i \in 1..(N - 1) : g[i] = f[i + d]
  <2>1. N = n + 1 - d /\ \A i \in 1..(N - 1) : g[i] = f[i + d]
    BY LoggedProperties
  <2>2. n \in Nat /\ n <= MaxFailures
    BY LenProperties
  <2> QED BY <2>1, <2>2
<1>1. g \in Seq(Nat) /\ N \in 1..MaxFailures /\ n \in Nat /\ n <= MaxFailures /\ g[N] = t
  BY LoggedProperties, LenProperties
<1>2. \A i \in 1..n : f[i] \in Nat
  BY ElementOfSeq
<1>3. e # NoEntry => c \in 0..(MaxFailures - 1) /\ e.last \in Nat /\ e.blocked \in Nat
  BY DEF Entry
<1>4. /\ \A i, j \in 1..n : i <= j => f[i] <= f[j]
      /\ \A i \in 1..n : f[i] <= t
      /\ e = NoEntry /\ n > 0 => t - f[n] > Window
  BY DEF KeyInv
<1>e. e # NoEntry =>
        LET s == n - c
        IN /\ n > 0 /\ s \in Nat /\ f[n] = e.last /\ e.blocked <= e.last + Block
           /\ \A i \in (s + 1)..(n - 1) : Gap(f, i) <= Window
           /\ s = 0 \/ (s < n /\ Gap(f, s) > Window) \/ e.blocked >= f[s] + Block
           /\ t < e.blocked => InARow(f)
  BY DEF KeyInv
<1>f. fresh => e # NoEntry /\ t - e.last <= Window /\ c \in Nat
  BY <1>3
<1>5. /\ x = IF m >= MaxFailures
             THEN [failures |-> 0, last |-> t, blocked |-> t + Block]
             ELSE [failures |-> m, last |-> t, blocked |-> IF e = NoEntry THEN 0 ELSE e.blocked]
      /\ m \in 1..MaxFailures
  BY SMTT(20), <1>3 DEF Fail
<1>6. x \in Entry /\ x # NoEntry
  BY SMTT(20), <1>3, <1>5 DEF Entry
<1>7. ~fresh /\ n > 0 => t - f[n] > Window
  BY <1>4, <1>3, <1>e
<1>8. fresh => m - 1 <= n /\ m - 1 = c
  BY SMTT(20), <1>3, <1>e
<1> HIDE DEF c, g, x, m, n, N, d, fresh
<1>9. \A i \in 1..N : i = N \/ (i \in 1..(N - 1) /\ i + d \in 1..n /\ g[i] = f[i + d])
  <2> SUFFICES ASSUME NEW i \in 1..N, i # N
               PROVE  i \in 1..(N - 1) /\ i + d \in 1..n
    BY <1>0
  <2> QED BY <1>0, <1>1
<1>a. \A i \in 1..N : g[i] <= t /\ g[i] \in Nat
  <2> SUFFICES ASSUME NEW i \in 1..N
               PROVE  g[i] <= t /\ g[i] \in Nat
    OBVIOUS
  <2>1. CASE i = N
    BY <1>1, <2>1
  <2>2. CASE i + d \in 1..n /\ g[i] = f[i + d]
    BY <1>2, <1>4, <2>2
  <2> QED BY <1>9, <2>1, <2>2
<1>b. \A i, j \in 1..N : i <= j => g[i] <= g[j]
  <2> SUFFICES ASSUME NEW i \in 1..N, NEW j \in 1..N, i <= j
               PROVE  g[i] <= g[j]
    OBVIOUS
  <2>1. CASE j = N
    BY <1>a, <1>1, <2>1
  <2>2. CASE j # N
    <3>1. i # N
      BY <2>2, <1>1
    <3>2. i + d \in 1..n /\ j + d \in 1..n /\ i + d <= j + d /\ g[i] = f[i + d] /\ g[j] = f[j + d]
      BY <3>1, <2>2, <1>9, <1>1, <1>0
    <3> QED BY <3>2, <1>4
  <2> QED BY <2>1, <2>2
\* The m failures that end g are in a row.
<1>10. m <= N /\ \A i \in (N - m + 1)..(N - 1) : Gap(g, i) <= Window
  <2>1. m <= N
    BY <1>0, <1>1, <1>5, <1>8 DEF m
  <2>2. ASSUME NEW i \in (N - m + 1)..(N - 1)
        PROVE  Gap(g, i) <= Window
    <3>1. fresh /\ m = c + 1 /\ c <= n /\ i \in 1..(N - 1)
      BY <2>1, <1>1, <1>5, <1>8 DEF m
    <3>2. g[i] = f[i + d] /\ i + d \in 1..n
      BY <3>1, <1>1, <1>9
    <3>3. CASE i = N - 1
      <4>1. i + d = n /\ i + 1 = N
        BY <3>3, <1>0, <1>1
      <4>2. g[i] = e.last
        BY <3>1, <3>2, <4>1, <1>e, <1>f
      <4> QED BY <3>1, <4>1, <4>2, <1>1, <1>f DEF Gap
    <3>4. CASE i # N - 1
      <4>1. i + 1 \in 1..N /\ i + 1 # N /\ i + d \in (n - c + 1)..(n - 1) /\ (i + 1) + d = (i + d) + 1
        BY SMTT(20), <3>1, <3>4, <1>0, <1>1, <1>f, <2>1
      <4>2. g[i + 1] = f[(i + d) + 1]
        BY <4>1, <1>9
      <4>3. Gap(f, i + d) <= Window
        BY <3>1, <4>1, <1>e, <1>f
      <4> QED BY <3>2, <4>2, <4>3 DEF Gap
    <3> QED BY <3>3, <3>4
  <2> QED BY <2>1, <2>2
\* What precedes them.
<1>11. LET s == N - m
       IN s = 0 \/ (s \in 1..(N - 1) /\ Gap(g, s) > Window) \/ (s \in 1..(N - 1) /\ e # NoEntry /\ e.blocked >= g[s] + Block)
  <2> DEFINE s == N - m
  <2> SUFFICES ASSUME s # 0
               PROVE  s \in 1..(N - 1) /\ (Gap(g, s) > Window \/ (e # NoEntry /\ e.blocked >= g[s] + Block))
    OBVIOUS
  <2>1. s \in 1..(N - 1) /\ s + d \in 1..n /\ g[s] = f[s + d]
    BY <1>1, <1>5, <1>9, <1>10
  <2>2. CASE ~fresh
    <3>1. m = 1 /\ s = N - 1 /\ s + d = n /\ n > 0 /\ s + 1 = N
      BY <2>1, <2>2, <1>0, <1>1 DEF m
    <3> QED BY <2>1, <2>2, <3>1, <1>1, <1>7 DEF Gap
  <2>3. CASE fresh
    <3> DEFINE v == n - c
    <3>0. c \in Nat /\ m = c + 1
      BY <2>3, <1>f DEF m
    <3>1. s + d = v /\ v # 0
      BY <3>0, <2>1, <1>0, <1>1
    <3>2. (v < n /\ Gap(f, v) > Window) \/ e.blocked >= f[v] + Block
      BY <2>3, <3>1, <1>e, <1>f
    <3>3. CASE e.blocked >= f[v] + Block
      BY <2>1, <2>3, <3>1, <3>3, <1>f
    <3>4. CASE v < n /\ Gap(f, v) > Window
      <4>1. s + 1 \in 1..N /\ s + 1 # N /\ (s + 1) + d = v + 1
        BY <2>1, <3>0, <3>1, <3>4, <1>0, <1>1
      <4>2. g[s + 1] = f[v + 1]
        BY <4>1, <1>9
      <4> QED BY <2>1, <3>1, <3>4, <4>2 DEF Gap
    <3> QED BY <3>2, <3>3, <3>4
  <2> QED BY <2>2, <2>3
<1>12. x.failures \in 0..m /\ x.last = t /\ x.blocked <= t + Block
  <2>1. ASSUME e # NoEntry
        PROVE  e.blocked <= t + Block
    <3>1. n \in 1..n /\ f[n] = e.last /\ e.blocked <= e.last + Block
      BY <1>1, <1>e, <2>1
    <3>2. e.last <= t
      BY <3>1, <1>4
    <3> QED BY <3>1, <3>2, <1>3, <2>1
  <2> QED BY <2>1, <1>3, <1>5
<1>13. LET s == N - x.failures
       IN s = 0 \/ (s < N /\ Gap(g, s) > Window) \/ x.blocked >= g[s] + Block
  <2>1. CASE m >= MaxFailures
    BY <2>1, <1>1, <1>5
  <2>2. CASE m < MaxFailures
    BY <2>2, <1>1, <1>3, <1>5, <1>11
  <2> QED BY <2>1, <2>2, <1>5, <1>1
<1>14. t < x.blocked => InARow(g)
  <2>1. CASE m = MaxFailures
    BY <2>1, <1>1, <1>10 DEF InARow, Gap, N
  <2>2. ASSUME m < MaxFailures, t < x.blocked
        PROVE  InARow(g)
    <3>1. e # NoEntry /\ x.blocked = e.blocked
      BY <2>2, <1>1, <1>5
    <3>2. n = MaxFailures /\ (\A i \in 1..(n - 1) : Gap(f, i) <= Window) /\ t - f[n] <= Window
      <4>1. InARow(f) /\ t < e.blocked /\ e.blocked <= e.last + Block /\ f[n] = e.last
        BY <2>2, <3>1, <1>e
      <4>2. t - f[n] <= Window
        BY <4>1, <3>1, <1>3
      <4> QED BY <4>1, <4>2 DEF InARow, Gap, n
    <3>3. N = n /\ d = 1
      BY <3>2, <1>0, <1>1
    <3>4. ASSUME NEW i \in 1..(N - 1)
          PROVE  Gap(g, i) <= Window
      <4>1. g[i] = f[i + 1]
        BY <3>3, <1>0
      <4>2. CASE i = N - 1
        BY <4>1, <4>2, <3>2, <3>3, <1>1 DEF Gap
      <4>3. CASE i # N - 1
        <5>1. i + 1 \in 1..(N - 1) /\ i + 1 \in 1..(n - 1)
          BY <4>3, <3>3, <1>1
        <5>2. g[i + 1] = f[(i + 1) + 1]
          BY <5>1, <3>3, <1>0
        <5> QED BY <4>1, <5>1, <5>2, <3>2 DEF Gap
      <4> QED BY <4>2, <4>3
    <3> QED BY <3>2, <3>3, <3>4 DEF InARow, Gap, N
  <2> QED BY <2>1, <2>2, <1>1, <1>5
<1> QED
  <2>1. /\ N > 0 /\ N - x.failures \in Nat
        /\ \A i \in (N - x.failures + 1)..(N - 1) : Gap(g, i) <= Window
    BY <1>1, <1>10, <1>12, <1>5
  <2>2. KeyInv(x, g, t)
    BY <2>1, <1>1, <1>6, <1>a, <1>b, <1>12, <1>13, <1>14 DEF KeyInv, N
  <2> QED BY <1>6, <2>2 DEF g, x

\* The map of entries after gcLocked.
LEMMA CollectType ==
  ASSUME NEW es \in [Key -> Entry \cup {NoEntry}], NEW t \in Int, NEW l \in Int,
         Cardinality(Tracked(es)) <= MaxKeys
  PROVE  /\ Collect(es, t, l) \in [Key -> Entry \cup {NoEntry}]
         /\ IsFiniteSet(Tracked(Collect(es, t, l)))
         /\ Cardinality(Tracked(Collect(es, t, l))) \in Nat
         /\ Cardinality(Tracked(Collect(es, t, l))) <= MaxKeys
<1>1. Collect(es, t, l) \in [Key -> Entry \cup {NoEntry}]
  BY DEF Collect
<1>2. Tracked(Collect(es, t, l)) \subseteq Tracked(es) /\ Tracked(es) \subseteq Key
  BY DEF Collect, Tracked
<1>3. IsFiniteSet(Tracked(es))
  BY <1>2, FS_Subset
<1>4. /\ IsFiniteSet(Tracked(Collect(es, t, l)))
      /\ Cardinality(Tracked(Collect(es, t, l))) <= Cardinality(Tracked(es))
  BY <1>2, <1>3, FS_Subset
<1>5. Cardinality(Tracked(Collect(es, t, l))) \in Nat /\ Cardinality(Tracked(es)) \in Nat
  BY <1>3, <1>4, FS_CardinalityType
<1> QED BY <1>1, <1>4, <1>5

\* Forgetting a key, and recording one there is room for, keep the map within maxKeys.
LEMMA ExceptType ==
  ASSUME NEW es \in [Key -> Entry \cup {NoEntry}], NEW k \in Key,
         Cardinality(Tracked(es)) <= MaxKeys,
         NEW e \in Entry \cup {NoEntry}, e = NoEntry \/ Recorded(es, k)
  PROVE  Cardinality(Tracked([es EXCEPT ![k] = e])) <= MaxKeys
<1> DEFINE T == Tracked(es)
           U == Tracked([es EXCEPT ![k] = e])
<1>1. IsFiniteSet(T) /\ Cardinality(T) \in Nat
  BY FS_Subset, FS_CardinalityType DEF Tracked
<1>2. CASE e = NoEntry \/ es[k] # NoEntry
  <2>1. U \subseteq T
    BY <1>2 DEF Tracked
  <2>2. Cardinality(U) <= Cardinality(T) /\ IsFiniteSet(U)
    BY <1>1, <2>1, FS_Subset
  <2>3. Cardinality(U) \in Nat
    BY <2>2, FS_CardinalityType
  <2> HIDE DEF T, U
  <2> QED BY <1>1, <2>2, <2>3 DEF T, U
<1>3. CASE e # NoEntry /\ es[k] = NoEntry
  <2>1. Cardinality(T) < MaxKeys
    BY <1>3 DEF Recorded
  <2>2. U = T \cup {k}
    BY <1>3 DEF Tracked
  <2>3. Cardinality(U) = Cardinality(T) + 1
    BY <1>1, <1>3, <2>2, FS_AddElement DEF Tracked
  <2> QED BY <1>1, <2>1, <2>3
<1> QED BY <1>2, <1>3

-----------------------------------------------------------------------------
(* What the steps of each half have in common.                             *)

\* An empty throttle.
LEMMA EmptyThrottle ==
  ASSUME NEW es, NEW f, NEW t \in Nat, es = [k \in Key |-> NoEntry], f = [k \in Key |-> <<>>]
  PROVE  /\ es \in [Key -> Entry \cup {NoEntry}] /\ Cardinality(Tracked(es)) <= MaxKeys
         /\ f \in [Key -> Seq(Nat)] /\ \A k \in Key : Len(f[k]) <= MaxFailures
         /\ \A k \in Key : KeyInv(es[k], f[k], t)
         /\ -GcPeriod \in -GcPeriod..MaxTime
<1>1. Tracked(es) = {} /\ Cardinality({}) = 0
  BY FS_EmptySet DEF Tracked
<1>2. Cardinality(Tracked(es)) = 0
  BY <1>1
<1>3. \A k \in Key : f[k] = <<>> /\ f[k] \in Seq(Nat) /\ Len(f[k]) = 0
  BY EmptySeq
<1>4. f \in [Key -> Seq(Nat)]
  BY <1>3
<1>5. KeyInv(NoEntry, <<>>, t)
  BY DEF KeyInv
<1>6. \A k \in Key : Len(f[k]) <= MaxFailures /\ KeyInv(es[k], f[k], t)
  BY <1>3, <1>5
<1>7. es \in [Key -> Entry \cup {NoEntry}] /\ Cardinality(Tracked(es)) <= MaxKeys
  BY <1>2
<1> QED BY <1>4, <1>6, <1>7

\* A step that leaves the throttle and its clock alone.
LEMMA ThrottleUnchanged == ThrottleHalf /\ UNCHANGED <<throttle, now>> => ThrottleHalf'
BY DEF ThrottleHalf, ThrottleTyped, KeysInv, throttle

\* Where the collection of entries leaves the clock of the last one.
LEMMA GcType == ThrottleTyped /\ Gc => lastGC' \in -GcPeriod..MaxTime
BY DEF ThrottleTyped, Gc

\* A step that only collects.
LEMMA CollectStep ==
  ASSUME ThrottleHalf, Gc, entries' = Collect(entries, now, lastGC), UNCHANGED <<now, fails>>
  PROVE  ThrottleHalf'
<1>1. now \in Nat /\ now \in Int /\ lastGC \in Int /\ entries \in [Key -> Entry \cup {NoEntry}]
      /\ fails \in [Key -> Seq(Nat)] /\ Cardinality(Tracked(entries)) <= MaxKeys
  BY DEF ThrottleHalf, ThrottleTyped
<1>2. entries' \in [Key -> Entry \cup {NoEntry}] /\ Cardinality(Tracked(entries')) <= MaxKeys
  BY <1>1, CollectType
<1>3. ThrottleTyped'
  BY <1>2, GcType DEF ThrottleHalf, ThrottleTyped
<1>4. ASSUME NEW k \in Key
      PROVE  KeyInv(entries'[k], fails'[k], now')
  <2>1. fails[k] \in Seq(Nat) /\ KeyInv(entries[k], fails[k], now)
    BY <1>1 DEF ThrottleHalf, KeysInv
  <2> QED BY <1>1, <2>1, CollectKey
<1> QED BY <1>3, <1>4 DEF ThrottleHalf, KeysInv

\* A step that gives one key of es, the entries as they are or as collected, a new
\* entry e and history f.
LEMMA KeyStep ==
  ASSUME ThrottleHalf, NEW es \in [Key -> Entry \cup {NoEntry}],
         Cardinality(Tracked(es)) <= MaxKeys, \A k \in Key : KeyInv(es[k], fails[k], now),
         NEW k \in Key, NEW e \in Entry \cup {NoEntry}, e = NoEntry \/ Recorded(es, k),
         NEW f \in Seq(Nat), Len(f) <= MaxFailures, KeyInv(e, f, now),
         entries' = [es EXCEPT ![k] = e], fails' = [fails EXCEPT ![k] = f],
         lastGC' \in -GcPeriod..MaxTime, UNCHANGED now
  PROVE  ThrottleHalf'
<1>1. now \in 0..MaxTime /\ fails \in [Key -> Seq(Nat)]
      /\ \A j \in Key : Len(fails[j]) <= MaxFailures
  BY DEF ThrottleHalf, ThrottleTyped
<1>2. entries' \in [Key -> Entry \cup {NoEntry}] /\ fails' \in [Key -> Seq(Nat)]
  BY <1>1
<1>3. Cardinality(Tracked(entries')) <= MaxKeys
  BY ExceptType
<1>4. \A j \in Key : IF j = k THEN entries'[j] = e /\ fails'[j] = f
                              ELSE entries'[j] = es[j] /\ fails'[j] = fails[j]
  BY <1>1
<1>5. \A j \in Key : Len(fails'[j]) <= MaxFailures
  BY <1>1, <1>4
<1>6. ThrottleTyped'
  BY <1>1, <1>2, <1>3, <1>5 DEF ThrottleTyped
<1>7. ASSUME NEW j \in Key
      PROVE  KeyInv(entries'[j], fails'[j], now')
  <2>1. CASE j = k
    BY <1>4, <2>1
  <2>2. CASE j # k
    BY <1>4, <2>2
  <2> QED BY <2>1, <2>2
<1>8. KeysInv'
  BY <1>7 DEF KeysInv
<1> QED BY <1>6, <1>8 DEF ThrottleHalf

-----------------------------------------------------------------------------
(* The initial state and the steps.                                        *)

\* Nobody is logged in, nothing is under way.
LEMMA InitInv == Init => IInv
<1> SUFFICES ASSUME Init PROVE IInv
  OBVIOUS
<1>1. ThrottleHalf
  <2>1. now \in 0..MaxTime
    BY DEF Init
  <2> QED BY <2>1, EmptyThrottle DEF Init, ThrottleHalf, ThrottleTyped, KeysInv
<1>2. RowTyped
  <2>1. NoRequest \in Request /\ 1 \in 1..MaxVersion
    BY DEF NoRequest, Request
  <2> QED BY <2>1 DEF RowTyped, Init
<1>3. ReqInv /\ RowInv
  BY DEF ReqInv, RowInv, Changing, Init
<1> QED BY <1>1, <1>2, <1>3 DEF IInv, RowHalf

\* Asking the throttle collects lapsed entries and remembers the request.
LEMMA LoginAllowInv == ASSUME IInv, NEW r \in Req, LoginAllow(r) PROVE IInv'
<1>1. ThrottleHalf'
  BY CollectStep DEF IInv, LoginAllow
<1>2. RowHalf'
  <2>1. PICK k \in Key, given \in Password \cup {NoPassword} :
          /\ pc[r] = "idle" /\ UNCHANGED row
          /\ (\/ UNCHANGED <<pc, req>>
              \/ /\ pc' = [pc EXCEPT ![r] = "login"]
                 /\ req' = [req EXCEPT ![r].key = k, ![r].given = given])
    BY DEF LoginAllow
  <2>2. CASE UNCHANGED <<pc, req>>
    BY <2>1, <2>2 DEF IInv, RowHalf, RowTyped, ReqInv, RowInv, Changing, Seen, row
  <2>3. CASE /\ pc' = [pc EXCEPT ![r] = "login"]
             /\ req' = [req EXCEPT ![r].key = k, ![r].given = given]
    <3> DEFINE q == [req[r] EXCEPT !.key = k, !.given = given]
    <3>1. q \in Request /\ q.key = k /\ req' = [req EXCEPT ![r] = q] /\ RowHalf
      BY <2>3 DEF IInv, RowHalf, RowTyped, Request
    <3> HIDE DEF q
    <3>2. RowTyped'
      BY ZenonT(30), <2>1, <2>3, <3>1 DEF RowHalf, RowTyped, row
    <3>3. ReqInv'
      BY <2>1, <2>3, <3>1 DEF RowHalf, RowTyped, ReqInv, row
    <3>4. RowInv => RowInv'
      BY <2>1, <2>3, <3>1 DEF RowHalf, RowTyped, RowInv, Changing, Seen, row
    <3> QED BY <3>1, <3>2, <3>3, <3>4 DEF RowHalf
  <2> QED BY <2>1, <2>2, <2>3
<1> QED BY <1>1, <1>2 DEF IInv

\* What a request reads is the row of the moment.
LEMMA ReadStep ==
  ASSUME RowHalf, NEW r \in Req, NEW to \in {"compare", "write"},
         pc[r] = IF to = "compare" THEN "login" ELSE "change",
         to = "compare" \/ version < MaxVersion,
         pc' = [pc EXCEPT ![r] = to],
         req' = [req EXCEPT ![r].pw = password, ![r].ver = version], UNCHANGED row
  PROVE  RowHalf'
<1> DEFINE q == [req[r] EXCEPT !.pw = password, !.ver = version]
<1>0. req[r] \in Request /\ password \in Password /\ version \in 0..MaxVersion
  BY DEF RowHalf, RowTyped
<1>1. /\ q \in Request /\ q.pw = password /\ q.ver = version /\ req' = [req EXCEPT ![r] = q]
      /\ q.key = req[r].key /\ q.new = req[r].new
  <2>1. q \in Request /\ q.pw = password /\ q.ver = version
    BY <1>0 DEF Request
  <2>2. q.key = req[r].key /\ q.new = req[r].new
    BY <1>0 DEF Request
  <2>3. req' = [req EXCEPT ![r] = q]
    OBVIOUS
  <2> QED BY <2>1, <2>2, <2>3
<1> HIDE DEF q
<1>2. RowTyped'
  BY ZenonT(30), <1>1 DEF RowHalf, RowTyped, row
<1>3. version \in 1..MaxVersion /\ password \in Password
  BY DEF RowHalf, RowTyped
<1>4. ReqInv'
  BY <1>1, <1>3 DEF RowHalf, RowTyped, ReqInv, row
<1>5. RowInv => RowInv'
  BY <1>1, <1>3 DEF RowHalf, RowTyped, RowInv, Changing, Seen, row
<1> QED BY <1>2, <1>4, <1>5 DEF RowHalf

\* A request that ends without writing the row or signing a cookie.
LEMMA FinishStep ==
  ASSUME RowHalf, NEW r \in Req, Finish(r), UNCHANGED row
  PROVE  RowHalf'
<1>1. NoRequest \in Request
  BY DEF NoRequest, Request
<1>2. RowTyped'
  BY <1>1 DEF RowHalf, RowTyped, row, Finish
<1>3. ReqInv'
  BY DEF RowHalf, RowTyped, ReqInv, row, Finish
<1>4. RowInv => RowInv'
  BY DEF RowHalf, RowTyped, RowInv, Changing, Seen, row, Finish
<1> QED BY <1>2, <1>3, <1>4 DEF RowHalf

\* A login reads the row.
LEMMA LoginReadInv == ASSUME IInv, NEW r \in Req, LoginRead(r) PROVE IInv'
<1>1. ThrottleHalf'
  BY ThrottleUnchanged DEF IInv, LoginRead, Read
<1>2. RowHalf'
  BY ReadStep DEF IInv, LoginRead, Read, row
<1> QED BY <1>1, <1>2 DEF IInv

\* A failure is added to the entry and to the history of its key.
LEMMA LoginFailInv == ASSUME IInv, NEW r \in Req, LoginFail(r) PROVE IInv'
<1> DEFINE k == req[r].key
           es == Collect(entries, now, lastGC)
<1>0. RowHalf /\ ThrottleHalf
  BY DEF IInv
<1>1. k \in Key
  BY <1>0 DEF RowHalf, ReqInv, LoginFail
<1>2. now \in Nat /\ now \in Int /\ lastGC \in Int /\ entries \in [Key -> Entry \cup {NoEntry}]
      /\ fails \in [Key -> Seq(Nat)] /\ Cardinality(Tracked(entries)) <= MaxKeys
      /\ Len(fails[k]) <= MaxFailures /\ fails[k] \in Seq(Nat)
  BY <1>0, <1>1 DEF ThrottleHalf, ThrottleTyped
<1>3. es \in [Key -> Entry \cup {NoEntry}] /\ Cardinality(Tracked(es)) <= MaxKeys
  BY <1>2, CollectType
<1>4. \A j \in Key : KeyInv(es[j], fails[j], now)
  BY <1>0, <1>2, CollectKey DEF ThrottleHalf, KeysInv
<1>5. Gc /\ UNCHANGED <<row, now>> /\ Finish(r)
      /\ IF Recorded(es, k)
         THEN /\ entries' = [es EXCEPT ![k] = Fail(es[k], now)]
              /\ fails' = [fails EXCEPT ![k] = Logged(@, now)]
         ELSE entries' = es /\ UNCHANGED fails
  BY DEF LoginFail
<1> HIDE DEF k, es
<1>6. ThrottleHalf'
  <2>1. CASE ~Recorded(es, k)
    BY <1>0, <1>5, <2>1, CollectStep DEF es
  <2>2. CASE Recorded(es, k)
    <3> DEFINE e == Fail(es[k], now)
               f == Logged(fails[k], now)
    <3>1. e \in Entry /\ KeyInv(e, f, now)
      BY <1>1, <1>2, <1>3, <1>4, FailKey
    <3>2. f \in Seq(Nat) /\ Len(f) <= MaxFailures
      BY <1>2, LoggedProperties
    <3>3. entries' = [es EXCEPT ![k] = e] /\ fails' = [fails EXCEPT ![k] = f]
      BY <1>5, <2>2
    <3>4. lastGC' \in -GcPeriod..MaxTime
      BY <1>0, <1>5, GcType DEF ThrottleHalf
    <3> HIDE DEF e, f
    <3> QED BY <1>0, <1>1, <1>3, <1>4, <1>5, <2>2, <3>1, <3>2, <3>3, <3>4, KeyStep
  <2> QED BY <2>1, <2>2
<1>7. RowHalf'
  BY <1>0, <1>5, FinishStep
<1> QED BY <1>6, <1>7 DEF IInv

\* A success empties the entry and the history of its key and signs what was read.
LEMMA LoginOkInv == ASSUME IInv, NEW r \in Req, LoginOk(r) PROVE IInv'
<1> DEFINE k == req[r].key
           c == [ver |-> req[r].ver, pw |-> req[r].pw]
<1>0. RowHalf /\ ThrottleHalf
  BY DEF IInv
<1>1. k \in Key /\ c \in Cookie
  BY <1>0 DEF RowHalf, ReqInv, LoginOk, Cookie
<1>2. entries' = [entries EXCEPT ![k] = NoEntry] /\ fails' = [fails EXCEPT ![k] = <<>>]
      /\ cookies' = cookies \cup {c} /\ Finish(r) /\ UNCHANGED <<password, version, lastGC, now>>
  BY DEF LoginOk
<1>3. ThrottleHalf'
  <2>1. <<>> \in Seq(Nat) /\ Len(<<>>) = 0 /\ Len(<<>>) <= MaxFailures
    BY EmptySeq
  <2>2. KeyInv(NoEntry, <<>>, now)
    BY DEF KeyInv
  <2>3. entries \in [Key -> Entry \cup {NoEntry}] /\ Cardinality(Tracked(entries)) <= MaxKeys
        /\ \A j \in Key : KeyInv(entries[j], fails[j], now)
        /\ lastGC' \in -GcPeriod..MaxTime /\ UNCHANGED now
    BY <1>0, <1>2 DEF ThrottleHalf, ThrottleTyped, KeysInv
  <2> HIDE DEF k
  <2> QED BY <1>0, <1>1, <1>2, <2>1, <2>2, <2>3, KeyStep
<1>4. RowTyped'
  <2>1. NoRequest \in Request
    BY DEF NoRequest, Request
  <2> QED BY <1>0, <1>1, <1>2, <2>1 DEF RowHalf, RowTyped, Finish
<1>5. ReqInv'
  BY <1>0, <1>2 DEF RowHalf, RowTyped, ReqInv, Finish
<1>6. RowInv => RowInv'
  <2> SUFFICES ASSUME RowInv PROVE RowInv'
    OBVIOUS
  <2>1. Seen(c.ver, c.pw)
    BY DEF RowInv, LoginOk
  <2>2. \A d \in cookies' : Seen(d.ver, d.pw)'
    BY <1>2, <2>1 DEF RowInv, Seen
  <2> QED BY <1>0, <1>2, <2>2 DEF RowHalf, RowTyped, RowInv, Changing, Seen, Finish
<1> QED BY <1>0, <1>3, <1>4, <1>5, <1>6 DEF IInv, RowHalf

\* A change of password begins with nothing read yet.
LEMMA ChangeBeginInv == ASSUME IInv, NEW r \in Req, ChangeBegin(r) PROVE IInv'
<1>0. RowHalf /\ ThrottleHalf
  BY DEF IInv
<1>1. ThrottleHalf'
  BY <1>0, ThrottleUnchanged DEF ChangeBegin
<1>2. PICK given \in Password, new \in Password :
        req' = [req EXCEPT ![r].given = given, ![r].new = new]
  BY DEF ChangeBegin
<1>3. pc[r] = "idle" /\ pc' = [pc EXCEPT ![r] = "change"] /\ (Overlap \/ Changing = {}) /\ UNCHANGED row
  BY DEF ChangeBegin
<1> DEFINE q == [req[r] EXCEPT !.given = given, !.new = new]
<1>4. q \in Request /\ q.new = new
  <2>1. req[r] \in Request
    BY <1>0 DEF RowHalf, RowTyped
  <2> QED BY <2>1 DEF Request
<1>5. req' = [req EXCEPT ![r] = q]
  BY <1>2
<1> HIDE DEF q
<1>6. RowTyped'
  BY <1>0, <1>3, <1>4, <1>5 DEF RowHalf, RowTyped, row
<1>7. ReqInv'
  BY <1>0, <1>3, <1>4, <1>5 DEF RowHalf, RowTyped, ReqInv, row
<1>8. ~Overlap /\ RowInv => RowInv'
  BY <1>0, <1>3, <1>5 DEF RowHalf, RowTyped, RowInv, Changing, Seen, row
<1> QED BY <1>0, <1>1, <1>6, <1>7, <1>8 DEF IInv, RowHalf

\* A change of password reads the row.
LEMMA ChangeReadInv == ASSUME IInv, NEW r \in Req, ChangeRead(r) PROVE IInv'
<1>1. ThrottleHalf'
  BY ThrottleUnchanged DEF IInv, ChangeRead, Read
<1>2. RowHalf'
  BY ReadStep DEF IInv, ChangeRead, Read, row
<1> QED BY <1>1, <1>2 DEF IInv

\* A change of password is given up.
LEMMA ChangeRefusedInv == ASSUME IInv, NEW r \in Req, ChangeRefused(r) PROVE IInv'
<1>1. ThrottleHalf'
  BY ThrottleUnchanged DEF IInv, ChangeRefused
<1>2. RowHalf'
  BY FinishStep DEF IInv, ChangeRefused
<1> QED BY <1>1, <1>2 DEF IInv

\* The new row overtakes every cookie and every login under way.
LEMMA ChangeWriteInv == ASSUME IInv, NEW r \in Req, ChangeWrite(r) PROVE IInv'
<1>0. RowHalf /\ ThrottleHalf
  BY DEF IInv
<1>1. ThrottleHalf'
  BY <1>0, ThrottleUnchanged DEF ChangeWrite
<1> DEFINE v == req[r].ver
           p == req[r].new
<1>2. pc[r] = "write" /\ Finish(r) /\ password' = p /\ version' = v + 1
      /\ cookies' = cookies \cup {[ver |-> v + 1, pw |-> p]}
  BY DEF ChangeWrite
<1>3. v \in 1..MaxVersion /\ v < MaxVersion /\ p \in Password /\ NoRequest \in Request
  BY <1>0, <1>2 DEF RowHalf, ReqInv, NoRequest, Request
<1> HIDE DEF v, p
<1>4. v + 1 \in 1..MaxVersion /\ [ver |-> v + 1, pw |-> p] \in Cookie
  BY <1>3 DEF Cookie
<1>5. RowTyped'
  BY <1>0, <1>2, <1>3, <1>4 DEF RowHalf, RowTyped, Finish
<1>6. ReqInv'
  BY <1>0, <1>2 DEF RowHalf, RowTyped, ReqInv, Finish
<1>7. RowInv => RowInv'
  <2> SUFFICES ASSUME RowInv PROVE RowInv'
    OBVIOUS
  <2>1. v = version /\ version' = version + 1 /\ version \in Nat
    BY <1>0, <1>2 DEF RowHalf, RowTyped, RowInv, v
  <2>2. pc' = [pc EXCEPT ![r] = "idle"] /\ req' = [req EXCEPT ![r] = NoRequest]
        /\ pc \in [Req -> {"idle", "login", "compare", "change", "write"}] /\ req \in [Req -> Request]
    BY <1>0, <1>2 DEF Finish, RowHalf, RowTyped
  <2>3. ASSUME NEW c \in cookies'
        PROVE  Seen(c.ver, c.pw)'
    <3>1. CASE c = [ver |-> v + 1, pw |-> p]
      BY <1>2, <3>1 DEF Seen
    <3>2. CASE c \in cookies
      <4>1. c.ver <= version /\ c.ver \in Nat
        BY <1>0, <3>2 DEF RowHalf, RowTyped, RowInv, Seen, Cookie
      <4> QED BY <4>1, <2>1 DEF Seen
    <3> QED BY <1>2, <3>1, <3>2
  <2>4. ASSUME NEW q \in Req, pc'[q] = "compare"
        PROVE  Seen(req[q].ver, req[q].pw)'
    <3>1. q # r /\ pc[q] = "compare" /\ req'[q] = req[q]
      BY <2>2, <2>4
    <3>2. req[q].ver <= version /\ req[q].ver \in Nat
      BY <1>0, <2>2, <3>1 DEF RowInv, Seen, Request
    <3> QED BY <2>1, <3>1, <3>2 DEF Seen
  <2>5. \A q \in Req : pc'[q] # "write" /\ pc'[q] # "change"
    BY <1>2, <2>2 DEF RowInv, Changing
  <2> QED BY <2>3, <2>4, <2>5 DEF RowInv, Changing
<1> QED BY <1>0, <1>1, <1>5, <1>6, <1>7 DEF IInv, RowHalf

\* Losing cookies is no harm.
LEMMA ExpireInv == ASSUME IInv, NEW c \in cookies, Expire(c) PROVE IInv'
<1>1. ThrottleHalf'
  BY ThrottleUnchanged DEF IInv, Expire
<1>2. RowHalf'
  BY DEF IInv, Expire, RowHalf, RowTyped, ReqInv, RowInv, Changing, Seen
<1> QED BY <1>1, <1>2 DEF IInv

\* What an entry says of its key's history stays true as time passes.
LEMMA TickInv == ASSUME IInv, Tick PROVE IInv'
<1>0. ThrottleTyped /\ KeysInv /\ RowHalf
  BY DEF IInv, ThrottleHalf
<1>1. ThrottleTyped'
  BY <1>0 DEF Tick, ThrottleTyped, throttle
<1>2. ASSUME NEW k \in Key
      PROVE  KeyInv(entries[k], fails[k], now + 1)
  <2> DEFINE e == entries[k]
             f == fails[k]
             n == Len(f)
  <2>1. /\ now \in Nat /\ e \in Entry \cup {NoEntry} /\ KeyInv(e, f, now)
        /\ f \in Seq(Nat) /\ n \in Nat /\ \A i \in 1..n : f[i] \in Nat
    BY <1>0, ElementOfSeq, LenProperties DEF ThrottleTyped, KeysInv
  <2> HIDE DEF e, f
  <2>2. \A i \in 1..n : f[i] <= now + 1
    BY <2>1 DEF KeyInv
  <2>3. e = NoEntry /\ n > 0 => (now + 1) - f[n] > Window
    BY <2>1 DEF KeyInv
  <2>4. e # NoEntry => (now + 1 < e.blocked => InARow(f))
    <3> SUFFICES ASSUME e # NoEntry, now + 1 < e.blocked PROVE InARow(f)
      OBVIOUS
    <3>1. e.blocked \in Nat
      BY <2>1 DEF Entry
    <3>2. now < e.blocked
      BY <2>1, <3>1
    <3> QED BY <2>1, <3>2 DEF KeyInv
  <2>5. KeyInv(e, f, now + 1)
    BY <2>1, <2>2, <2>3, <2>4 DEF KeyInv
  <2> QED BY <2>5 DEF e, f
<1>3. KeysInv'
  BY <1>2 DEF KeysInv, Tick, throttle
<1>4. RowHalf'
  BY <1>0 DEF Tick, RowHalf, RowTyped, ReqInv, RowInv, Changing, Seen, row
<1> QED BY <1>1, <1>3, <1>4 DEF IInv, ThrottleHalf

\* A restart forgets the throttle and the requests, and keeps the row.
LEMMA PanelRestartInv == ASSUME IInv, PanelRestart PROVE IInv'
<1>0. RowHalf /\ now \in 0..MaxTime
  BY DEF IInv, ThrottleHalf, ThrottleTyped
<1>1. ThrottleHalf'
  BY <1>0, EmptyThrottle DEF PanelRestart, ThrottleHalf, ThrottleTyped, KeysInv
<1>2. RowTyped'
  <2>1. NoRequest \in Request
    BY DEF NoRequest, Request
  <2> QED BY <1>0, <2>1 DEF PanelRestart, RowHalf, RowTyped
<1>3. ReqInv' /\ (RowInv => RowInv')
  BY <1>0 DEF PanelRestart, RowHalf, ReqInv, RowInv, Changing, Seen
<1> QED BY <1>0, <1>1, <1>2, <1>3 DEF IInv, RowHalf

-----------------------------------------------------------------------------
(* The theorems.                                                           *)

\* Every step of the panel preserves the invariant.
LEMMA StepInv == IInv /\ [Next]_vars => IInv'
<1> SUFFICES ASSUME IInv, [Next]_vars PROVE IInv'
  OBVIOUS
<1>1. ASSUME UNCHANGED vars PROVE IInv'
  <2>1. ThrottleHalf'
    BY <1>1, ThrottleUnchanged DEF IInv, vars, throttle
  <2>2. RowHalf'
    BY <1>1 DEF IInv, vars, RowHalf, RowTyped, ReqInv, RowInv, Changing, Seen
  <2> QED BY <2>1, <2>2 DEF IInv
<1>2. ASSUME NEW r \in Req,
             \/ LoginAllow(r) \/ LoginRead(r) \/ LoginFail(r) \/ LoginOk(r)
             \/ ChangeBegin(r) \/ ChangeRead(r) \/ ChangeWrite(r) \/ ChangeRefused(r)
      PROVE  IInv'
  BY <1>2, LoginAllowInv, LoginReadInv, LoginFailInv, LoginOkInv,
     ChangeBeginInv, ChangeReadInv, ChangeWriteInv, ChangeRefusedInv
<1>3. ASSUME NEW c \in cookies, Expire(c) PROVE IInv'
  BY <1>3, ExpireInv
<1>4. CASE Tick
  BY <1>4, TickInv
<1>5. CASE PanelRestart
  BY <1>5, PanelRestartInv
<1> QED BY <1>1, <1>2, <1>3, <1>4, <1>5 DEF Next

\* The inductive invariant holds in every state of the panel.
THEOREM Invariance == Spec => []IInv
<1> QED BY InitInv, StepInv, PTL DEF Spec

(* The state stays well formed for any number of requests, addresses and   *)
(* passwords: no change steps over the bound on versions, no row read is   *)
(* incomplete when it is used, and the throttle never exceeds maxKeys.     *)
THEOREM TypeCorrect == Spec => []TypeOK
<1>1. IInv => TypeOK
  BY DEF IInv, RowHalf, RowTyped, ThrottleHalf, ThrottleTyped, TypeOK
<1> QED BY <1>1, Invariance, PTL

(* As long as password changes do not overlap, a session that is accepted  *)
(* was issued under the password now in force, for logins and changes      *)
(* interleaved in any way.                                                 *)
THEOREM SessionsAreCurrent == ASSUME ~Overlap PROVE Spec => []SessionsCurrent
<1>1. IInv => SessionsCurrent
  BY DEF IInv, RowHalf, RowInv, Seen, Valid, SessionsCurrent
<1> QED BY <1>1, Invariance, PTL

(* As long as password changes do not overlap, a session that a change has *)
(* revoked is never accepted again, restarts of the panel included.        *)
THEOREM RevocationLasts == ASSUME ~Overlap PROVE Spec => RevokedForGood
<1>1. ASSUME IInv, [Next]_vars, NEW c \in cookies, ~Valid(c)
      PROVE  c.ver # version'
  <2>1. c.ver < version /\ version \in Nat /\ c.ver \in Nat
    BY <1>1 DEF IInv, RowHalf, RowTyped, RowInv, Seen, Valid, Cookie
  <2>2. version' = version \/ version' = version + 1
    <3>1. ASSUME NEW r \in Req, ChangeWrite(r) PROVE version' = version + 1
      BY <1>1, <3>1 DEF IInv, RowHalf, RowInv, ChangeWrite
    <3> QED BY <1>1, <3>1 DEF Next, LoginAllow, LoginRead, Read, LoginFail, LoginOk, ChangeBegin,
              ChangeRead, ChangeRefused, Expire, Tick, PanelRestart, row, vars
  <2> QED BY <2>1, <2>2
<1>2. IInv /\ [Next]_vars => [\A c \in cookies : ~Valid(c) => c.ver # version']_vars
  BY <1>1
<1> QED BY <1>2, Invariance, PTL DEF Spec, RevokedForGood

(* Whatever the limits and however failures of slow comparisons fall among *)
(* those of other keys and the collection of entries: MaxFailures recorded *)
(* failures in a row lock their key out for Block from the first.          *)
THEOREM LockoutAlwaysHolds == Spec => []LockoutHolds
<1>1. ASSUME IInv, NEW k \in Key, InARow(fails[k]), now < fails[k][1] + Block
      PROVE  Refused(entries, k, now)
  <2> DEFINE e == entries[k]
             f == fails[k]
             n == Len(f)
             s == n - e.failures
  <2>1. /\ now \in Nat /\ f \in Seq(Nat) /\ e \in Entry \cup {NoEntry} /\ KeyInv(e, f, now)
        /\ n = MaxFailures /\ \A i \in 1..n : f[i] \in Nat
    BY <1>1, ElementOfSeq DEF IInv, ThrottleHalf, ThrottleTyped, KeysInv, InARow
  <2>2. \A i \in 1..(n - 1) : Gap(f, i) <= Window
    BY <1>1 DEF InARow, Gap
  <2> HIDE DEF e, f, n
  <2>3. \A i \in 1..n : f[1] <= f[i]
    BY <2>1 DEF KeyInv, n
  <2>4. e # NoEntry
    <3> SUFFICES ASSUME e = NoEntry PROVE FALSE
      OBVIOUS
    <3>1. now - f[n] > Window
      BY <2>1 DEF KeyInv, n
    <3>2. n \in 1..n /\ 1 \in 1..n /\ f[1] <= f[n]
      BY <2>1, <2>3
    <3>3. now < f[1] + Block
      BY <1>1 DEF f
    <3> QED BY <2>1, <3>1, <3>2, <3>3
  <2>5. e.failures \in 0..(MaxFailures - 1) /\ e.blocked \in Nat
    BY <2>1, <2>4 DEF Entry
  <2>6. s \in 1..n
    BY <2>1, <2>5
  <2>7. (s < n /\ Gap(f, s) > Window) \/ e.blocked >= f[s] + Block
    BY <2>1, <2>4, <2>6 DEF KeyInv, n
  <2>8. e.blocked >= f[s] + Block
    <3>1. CASE s < n
      <4>1. s \in 1..(n - 1)
        BY <3>1, <2>6, <2>1
      <4>2. Gap(f, s) <= Window
        BY <4>1, <2>2
      <4>3. s + 1 \in 1..n
        BY <4>1, <2>1
      <4>4. Gap(f, s) \in Int
        BY SMTT(20), <4>3, <2>1, <2>6 DEF Gap
      <4> QED BY <4>2, <4>4, <2>7
    <3>2. CASE ~(s < n)
      BY <3>2, <2>7
    <3> QED BY <3>1, <3>2
  <2>9. now < f[1] + Block /\ f[1] <= f[s] /\ f[1] \in Nat /\ f[s] \in Nat
    BY <1>1, <2>1, <2>3, <2>6 DEF f
  <2>10. now < e.blocked
    BY SMTT(20), <2>1, <2>5, <2>8, <2>9
  <2> QED BY <2>4, <2>10 DEF Refused, e
<1>2. IInv => LockoutHolds
  BY <1>1 DEF LockoutHolds
<1> QED BY <1>2, Invariance, PTL

(* Nobody is locked out by less than MaxFailures recorded failures of his  *)
(* own key in a row.                                                       *)
THEOREM LockoutIsJustified == Spec => []LockoutJustified
<1>1. IInv => LockoutJustified
  BY DEF IInv, ThrottleHalf, KeysInv, KeyInv, LockoutJustified, Refused
<1> QED BY <1>1, Invariance, PTL

-----------------------------------------------------------------------------
(* Changes that do overlap.  What the run SessionsOverlap finds lost is    *)
(* lost by a write of the row over a newer one, and by nothing else.       *)

(* A change writes only over the row it has read.                          *)
OverwritesNothing == [][\A r \in Req : ChangeWrite(r) => req[r].ver = version]_vars

\* RowInv without what the absence of other changes gave.
SeenInv ==
  /\ \A c \in cookies : Seen(c.ver, c.pw)
  /\ \A r \in Req : pc[r] = "compare" => Seen(req[r].ver, req[r].pw)

LEMMA StepSeen ==
  ASSUME IInv, SeenInv, [Next]_vars,
         [\A r \in Req : ChangeWrite(r) => req[r].ver = version]_vars
  PROVE  SeenInv' /\ version' \in {version, version + 1}
<1> DEFINE Goal == SeenInv' /\ version' \in {version, version + 1}
<1> SUFFICES Goal
  OBVIOUS
<1>1. /\ version \in Nat /\ cookies \subseteq Cookie
      /\ pc \in [Req -> {"idle", "login", "compare", "change", "write"}] /\ req \in [Req -> Request]
  BY DEF IInv, RowHalf, RowTyped
\* A step that leaves the row alone, and compares only what it has or has just read.
<1>2. ASSUME UNCHANGED <<password, version>>,
             \A c \in cookies' : Seen(c.ver, c.pw),
             \A q \in Req : pc'[q] = "compare" =>
               \/ pc[q] = "compare" /\ req'[q] = req[q]
               \/ req'[q].ver = version /\ req'[q].pw = password
      PROVE  Goal
  BY <1>1, <1>2 DEF SeenInv, Seen
<1>3. ASSUME NEW r \in Req, LoginAllow(r) \/ ChangeBegin(r) PROVE Goal
  <2>1. /\ UNCHANGED <<password, version, cookies>>
        /\ \A q \in Req : pc'[q] = "compare" => pc[q] = "compare" /\ req'[q] = req[q]
    BY <1>1, <1>3 DEF LoginAllow, ChangeBegin, row
  <2> QED BY <1>2, <2>1 DEF SeenInv
<1>4. ASSUME NEW r \in Req, LoginRead(r) \/ ChangeRead(r) PROVE Goal
  <2>1. /\ UNCHANGED <<password, version, cookies>>
        /\ pc' \in {[pc EXCEPT ![r] = "compare"], [pc EXCEPT ![r] = "write"]}
        /\ req' = [req EXCEPT ![r].pw = password, ![r].ver = version]
    BY <1>4 DEF LoginRead, ChangeRead, Read, row
  <2>2. req'[r].ver = version /\ req'[r].pw = password
    <3>1. req' = [req EXCEPT ![r] = [req[r] EXCEPT !.pw = password, !.ver = version]]
      BY <2>1
    <3>2. req[r] \in Request
      BY <1>1
    <3>3. /\ [req[r] EXCEPT !.pw = password, !.ver = version].ver = version
          /\ [req[r] EXCEPT !.pw = password, !.ver = version].pw = password
      BY <3>2 DEF Request
    <3> QED BY <1>1, <3>1, <3>3
  <2>3. \A q \in Req : q # r => pc'[q] = pc[q] /\ req'[q] = req[q]
    BY <1>1, <2>1
  <2> QED BY <1>2, <2>1, <2>2, <2>3 DEF SeenInv
<1>5. ASSUME NEW r \in Req, Finish(r), UNCHANGED <<password, version>>,
             \A c \in cookies' : Seen(c.ver, c.pw)
      PROVE  Goal
  <2>1. \A q \in Req : pc'[q] = "compare" => pc[q] = "compare" /\ req'[q] = req[q]
    BY <1>1, <1>5 DEF Finish
  <2> QED BY <1>2, <1>5, <2>1
<1>6. ASSUME NEW r \in Req, LoginFail(r) \/ ChangeRefused(r) PROVE Goal
  BY <1>5, <1>6 DEF LoginFail, ChangeRefused, row, SeenInv
<1>7. ASSUME NEW r \in Req, LoginOk(r) PROVE Goal
  <2>1. cookies' = cookies \cup {[ver |-> req[r].ver, pw |-> req[r].pw]} /\ pc[r] = "compare"
        /\ Finish(r) /\ UNCHANGED <<password, version>>
    BY <1>7 DEF LoginOk
  <2>2. Seen(req[r].ver, req[r].pw)
    BY <2>1 DEF SeenInv
  <2>3. \A c \in cookies' : Seen(c.ver, c.pw)
    BY <2>1, <2>2 DEF SeenInv
  <2> QED BY <1>5, <2>1, <2>3
\* The new row overtakes every cookie and every login under way.
<1>8. ASSUME NEW r \in Req, ChangeWrite(r) PROVE Goal
  <2> DEFINE p == req[r].new
             Later(v, w) == v <= version' /\ (v = version' => w = password')
  <2>1. pc[r] = "write" /\ pc' = [pc EXCEPT ![r] = "idle"] /\ req' = [req EXCEPT ![r] = NoRequest]
    BY <1>8 DEF ChangeWrite, Finish
  <2>2. pc' # pc
    BY <1>1, <2>1
  <2>3. req[r].ver = version
    BY <1>8, <2>2 DEF vars
  <2>4. version' = version + 1 /\ password' = p
        /\ cookies' = cookies \cup {[ver |-> version + 1, pw |-> p]}
    BY <1>8, <2>3 DEF ChangeWrite
  <2> HIDE DEF p
  <2>5. Later(version + 1, p) /\ \A v \in Nat : \A w : Seen(v, w) => Later(v, w)
    BY <1>1, <2>4 DEF Seen
  <2>6. \A c \in cookies' : Later(c.ver, c.pw)
    <3>1. \A c \in cookies : c.ver \in Nat /\ Seen(c.ver, c.pw)
      BY <1>1 DEF Cookie, SeenInv
    <3> HIDE DEF Later
    <3> QED BY <2>4, <2>5, <3>1
  <2>7. \A q \in Req : pc'[q] = "compare" => Later(req'[q].ver, req'[q].pw)
    <3>1. \A q \in Req : req[q].ver \in Nat
      BY <1>1 DEF Request
    <3>2. \A q \in Req : pc'[q] = "compare" => pc[q] = "compare" /\ req'[q] = req[q]
      BY <1>1, <2>1
    <3> HIDE DEF Later
    <3> QED BY <2>5, <3>1, <3>2 DEF SeenInv
  <2> QED BY <2>4, <2>6, <2>7 DEF SeenInv, Seen
<1>9. ASSUME UNCHANGED <<password, version>>, cookies' \subseteq cookies,
             \A q \in Req : pc'[q] = "compare" => pc[q] = "compare" /\ req'[q] = req[q]
      PROVE  Goal
  BY <1>2, <1>9 DEF SeenInv
<1>10. ASSUME NEW c \in cookies, Expire(c) PROVE Goal
  BY <1>9, <1>10 DEF Expire
<1>11. CASE Tick
  BY <1>9, <1>11 DEF Tick, row
<1>12. CASE PanelRestart
  BY <1>9, <1>12 DEF PanelRestart
<1>13. CASE UNCHANGED vars
  BY <1>9, <1>13 DEF vars
<1> QED
  BY <1>3, <1>4, <1>6, <1>7, <1>8, <1>10, <1>11, <1>12, <1>13 DEF Next

(* Password changes may overlap in any way if none overwrites a row newer  *)
(* than the one it compared: no session outlives the password it was       *)
(* issued under, and none that was revoked comes back.  The update that    *)
(* names the version it read would be enough.                              *)
THEOREM OverlapHarmless == Spec /\ OverwritesNothing => []SessionsCurrent /\ RevokedForGood
<1> DEFINE A == [\A r \in Req : ChangeWrite(r) => req[r].ver = version]_vars
           R == [\A c \in cookies : ~Valid(c) => c.ver # version']_vars
<1>1. Init => SeenInv
  BY DEF Init, SeenInv
<1>2. IInv /\ SeenInv /\ [Next]_vars /\ A => SeenInv'
  BY StepSeen
<1>3. SeenInv => SessionsCurrent
  BY DEF SeenInv, Seen, Valid, SessionsCurrent
<1>4. IInv /\ SeenInv /\ [Next]_vars /\ A => R
  <2> SUFFICES ASSUME IInv, SeenInv, [Next]_vars, A, NEW c \in cookies, ~Valid(c)
               PROVE  c.ver # version'
    OBVIOUS
  <2>1. c.ver < version /\ version \in Nat /\ c.ver \in Nat
    BY DEF IInv, RowHalf, RowTyped, SeenInv, Seen, Valid, Cookie
  <2>2. version' \in {version, version + 1}
    BY StepSeen
  <2> QED BY <2>1, <2>2
<1> QED
  BY <1>1, <1>2, <1>3, <1>4, Invariance, PTL DEF Spec, OverwritesNothing, RevokedForGood
=============================================================================
