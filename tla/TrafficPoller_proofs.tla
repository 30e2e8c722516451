------------------------ MODULE TrafficPoller_proofs ------------------------
(***************************************************************************)
(* Theorems about TrafficPoller for any finite set of connections, any set *)
(* of users and any bounds.  The first part establishes what a sum over a  *)
(* set of connections is worth.                                            *)
(***************************************************************************)
EXTENDS TrafficPoller, Inductions

(* g is the table of the sums of f over the subsets of S.                  *)
IsSums(g, f, S) ==
  g = [s \in SUBSET S |-> IF s = {} THEN 0
                          ELSE LET x == CHOOSE y \in s : TRUE IN f[x] + g[s \ {x}]]

LEMMA SumIsTable ==
  ASSUME NEW f, NEW S, IsFiniteSet(S), \A x \in S : f[x] \in Int
  PROVE  \E g : IsSums(g, f, S) /\ SumOf(f, S) = g[S]
<1> DEFINE ch   == [s \in SUBSET S |-> CHOOSE y \in s : TRUE]
           step == [p \in Int \X S |-> f[p[2]] + p[1]]
<1>1. \A s \in SUBSET S : s # {} => ch[s] \in s
  OBVIOUS
<1>2. \A a \in Int, x \in S : step[<<a, x>>] = f[x] + a /\ step[<<a, x>>] \in Int
  OBVIOUS
<1>3. PICK t : IsTable(t, S, Int, 0, ch, step)
  <2> DEFINE A == Int
  <2>1. 0 \in A /\ \A a \in A, x \in S : step[<<a, x>>] \in A
    BY <1>2
  <2> HIDE DEF ch, step, A
  <2>2. \E t : IsTable(t, S, A, 0, ch, step)
    BY <1>1, <2>1, TableExists
  <2> QED
    BY <2>2 DEF A
<1>4. ASSUME NEW s \in SUBSET S, s # {} PROVE t[s] = f[ch[s]] + t[s \ {ch[s]}]
  <2>1. ch[s] \in S /\ t[s \ {ch[s]}] \in Int
    BY <1>1, <1>3, <1>4 DEF IsTable
  <2>2. t[s] = step[<<t[s \ {ch[s]}], ch[s]>>]
    BY <1>3, <1>4 DEF IsTable
  <2> HIDE DEF ch, step
  <2> QED
    BY <1>2, <2>1, <2>2
<1>5. t[{}] = 0 /\ t = [s \in SUBSET S |-> t[s]]
  BY <1>3 DEF IsTable
<1>6. IsSums(t, f, S)
  BY <1>4, <1>5 DEF IsSums
<1> DEFINE g == CHOOSE g : IsSums(g, f, S)
<1>7. IsSums(g, f, S)
  BY <1>6
<1>8. SumOf(f, S) = g[S]
  BY DEF SumOf, MapThenSumSet, MapThenFoldSet, IsSums
<1> QED
  BY <1>7, <1>8

(* Sums of smaller terms are smaller.                                      *)
LEMMA TableMonotonic ==
  ASSUME NEW S, IsFiniteSet(S), NEW e, NEW f, NEW g, NEW h,
         IsSums(g, e, S), IsSums(h, f, S),
         \A x \in S : e[x] \in Int /\ f[x] \in Int /\ e[x] <= f[x]
  PROVE  \A s \in SUBSET S : g[s] \in Int /\ h[s] \in Int /\ g[s] <= h[s]
<1> DEFINE B == {s \in SUBSET S : ~(g[s] \in Int /\ h[s] \in Int /\ g[s] <= h[s])}
<1> SUFFICES ASSUME B # {} PROVE FALSE
  OBVIOUS
<1>1. PICK s \in B : \A U \in B : U \subseteq s => U = s
  <2> HIDE DEF B
  <2>1. B \in SUBSET SUBSET S
    BY DEF B
  <2> QED
    BY <2>1, MinimalSubset
<1> DEFINE x == CHOOSE y \in s : TRUE
<1>2. CASE s = {}
  BY <1>1, <1>2 DEF IsSums
<1>3. CASE s # {}
  <2>1. x \in s /\ s \ {x} \in SUBSET S /\ s \ {x} # s
    BY <1>1, <1>3
  <2>2. g[s \ {x}] \in Int /\ h[s \ {x}] \in Int /\ g[s \ {x}] <= h[s \ {x}]
    BY <1>1, <2>1
  <2>3. g[s] = e[x] + g[s \ {x}] /\ h[s] = f[x] + h[s \ {x}]
    BY <1>1, <1>3 DEF IsSums
  <2> HIDE DEF x
  <2>4. e[x] \in Int /\ f[x] \in Int /\ e[x] <= f[x]
    BY <1>1, <2>1
  <2> QED
    BY <1>1, <2>2, <2>3, <2>4
<1> QED
  BY <1>2, <1>3

LEMMA SumMonotonic ==
  ASSUME NEW S, IsFiniteSet(S), NEW e, NEW f,
         \A x \in S : e[x] \in Int /\ f[x] \in Int /\ e[x] <= f[x]
  PROVE  SumOf(e, S) \in Int /\ SumOf(f, S) \in Int /\ SumOf(e, S) <= SumOf(f, S)
<1>1. PICK g : IsSums(g, e, S) /\ SumOf(e, S) = g[S]
  BY SumIsTable
<1>2. PICK h : IsSums(h, f, S) /\ SumOf(f, S) = h[S]
  BY SumIsTable
<1> QED
  BY <1>1, <1>2, TableMonotonic

LEMMA SumEqual ==
  ASSUME NEW S, IsFiniteSet(S), NEW e, NEW f,
         \A x \in S : e[x] \in Int /\ f[x] = e[x]
  PROVE  SumOf(e, S) = SumOf(f, S)
<1>1. SumOf(e, S) <= SumOf(f, S) /\ SumOf(f, S) <= SumOf(e, S)
      /\ SumOf(e, S) \in Int /\ SumOf(f, S) \in Int
  BY SumMonotonic
<1> QED
  BY <1>1

(* A sum of natural numbers is one.                                        *)
LEMMA SumNat ==
  ASSUME NEW S, IsFiniteSet(S), NEW f, \A x \in S : f[x] \in Nat
  PROVE  SumOf(f, S) \in Nat
<1>1. PICK g : IsSums(g, f, S) /\ SumOf(f, S) = g[S]
  BY SumIsTable
<1> DEFINE B == {s \in SUBSET S : g[s] \notin Nat}
<1> SUFFICES ASSUME B # {} PROVE FALSE
  BY <1>1
<1>2. PICK s \in B : \A U \in B : U \subseteq s => U = s
  <2> HIDE DEF B
  <2>1. B \in SUBSET SUBSET S
    BY DEF B
  <2> QED
    BY <2>1, MinimalSubset
<1> DEFINE x == CHOOSE y \in s : TRUE
<1>3. CASE s = {}
  BY <1>1, <1>2, <1>3 DEF IsSums
<1>4. CASE s # {}
  <2>1. x \in s /\ s \ {x} \in SUBSET S /\ s \ {x} # s
    BY <1>2, <1>4
  <2>2. g[s \ {x}] \in Nat
    BY <1>2, <2>1
  <2>3. g[s] = f[x] + g[s \ {x}]
    BY <1>1, <1>2, <1>4 DEF IsSums
  <2> HIDE DEF x
  <2> QED
    BY <1>2, <2>1, <2>2, <2>3
<1> QED
  BY <1>3, <1>4

-----------------------------------------------------------------------------
(* Since the panel's first start: a connection has been polled at most up  *)
(* to where it is, and either lastSeen is where that was or, its id having *)
(* come back, the connection has not been polled and lastSeen is that of   *)
(* its predecessor.  Hence no poll adds more than it saw pass.             *)
Tracking == \A c \in Live :
  /\ sampled[c] <= conn[c].bytes
  /\ sampled[c] = lastSeen[c] \/ (reused /\ sampled[c] = 0)

FirstLife == restarts = 0 /\ pc # "gone"

IInv == TypeOK /\ (FirstLife => Tracking) /\ Accounted

LEMMA DeltaType ==
  ASSUME TypeOK, NEW c \in Cid
  PROVE  /\ Delta(c) \in Nat /\ conn[c].bytes \in Nat
         /\ lastSeen[c] \in Nat /\ sampled[c] \in Nat
<1>1. conn[c].bytes \in 0..MaxBytes /\ lastSeen[c] \in 0..MaxBytes /\ sampled[c] \in 0..MaxBytes
  BY DEF TypeOK, Connection
<1> QED
  BY <1>1, TrafficAssumption DEF Delta, TrafficAssumption

LEMMA CountedOfFinite == ASSUME NEW u PROVE IsFiniteSet(CountedOf(u)) /\ CountedOf(u) \subseteq Live
<1>1. CountedOf(u) \in SUBSET Cid /\ CountedOf(u) \subseteq Live
  BY DEF CountedOf, Counted, Live
<1> QED
  BY <1>1, FS_Subset, TrafficAssumption DEF TrafficAssumption

(* What a poll adds to pending, against what passed.                       *)
LEMMA PollSums ==
  ASSUME TypeOK, NEW u \in Uid
  PROVE  LET added  == SumOf([c \in Cid |-> Delta(c)], CountedOf(u))
             passed == SumOf([c \in Cid |-> conn[c].bytes - sampled[c]], CountedOf(u))
         IN /\ added \in Nat /\ passed \in Int
            /\ Tracking => added <= passed
            /\ Tracking /\ ~reused => added = passed
<1> DEFINE D == [c \in Cid |-> Delta(c)]
           P == [c \in Cid |-> conn[c].bytes - sampled[c]]
           S == CountedOf(u)
<1>1. IsFiniteSet(S) /\ S \subseteq Live /\ S \subseteq Cid
  BY CountedOfFinite DEF Live
<1>2. \A c \in S : D[c] \in Nat /\ P[c] \in Int
  BY <1>1, DeltaType
<1>3. ASSUME Tracking, NEW c \in S PROVE D[c] <= P[c] /\ (~reused => D[c] = P[c])
  BY <1>1, <1>3, DeltaType DEF Tracking, Delta
<1> HIDE DEF D, P, S
<1>4. SumOf(D, S) \in Nat
  BY <1>1, <1>2, SumNat
<1>5. SumOf(P, S) \in Int
  BY <1>1, <1>2, SumMonotonic
<1>6. Tracking => SumOf(D, S) <= SumOf(P, S)
  BY <1>1, <1>2, <1>3, SumMonotonic
<1>7. Tracking /\ ~reused => SumOf(D, S) = SumOf(P, S)
  BY <1>1, <1>2, <1>3, SumEqual
<1> QED
  BY <1>4, <1>5, <1>6, <1>7 DEF D, P, S

LEMMA InitInv == Init => IInv
<1> SUFFICES ASSUME Init PROVE IInv
  OBVIOUS
<1> USE TrafficAssumption DEF TrafficAssumption
<1>1. TypeOK
  <2>1. Closed \in Connection /\ 0 \in 0..MaxBytes /\ 0 \in 0..MaxOpens /\ 0 \in 0..Restarts
    BY DEF Closed, Connection
  <2>2. todo = {} /\ pc = "select" /\ opens = 0 /\ restarts = 0 /\ conn \in [Cid -> Connection]
    BY <2>1 DEF Init
  <2>3. total \in [Uid -> Nat \cup {Absent}] /\ pending \in [Uid -> Nat] /\ due \in [Uid -> Int]
    BY DEF Init
  <2>4. lastSeen \in [Cid -> 0..MaxBytes] /\ sampled \in [Cid -> 0..MaxBytes]
    BY <2>1 DEF Init
  <2> QED
    BY <2>1, <2>2, <2>3, <2>4 DEF Init, TypeOK
<1>2. Tracking
  BY DEF Init, Tracking, Live, Closed
<1>3. Accounted
  BY DEF Init, Accounted, NeverOverCounted, Exact
<1> QED
  BY <1>1, <1>2, <1>3 DEF IInv

-----------------------------------------------------------------------------
(* The type invariant, action by action.                                   *)
LEMMA StepType == TypeOK /\ [Next]_vars => TypeOK'
<1> SUFFICES ASSUME TypeOK, [Next]_vars PROVE TypeOK'
  OBVIOUS
<1> USE TrafficAssumption DEF TrafficAssumption, conns, Poller
<1>1. ASSUME NEW c \in Cid, OpenConnection(c) PROVE TypeOK'
  <2>1. PICK u \in Uid \cup {NoUser} :
          conn' = [conn EXCEPT ![c] = [user |-> u, bytes |-> 0, open |-> TRUE]]
    BY <1>1 DEF OpenConnection
  <2>2. conn' \in [Cid -> Connection]
    BY <2>1 DEF TypeOK, Connection
  <2>3. opens' \in 0..MaxOpens /\ reused' \in BOOLEAN /\ sampled' \in [Cid -> 0..MaxBytes]
    BY <1>1 DEF OpenConnection, TypeOK
  <2> QED
    BY <1>1, <2>2, <2>3 DEF OpenConnection, TypeOK
<1>2. ASSUME NEW c \in Cid, Carry(c) PROVE TypeOK'
  <2>1. conn[c] \in Connection /\ conn[c].bytes + 1 \in 0..MaxBytes
    BY <1>2 DEF Carry, TypeOK, Connection
  <2>2. [conn[c] EXCEPT !.bytes = @ + 1] \in Connection
    BY <2>1 DEF Connection
  <2>3. conn' = [conn EXCEPT ![c] = [conn[c] EXCEPT !.bytes = @ + 1]]
    BY <1>2 DEF Carry
  <2>4. conn' \in [Cid -> Connection]
    BY <2>2, <2>3 DEF TypeOK
  <2> QED
    BY <1>2, <2>4 DEF Carry, TypeOK
<1>3. ASSUME NEW c \in Cid, CloseConnection(c) PROVE TypeOK'
  <2>1. Closed \in Connection
    BY DEF Closed, Connection
  <2> QED
    BY <1>3, <2>1 DEF CloseConnection, TypeOK
<1>4. ASSUME PollOnce PROVE TypeOK'
  <2> DEFINE added(u) == SumOf([c \in Cid |-> Delta(c)], CountedOf(u))
             passed(u) == SumOf([c \in Cid |-> conn[c].bytes - sampled[c]], CountedOf(u))
  <2>1. \A u \in Uid : added(u) \in Nat /\ passed(u) \in Int
    BY PollSums
  <2>2. pending' = [u \in Uid |-> pending[u] + added(u)] /\ due' = [u \in Uid |-> due[u] + passed(u)]
    BY <1>4 DEF PollOnce
  <2> HIDE DEF added, passed
  <2>3. pending' \in [Uid -> Nat] /\ due' \in [Uid -> Int]
    BY <2>1, <2>2 DEF TypeOK
  <2>4. lastSeen' \in [Cid -> 0..MaxBytes] /\ sampled' \in [Cid -> 0..MaxBytes]
    <3>1. \A c \in Cid : conn[c].bytes \in 0..MaxBytes
      BY DEF TypeOK, Connection
    <3>2. 0 \in 0..MaxBytes
      OBVIOUS
    <3> QED
      BY <1>4, <3>1, <3>2 DEF PollOnce, TypeOK
  <2>5. todo' = {}
    BY <1>4 DEF PollOnce, TypeOK
  <2> QED
    BY <1>4, <2>3, <2>4, <2>5 DEF PollOnce, TypeOK
<1>5. ASSUME NEW where \in {"flush", "last"}, Flush(where) PROVE TypeOK'
  BY <1>5 DEF Flush, TypeOK
<1>6. ASSUME NEW u \in Uid, FlushWrite(u) PROVE TypeOK'
  <2>1. total' \in [Uid -> Nat \cup {Absent}]
    BY <1>6 DEF FlushWrite, AddTraffic, TypeOK
  <2>2. pending' \in [Uid -> Nat] /\ todo' \subseteq {w \in Uid : pending'[w] # 0}
    BY <1>6 DEF FlushWrite, TypeOK
  <2> QED
    BY <1>6, <2>1, <2>2 DEF FlushWrite, TypeOK
<1>7. ASSUME FlushEnd PROVE TypeOK'
  BY <1>7 DEF FlushEnd, AfterFlush, TypeOK
<1>8. ASSUME NEW u \in Uid, FlushFail(u) PROVE TypeOK'
  BY <1>8 DEF FlushFail, AfterFlush, TypeOK
<1>9. ASSUME NEW u \in Uid, ResetUserTraffic(u) PROVE TypeOK'
  <2>1. total[u] \in Nat /\ due[u] \in Int
    BY <1>9 DEF ResetUserTraffic, TypeOK
  <2>2. total' \in [Uid -> Nat \cup {Absent}] /\ due' \in [Uid -> Int]
    BY <1>9, <2>1 DEF ResetUserTraffic, TypeOK
  <2> QED
    BY <1>9, <2>2 DEF ResetUserTraffic, TypeOK
<1>10. ASSUME NEW u \in Uid, DeleteUser(u) PROVE TypeOK'
  BY <1>10 DEF DeleteUser, TypeOK
<1>11. ASSUME StopPoller PROVE TypeOK'
  BY <1>11 DEF StopPoller, TypeOK
<1>12. ASSUME MainExits PROVE TypeOK'
  BY <1>12 DEF MainExits, TypeOK
<1>13. ASSUME PanelStart PROVE TypeOK'
  <2>1. restarts' \in 0..Restarts /\ todo' = {}
    BY <1>13 DEF PanelStart, TypeOK
  <2> QED
    BY <1>13, <2>1 DEF PanelStart, TypeOK
<1>14. ASSUME UNCHANGED vars PROVE TypeOK'
  BY <1>14 DEF vars, TypeOK
<1> QED
  BY <1>1, <1>2, <1>3, <1>4, <1>5, <1>6, <1>7, <1>8, <1>9, <1>10, <1>11, <1>12, <1>13, <1>14
     DEF Next, FlushTick, RunEnds

(* Only connections and polls concern Tracking; the panel's process does   *)
(* not as long as it runs.                                                 *)
LEMMA TrackingKept ==
  TypeOK /\ Tracking /\ [Next]_vars /\ ~MainExits /\ ~PanelStart => Tracking'
<1> SUFFICES ASSUME TypeOK, Tracking, [Next]_vars, ~MainExits, ~PanelStart PROVE Tracking'
  OBVIOUS
<1> USE TrafficAssumption DEF TrafficAssumption, conns, Poller, Tracking, Live
<1>1. ASSUME NEW c \in Cid, OpenConnection(c) PROVE Tracking'
  <2>1. PICK u : conn' = [conn EXCEPT ![c] = [user |-> u, bytes |-> 0, open |-> TRUE]]
    BY <1>1 DEF OpenConnection
  <2>2. conn'[c].bytes = 0 /\ sampled'[c] = 0 /\ lastSeen' = lastSeen
        /\ (reused' <=> reused \/ lastSeen[c] # 0)
    BY <1>1, <2>1 DEF OpenConnection, TypeOK
  <2>3. \A d \in Cid : d # c => conn'[d] = conn[d] /\ sampled'[d] = sampled[d]
    BY <1>1, <2>1 DEF OpenConnection, TypeOK
  <2> QED
    BY <2>2, <2>3
<1>2. ASSUME NEW c \in Cid, Carry(c) PROVE Tracking'
  <2>1. c \in Live /\ conn'[c].bytes = conn[c].bytes + 1 /\ conn[c].bytes \in Nat /\ sampled[c] \in Nat
    BY <1>2, DeltaType DEF Carry, TypeOK, Connection
  <2>2. \A d \in Cid : conn'[d].open = conn[d].open /\ (d # c => conn'[d] = conn[d])
    BY <1>2 DEF Carry, TypeOK, Connection
  <2> QED
    BY <1>2, <2>1, <2>2 DEF Carry
<1>3. ASSUME NEW c \in Cid, CloseConnection(c) PROVE Tracking'
  <2>1. \A d \in Cid : d # c => conn'[d] = conn[d]
    BY <1>3 DEF CloseConnection, TypeOK
  <2>2. ~conn'[c].open
    BY <1>3 DEF CloseConnection, TypeOK, Closed
  <2> QED
    BY <1>3, <2>1, <2>2 DEF CloseConnection
<1>4. ASSUME PollOnce PROVE Tracking'
  <2>1. \A c \in Cid : conn[c].bytes \in Nat
    BY DeltaType
  <2>2. \A c \in Live : IF c \in Counted THEN sampled'[c] = conn[c].bytes /\ lastSeen'[c] = conn[c].bytes
                        ELSE sampled'[c] = sampled[c] /\ lastSeen'[c] = lastSeen[c]
    BY <1>4 DEF PollOnce
  <2>3. Live' = Live /\ conn' = conn /\ reused' = reused
    BY <1>4 DEF PollOnce
  <2> QED
    BY <2>1, <2>2, <2>3
<1>5. ASSUME UNCHANGED <<conn, lastSeen, sampled, reused>> PROVE Tracking'
  BY <1>5
<1>6. CASE FlushTick \/ RunEnds
  BY <1>5, <1>6 DEF FlushTick, RunEnds, Flush
<1>7. ASSUME NEW u \in Uid,
             FlushWrite(u) \/ FlushFail(u) \/ ResetUserTraffic(u) \/ DeleteUser(u)
      PROVE  Tracking'
  BY <1>5, <1>7 DEF FlushWrite, FlushFail, ResetUserTraffic, DeleteUser
<1>8. CASE FlushEnd \/ StopPoller \/ UNCHANGED vars
  BY <1>5, <1>8 DEF FlushEnd, StopPoller, vars
<1> QED
  BY <1>1, <1>2, <1>3, <1>4, <1>6, <1>7, <1>8 DEF Next

(* A process that starts or ends, and the panel's first life.              *)
LEMMA Lives ==
  ASSUME TypeOK, [Next]_vars
  PROVE  /\ FirstLife' => ~MainExits /\ ~PanelStart /\ FirstLife
         /\ ~MainExits /\ ~PanelStart => restarts' = restarts /\ (pc' = "gone" <=> pc = "gone")
<1> USE TrafficAssumption DEF TrafficAssumption, conns, Poller
<1>1. MainExits => pc' = "gone"
  BY DEF MainExits
<1>2. PanelStart => restarts' # 0
  BY DEF PanelStart, TypeOK
<1>3. ASSUME ~MainExits, ~PanelStart PROVE restarts' = restarts /\ (pc' = "gone" <=> pc = "gone")
  <2>1. ASSUME NEW c \in Cid, OpenConnection(c) \/ Carry(c) \/ CloseConnection(c)
        PROVE  restarts' = restarts /\ (pc' = "gone" <=> pc = "gone")
    BY <2>1 DEF OpenConnection, Carry, CloseConnection
  <2>2. ASSUME NEW u \in Uid,
               FlushWrite(u) \/ FlushFail(u) \/ ResetUserTraffic(u) \/ DeleteUser(u)
        PROVE  restarts' = restarts /\ (pc' = "gone" <=> pc = "gone")
    BY <2>2 DEF FlushWrite, FlushFail, ResetUserTraffic, DeleteUser, AfterFlush
  <2>3. CASE PollOnce \/ FlushTick \/ RunEnds \/ FlushEnd \/ StopPoller \/ UNCHANGED vars
    BY <2>3 DEF PollOnce, FlushTick, RunEnds, Flush, FlushEnd, AfterFlush, StopPoller, vars
  <2> QED
    BY <1>3, <2>1, <2>2, <2>3 DEF Next
<1> QED
  BY <1>1, <1>2, <1>3 DEF FirstLife

LEMMA StepTracking ==
  TypeOK /\ (FirstLife => Tracking) /\ [Next]_vars => (FirstLife' => Tracking')
BY TrackingKept, Lives

(* The ledger: polls, resets and writes move bytes between due, pending    *)
(* and total without losing any.                                           *)
Fair(u) == total[u] # Absent => total[u] + pending[u] <= due[u]

LEMMA Ledger ==
  ASSUME TypeOK, [Next]_vars, PollOnce => Tracking, ~MainExits, ~PanelStart, NEW u \in Uid
  PROVE  /\ Fair(u) => Fair(u)'
         /\ reused \/ Exact(u) => reused' \/ Exact(u)'
<1> USE DEF Fair, Exact
<1> DEFINE Goal == (Fair(u) => Fair(u)') /\ (reused \/ Exact(u) => reused' \/ Exact(u)')
<1>1. SUFFICES Goal
  OBVIOUS
<1>2. pending[u] \in Nat /\ due[u] \in Int /\ (total[u] # Absent => total[u] \in Nat)
  BY DEF TypeOK
<1>3. CASE PollOnce
  <2> DEFINE added  == SumOf([c \in Cid |-> Delta(c)], CountedOf(u))
             passed == SumOf([c \in Cid |-> conn[c].bytes - sampled[c]], CountedOf(u))
  <2>1. added \in Nat /\ passed \in Int /\ added <= passed /\ (~reused => added = passed)
    BY <1>3, PollSums
  <2>2. pending'[u] = pending[u] + added /\ due'[u] = due[u] + passed
    BY <1>3 DEF PollOnce
  <2> HIDE DEF added, passed
  <2>3. total'[u] = total[u] /\ reused' = reused
    BY <1>3 DEF PollOnce, conns
  <2> QED
    BY <1>2, <2>1, <2>2, <2>3
<1>4. ASSUME NEW w \in Uid, FlushWrite(w) PROVE Goal
  <2>1. reused' = reused /\ due' = due
    BY <1>4 DEF FlushWrite, conns
  <2>2. CASE u = w
    <3>1. pending'[u] = 0 /\ total'[u] = (IF total[u] = Absent THEN Absent ELSE total[u] + pending[u])
      BY <1>4, <2>2 DEF FlushWrite, AddTraffic, TypeOK
    <3> QED
      BY <1>2, <2>1, <3>1
  <2>3. CASE u # w
    <3>1. pending'[u] = pending[u] /\ total'[u] = total[u]
      BY <1>4, <2>3 DEF FlushWrite, AddTraffic, TypeOK
    <3> QED
      BY <2>1, <3>1
  <2> QED
    BY <2>2, <2>3
<1>5. ASSUME NEW w \in Uid, ResetUserTraffic(w) PROVE Goal
  <2>1. reused' = reused /\ pending' = pending
    BY <1>5 DEF ResetUserTraffic, conns
  <2>2. CASE u = w
    <3>1. total'[u] = 0 /\ due'[u] = due[u] - total[u] /\ total[u] # Absent
      BY <1>5, <2>2 DEF ResetUserTraffic, TypeOK
    <3> QED
      BY <1>2, <2>1, <3>1
  <2>3. CASE u # w
    <3>1. due'[u] = due[u] /\ total'[u] = total[u]
      BY <1>5, <2>3 DEF ResetUserTraffic, TypeOK
    <3> QED
      BY <2>1, <3>1
  <2> QED
    BY <2>2, <2>3
<1>6. ASSUME NEW w \in Uid, DeleteUser(w) PROVE Goal
  <2>1. reused' = reused /\ pending' = pending /\ due' = due
    BY <1>6 DEF DeleteUser, conns
  <2>2. total'[u] \in {total[u], Absent}
    BY <1>6 DEF DeleteUser, TypeOK
  <2> QED
    BY <2>1, <2>2
<1>7. ASSUME UNCHANGED <<total, pending, due>>, reused => reused' PROVE Goal
  BY <1>7
<1>8. ASSUME NEW c \in Cid, OpenConnection(c) \/ Carry(c) \/ CloseConnection(c) PROVE Goal
  BY <1>7, <1>8 DEF OpenConnection, Carry, CloseConnection, Poller
<1>9. ASSUME NEW w \in Uid, FlushFail(w) PROVE Goal
  BY <1>7, <1>9 DEF FlushFail, conns
<1>10. CASE FlushTick \/ RunEnds \/ FlushEnd \/ StopPoller \/ UNCHANGED vars
  BY <1>7, <1>10 DEF FlushTick, RunEnds, Flush, FlushEnd, StopPoller, vars, conns
<1> QED
  BY <1>3, <1>4, <1>5, <1>6, <1>8, <1>9, <1>10 DEF Next

LEMMA StepAccounted ==
  TypeOK /\ (FirstLife => Tracking) /\ Accounted /\ [Next]_vars => Accounted'
<1> SUFFICES ASSUME TypeOK, FirstLife => Tracking, Accounted, [Next]_vars, FirstLife'
             PROVE  NeverOverCounted' /\ (reused' \/ \A u \in Uid : Exact(u)')
  BY DEF Accounted, FirstLife
<1>1. FirstLife /\ ~MainExits /\ ~PanelStart
  BY Lives
<1>2. \A u \in Uid : Fair(u) /\ (reused \/ Exact(u))
  BY <1>1 DEF Accounted, NeverOverCounted, FirstLife, Fair
<1>3. \A u \in Uid : Fair(u)' /\ (reused' \/ Exact(u)')
  BY <1>1, <1>2, Ledger
<1> QED
  BY <1>3 DEF NeverOverCounted, Fair

LEMMA StepInv == IInv /\ [Next]_vars => IInv'
BY StepType, StepTracking, StepAccounted DEF IInv

(* The inductive invariant holds throughout.                               *)
THEOREM Invariance == Spec => []IInv
BY InitInv, StepInv, PTL DEF Spec

(* The state is well formed; a flush visits only users with an entry.      *)
THEOREM TypeCorrect == Spec => []TypeOK
<1>1. IInv => TypeOK
  BY DEF IInv
<1> QED
  BY <1>1, Invariance, PTL

(* Until the panel is shut down no polled byte is lost or counted twice,   *)
(* for any number of connections and users, whatever writes fail and       *)
(* whatever ids come back.                                                 *)
THEOREM AccountedThm == Spec => []Accounted
<1>1. IInv => Accounted
  BY DEF IInv
<1> QED
  BY <1>1, Invariance, PTL

LEMMA StepGrow ==
  TypeOK /\ [Next]_vars =>
    \A u \in Uid : total[u] # Absent /\ total'[u] # Absent =>
      total'[u] >= total[u] \/ due'[u] < due[u]
<1> SUFFICES ASSUME TypeOK, [Next]_vars, NEW u \in Uid, total[u] # Absent, total'[u] # Absent
             PROVE  total'[u] >= total[u] \/ due'[u] < due[u]
  OBVIOUS
<1>1. pending[u] \in Nat /\ due[u] \in Int /\ total[u] \in Nat
  BY DEF TypeOK
<1>2. ASSUME NEW w \in Uid, FlushWrite(w) PROVE total'[u] >= total[u]
  <2>1. total'[u] \in {total[u], total[u] + pending[u]}
    BY <1>2 DEF FlushWrite, AddTraffic, TypeOK
  <2> QED
    BY <1>1, <2>1
<1>3. ASSUME NEW w \in Uid, ResetUserTraffic(w)
      PROVE  total'[u] = total[u] \/ (total'[u] = 0 /\ due'[u] = due[u] - total[u])
  BY <1>3 DEF ResetUserTraffic, TypeOK
<1>4. ASSUME NEW w \in Uid, DeleteUser(w) PROVE total'[u] = total[u]
  BY <1>4 DEF DeleteUser, TypeOK
<1>5. CASE UNCHANGED total
  BY <1>1, <1>5
<1>6. ASSUME NEW c \in Cid, OpenConnection(c) \/ Carry(c) \/ CloseConnection(c) PROVE UNCHANGED total
  BY <1>6 DEF OpenConnection, Carry, CloseConnection, Poller
<1>7. ASSUME NEW w \in Uid, FlushFail(w) PROVE UNCHANGED total
  BY <1>7 DEF FlushFail
<1>8. ASSUME PollOnce \/ FlushTick \/ RunEnds \/ FlushEnd \/ StopPoller \/ MainExits \/ PanelStart
             \/ UNCHANGED vars
      PROVE  UNCHANGED total
  BY <1>8 DEF PollOnce, FlushTick, RunEnds, Flush, FlushEnd, StopPoller, MainExits, PanelStart, vars
<1>9. ASSUME NEW w \in Uid, ResetUserTraffic(w) PROVE total'[u] >= total[u] \/ due'[u] < due[u]
  BY <1>1, <1>3, <1>9
<1>10. ASSUME NEW w \in Uid, DeleteUser(w) PROVE total'[u] >= total[u]
  BY <1>1, <1>4, <1>10
<1> QED
  BY <1>2, <1>5, <1>6, <1>7, <1>8, <1>9, <1>10 DEF Next

(* A counter falls only when it is reset or its user deleted.              *)
THEOREM CountersOnlyGrowThm == Spec => CountersOnlyGrow
BY StepGrow, TypeCorrect, PTL DEF Spec, CountersOnlyGrow

-----------------------------------------------------------------------------
(* The two losses the runs find (TrafficRestart, TrafficShutdown), each    *)
(* delimited: the condition that keeps the poller out of it is enough.     *)

(* No connection whose bytes a poll has counted is still open when the     *)
(* panel starts again.                                                     *)
FreshStarts == [][PanelStart => \A c \in Live : sampled[c] = 0]_vars

\* A process that starts has seen no connection.
Unseen == pc = "gone" => \A c \in Cid : lastSeen[c] = 0

FreshInv == TypeOK /\ Unseen /\ (pc # "gone" => Tracking) /\ NeverOverCounted

LEMMA StepUnseen == TypeOK /\ Unseen /\ [Next]_vars => Unseen'
<1> SUFFICES ASSUME TypeOK, Unseen, [Next]_vars, ~MainExits, ~PanelStart, pc = "gone"
             PROVE  lastSeen' = lastSeen
  <2>1. MainExits => Unseen'
    BY DEF MainExits, Unseen
  <2>2. PanelStart => Unseen'
    BY DEF PanelStart, Unseen
  <2> QED
    BY <2>1, <2>2, Lives DEF Unseen
<1>1. ASSUME NEW c \in Cid, OpenConnection(c) \/ Carry(c) \/ CloseConnection(c)
      PROVE  lastSeen' = lastSeen
  BY <1>1 DEF OpenConnection, Carry, CloseConnection, Poller
<1>2. CASE UNCHANGED vars
  BY <1>2 DEF vars
<1> QED
  BY <1>1, <1>2 DEF Next, PollOnce, FlushTick, RunEnds, FlushEnd, FlushWrite, FlushFail,
     ResetUserTraffic, DeleteUser, StopPoller

LEMMA StepFresh ==
  FreshInv /\ [Next]_vars /\ [PanelStart => \A c \in Live : sampled[c] = 0]_vars => FreshInv'
<1> SUFFICES ASSUME FreshInv, [Next]_vars,
                    [PanelStart => \A c \in Live : sampled[c] = 0]_vars
             PROVE  FreshInv'
  OBVIOUS
<1>1. TypeOK' /\ Unseen'
  BY StepType, StepUnseen DEF FreshInv
<1>2. CASE ~MainExits /\ ~PanelStart
  <2>1. (pc' = "gone" <=> pc = "gone") /\ (PollOnce => Tracking)
    BY <1>2, Lives DEF FreshInv, PollOnce
  <2>2. pc' # "gone" => Tracking'
    BY <1>2, <2>1, TrackingKept DEF FreshInv
  <2>3. \A u \in Uid : Fair(u) => Fair(u)'
    BY <1>2, <2>1, Ledger DEF FreshInv
  <2>4. NeverOverCounted'
    BY <2>3 DEF FreshInv, NeverOverCounted, Fair
  <2> QED
    BY <1>1, <2>2, <2>4 DEF FreshInv
<1>3. CASE MainExits
  <2>1. pc' = "gone" /\ total' = total /\ due' = due /\ \A u \in Uid : pending'[u] = 0
    BY <1>3 DEF MainExits
  <2>2. \A u \in Uid : Fair(u) => Fair(u)'
    BY <2>1 DEF Fair, FreshInv, TypeOK
  <2> QED
    BY <1>1, <2>1, <2>2 DEF FreshInv, NeverOverCounted, Fair
<1>4. CASE PanelStart
  <2>1. UNCHANGED <<conn, reused, sampled, lastSeen, total, pending, due>>
        /\ pc = "gone" /\ pc' # pc
    BY <1>4 DEF PanelStart, conns
  <2>2. \A c \in Live : sampled[c] = 0
    BY <1>4, <2>1 DEF vars
  <2>3. Tracking
    BY <2>1, <2>2, DeltaType DEF FreshInv, Unseen, Tracking, Live
  <2>4. Tracking' /\ NeverOverCounted'
    BY <2>1, <2>3 DEF Tracking, Live, FreshInv, NeverOverCounted
  <2> QED
    BY <1>1, <2>4 DEF FreshInv
<1> QED
  BY <1>2, <1>3, <1>4

(* If no counted connection outlives the panel's process, nobody is ever   *)
(* charged for more than the polls saw, over any number of restarts: an    *)
(* emptied Poller.lastSeen meeting an old connection is the only way to    *)
(* count bytes twice.                                                      *)
THEOREM NeverOverCountedThm == Spec /\ FreshStarts => []NeverOverCounted
<1>1. Init => FreshInv
  <2> SUFFICES ASSUME Init PROVE FreshInv
    OBVIOUS
  <2>1. TypeOK /\ FirstLife /\ Unseen
    BY InitInv DEF IInv, Init, FirstLife, Unseen
  <2> QED
    BY <2>1, InitInv DEF IInv, FreshInv, Accounted, FirstLife
<1>2. FreshInv => NeverOverCounted
  BY DEF FreshInv
<1> QED
  BY <1>1, <1>2, StepFresh, PTL DEF Spec, FreshStarts

(* main leaves after the poller's last flush has ended.                    *)
MainWaits == [][MainExits => pc = "done"]_vars

\* What a flush has yet to visit is all there is, and one that ended without an
\* error left nothing.
Flushed ==
  /\ pc \in {"flush", "last"} => ~failed /\ \A u \in Uid : pending[u] # 0 => u \in todo
  /\ pc = "done" /\ ~failed => \A u \in Uid : pending[u] = 0

Kept == restarts = 0 => ShutdownKeepsTraffic

WaitInv == IInv /\ Flushed /\ Kept

LEMMA StepFlushed == TypeOK /\ Flushed /\ [Next]_vars => Flushed'
<1> SUFFICES ASSUME TypeOK, Flushed, [Next]_vars PROVE Flushed'
  OBVIOUS
<1> USE DEF Flushed
<1>1. ASSUME UNCHANGED <<pc, failed, pending, todo>> PROVE Flushed'
  BY <1>1
<1>2. ASSUME pc' \notin {"flush", "last", "done"} PROVE Flushed'
  BY <1>2
<1>3. ASSUME NEW where \in {"flush", "last"}, Flush(where) PROVE Flushed'
  BY <1>3 DEF Flush
<1>4. ASSUME NEW u \in Uid, FlushWrite(u) PROVE Flushed'
  <2>1. pending' = [pending EXCEPT ![u] = 0] /\ todo' = todo \ {u} /\ pc' = pc /\ failed' = failed
        /\ pc \in {"flush", "last"}
    BY <1>4 DEF FlushWrite
  <2> QED
    BY <2>1 DEF TypeOK
<1>5. CASE FlushEnd
  BY <1>5 DEF FlushEnd, AfterFlush
<1>6. ASSUME NEW u \in Uid, FlushFail(u) PROVE Flushed'
  BY <1>6 DEF FlushFail, AfterFlush
<1>7. ASSUME NEW c \in Cid, OpenConnection(c) \/ Carry(c) \/ CloseConnection(c) PROVE Flushed'
  BY <1>1, <1>7 DEF OpenConnection, Carry, CloseConnection, Poller
<1>8. ASSUME NEW u \in Uid, ResetUserTraffic(u) \/ DeleteUser(u) PROVE Flushed'
  BY <1>1, <1>8 DEF ResetUserTraffic, DeleteUser
<1>9. CASE StopPoller \/ UNCHANGED vars
  BY <1>1, <1>9 DEF StopPoller, vars
<1>10. CASE PollOnce \/ MainExits \/ PanelStart
  BY <1>2, <1>10 DEF PollOnce, MainExits, PanelStart
<1> QED
  BY <1>3, <1>4, <1>5, <1>6, <1>7, <1>8, <1>9, <1>10 DEF Next, FlushTick, RunEnds

\* The books of a process that has ended stay as they are until the next starts.
LEMMA StepGone ==
  ASSUME [Next]_vars, pc = "gone", pc' = "gone"
  PROVE  /\ total' = total /\ pending' = pending /\ due' = due
         /\ failed' = failed /\ restarts' = restarts /\ (reused => reused')
<1> DEFINE Goal == /\ total' = total /\ pending' = pending /\ due' = due
                   /\ failed' = failed /\ restarts' = restarts /\ (reused => reused')
<1>1. ASSUME NEW c \in Cid, OpenConnection(c) \/ Carry(c) \/ CloseConnection(c) PROVE Goal
  <2>1. UNCHANGED <<Poller, due>>
    BY <1>1 DEF OpenConnection, Carry, CloseConnection
  <2>2. reused => reused'
    BY <1>1 DEF OpenConnection, Carry, CloseConnection
  <2> QED
    BY <2>1, <2>2 DEF Poller
<1>2. CASE UNCHANGED vars
  BY <1>2 DEF vars
<1> QED
  BY <1>1, <1>2 DEF Next, PollOnce, FlushTick, RunEnds, FlushEnd, FlushWrite, FlushFail,
     ResetUserTraffic, DeleteUser, StopPoller, MainExits, PanelStart

LEMMA StepKept ==
  IInv /\ Flushed /\ Kept /\ [Next]_vars /\ [MainExits => pc = "done"]_vars => Kept'
<1> SUFFICES ASSUME IInv, Flushed, Kept, [Next]_vars, [MainExits => pc = "done"]_vars,
                    restarts' = 0, pc' = "gone", ~failed', ~reused', NEW u \in Uid
             PROVE  Exact(u)'
  BY DEF Kept, ShutdownKeepsTraffic
<1>1. CASE pc = "gone"
  <2>1. restarts = 0 /\ ~failed /\ ~reused /\ UNCHANGED <<total, pending, due>>
    BY <1>1, StepGone
  <2>2. Exact(u)
    BY <1>1, <2>1 DEF Kept, ShutdownKeepsTraffic
  <2> QED
    BY <2>1, <2>2 DEF Exact
<1>2. CASE pc # "gone"
  <2>1. MainExits
    BY <1>2, Lives DEF IInv, PanelStart
  <2>2. /\ pc = "done"
        /\ restarts = 0 /\ ~failed /\ ~reused /\ UNCHANGED <<total, due>> /\ pending'[u] = 0
    BY <1>2, <2>1 DEF MainExits, conns, vars
  <2>3. pending[u] = 0 /\ Exact(u)
    BY <1>2, <2>2 DEF IInv, Flushed, Accounted
  <2> QED
    BY <2>2, <2>3 DEF Exact
<1> QED
  BY <1>1, <1>2

(* If main waited for the poller, an orderly shutdown would lose nothing   *)
(* but what a failing last write leaves: that main does not wait is the    *)
(* whole loss.                                                             *)
THEOREM ShutdownKeepsTrafficThm ==
  Spec /\ MainWaits => [](restarts = 0 => ShutdownKeepsTraffic)
<1>1. Init => WaitInv
  BY InitInv DEF Init, WaitInv, Flushed, Kept, ShutdownKeepsTraffic
<1>2. WaitInv /\ [Next]_vars /\ [MainExits => pc = "done"]_vars => WaitInv'
  BY StepInv, StepFlushed, StepKept DEF WaitInv, IInv
<1>3. WaitInv => (restarts = 0 => ShutdownKeepsTraffic)
  BY DEF WaitInv, Kept
<1> QED
  BY <1>1, <1>2, <1>3, PTL DEF Spec, MainWaits
=============================================================================
