-------------------------- MODULE Monitoring_proofs --------------------------
(***************************************************************************)
(* Theorems about the two views of a running sing-box.  LiveMonitor: the   *)
(* rate on display, for any number of runs and samples.  ConnectionLog:    *)
(* the page, for any log, tail and set of connections.                     *)
(***************************************************************************)
EXTENDS LiveMonitor, ConnectionLog, Inductions

-----------------------------------------------------------------------------
(* LiveMonitor.  The inductive invariant says where the rate on display    *)
(* can come from at each point of the loop.                                *)

(* Samples on their way belong to the open stream.  Between streams a rate *)
(* has outlived one stream; in a stream it is its own once there was a     *)
(* sample, and the previous stream's before.                               *)
RateInv ==
  /\ up => run > 0
  /\ ended \in {0, 1}
  /\ pc = "read" => \A i \in 1..Len(wire) : wire[i].run = stream
  /\ pc \in {"check", "open", "wait"} /\ latest # Zero => ended = 1
  /\ pc = "read" /\ hadSample => latest \in Sample /\ latest.run = stream /\ ended = 0
  /\ pc = "read" /\ ~hadSample /\ latest # Zero => ended = 1
  /\ ended = 0 /\ latest # Zero => hadSample

LiveInv == LiveTypeOK /\ RateInv

LEMMA LiveInitInv == LiveInit => LiveInv
<1> SUFFICES ASSUME LiveInit PROVE LiveInv
  OBVIOUS
<1>1. wire = <<>> /\ wire \in Seq(Sample) /\ Len(wire) = 0
  BY DEF LiveInit
<1>2. LiveTypeOK
  <2>1. run \in 0..MaxRuns /\ sent \in 0..MaxSamples /\ stream \in 0..run
    BY LiveAssumption DEF LiveAssumption, LiveInit
  <2> QED
    BY <1>1, <2>1 DEF LiveInit, LiveTypeOK
<1>3. RateInv
  BY <1>1 DEF LiveInit, RateInv
<1> QED
  BY <1>2, <1>3 DEF LiveInv

LEMMA LiveStepInv == LiveInv /\ [LiveNext]_liveVars => LiveInv'
<1> SUFFICES ASSUME LiveInv, [LiveNext]_liveVars PROVE LiveInv'
  OBVIOUS
<1> USE LiveAssumption DEF LiveAssumption, LiveInv, LiveTypeOK, RateInv, singbox, Shown, Goto
<1>1. ASSUME SingboxStarts PROVE LiveInv'
  BY <1>1 DEF SingboxStarts
<1>2. ASSUME SingboxEnds PROVE LiveInv'
  BY <1>2 DEF SingboxEnds
<1>3. ASSUME Tick PROVE LiveInv'
  <2>1. CASE stream # run
    BY <1>3, <2>1 DEF Tick
  <2>2. CASE stream = run
    <3> DEFINE s == [run |-> run, n |-> sent']
    <3>1. s \in Sample /\ s.run = stream
      <4>1. run \in 1..MaxRuns
        BY <1>3 DEF Tick
      <4> QED
        BY <1>3, <2>2, <4>1 DEF Tick, Sample
    <3>2. wire' = Append(wire, s) /\ wire' \in Seq(Sample)
      BY <1>3, <2>2, <3>1 DEF Tick
    <3>3. pc = "read" => \A i \in 1..Len(wire') : wire'[i].run = stream
      BY <3>1, <3>2
    <3> QED
      BY <1>3, <3>2, <3>3 DEF Tick
  <2> QED
    BY <2>1, <2>2
<1>4. ASSUME Cancel PROVE LiveInv'
  BY <1>4 DEF Cancel
<1>5. ASSUME Check PROVE LiveInv'
  BY <1>5 DEF Check
<1>6. ASSUME Open PROVE LiveInv'
  <2>1. wire' \in Seq(Sample) /\ Len(wire') = 0
    BY <1>6 DEF Open
  <2>2. /\ pc = "open" /\ hadSample' = FALSE /\ UNCHANGED <<run, up, sent, cancelled>>
        /\ \/ up /\ stream' = run /\ pc' = "read" /\ UNCHANGED <<latest, ended>>
           \/ stream' = stream /\ latest' = Zero /\ ended' = 0 /\ pc' = "wait"
    BY <1>6 DEF Open
  <2>3. LiveTypeOK'
    <3>1. up' \in BOOLEAN /\ cancelled' \in BOOLEAN /\ hadSample' \in BOOLEAN
      BY <2>2
    <3>2. run' \in 0..MaxRuns /\ sent' \in 0..MaxSamples /\ stream' \in 0..run' /\ ended' \in {0, 1}
      BY <2>2
    <3>3. latest' \in Sample \cup {Zero} /\ pc' \in {"check", "open", "read", "wait", "end"}
      BY <2>2
    <3>4. stream' # 0 <=> pc' = "read"
      BY <2>2
    <3> QED
      BY <2>1, <3>1, <3>2, <3>3, <3>4
  <2>4. RateInv'
    BY <2>1, <2>2
  <2> QED
    BY <2>3, <2>4
<1>7. ASSUME ReadSample PROVE LiveInv'
  <2>1. Head(wire) \in Sample /\ Head(wire).run = stream /\ Tail(wire) \in Seq(Sample)
    BY <1>7 DEF ReadSample
  <2>2. \A i \in 1..Len(Tail(wire)) : Tail(wire)[i].run = stream
    BY <1>7 DEF ReadSample
  <2>3. Zero \notin Sample
    OBVIOUS
  <2>4. latest' = Head(wire) /\ ended' = 0 /\ hadSample' = TRUE /\ wire' = Tail(wire)
    BY <1>7 DEF ReadSample
  <2>5. CASE cancelled /\ stream' = 0 /\ pc' = "end"
    BY <1>7, <2>1, <2>2, <2>3, <2>4, <2>5 DEF ReadSample
  <2>6. CASE ~cancelled /\ stream' = stream /\ pc' = "read"
    BY <1>7, <2>1, <2>2, <2>3, <2>4, <2>6 DEF ReadSample
  <2> QED
    BY <1>7, <2>5, <2>6 DEF ReadSample
<1>8. ASSUME EndOfStream PROVE LiveInv'
  BY <1>8 DEF EndOfStream
<1>9. ASSUME ReadEnds PROVE LiveInv'
  <2>1. CASE EndOfStream
    BY ONLY <1>8, <2>1
  <2>2. CASE ~EndOfStream
    <3>1. /\ pc = "read" /\ stream' = 0 /\ wire' = <<>> /\ pc' = "end"
          /\ UNCHANGED <<run, up, sent, cancelled, latest, ended, hadSample>>
      BY <1>9, <2>2 DEF ReadEnds
    <3>2. wire' \in Seq(Sample) /\ Len(wire') = 0
      BY <3>1
    <3> QED
      BY <3>1, <3>2
  <2> QED
    BY ONLY <2>1, <2>2
<1>10. ASSUME StreamCloses PROVE LiveInv'
  BY <1>8, <1>10 DEF StreamCloses
<1>11. ASSUME ReadFails PROVE LiveInv'
  BY <1>11 DEF ReadFails
<1>12. ASSUME Wait PROVE LiveInv'
  BY <1>12 DEF Wait
<1>13. ASSUME UNCHANGED liveVars PROVE LiveInv'
  BY <1>13 DEF liveVars
<1> QED
  BY <1>1, <1>2, <1>3, <1>4, <1>5, <1>6, <1>7, <1>9, <1>10, <1>11, <1>12, <1>13 DEF LiveNext, Run

(* The inductive invariant holds throughout.                               *)
THEOREM LiveInvariance == LiveSpec => []LiveInv
BY LiveInitInv, LiveStepInv, PTL DEF LiveSpec

(* The state stays well formed.                                            *)
THEOREM TypeCorrect == LiveSpec => []LiveTypeOK
<1>1. LiveInv => LiveTypeOK
  BY DEF LiveInv
<1> QED
  BY <1>1, LiveInvariance, PTL

(* A rate on display never outlives two streams, however often sing-box    *)
(* and its streams come and go.                                            *)
THEOREM RateIsCurrentThm == LiveSpec => []RateIsCurrent
<1>1. LiveInv => RateIsCurrent
  BY DEF LiveInv, LiveTypeOK, RateInv, RateIsCurrent
<1> QED
  BY <1>1, LiveInvariance, PTL

\* How far the loop of Run is from blanking the display while sing-box is down.
DownLeft ==
  CASE pc = "read" -> Len(wire) + 3
    [] pc = "wait" /\ latest # Zero -> 2
    [] pc \in {"check", "open"} /\ latest # Zero -> 1
    [] OTHER -> 0

(* While sing-box is down every step of the loop brings the display nearer *)
(* to zero, samples still on their way included, and nothing else sets it  *)
(* back; when no step is left the rate is zero or the monitor has ended.   *)
DownIsNoticed ==
  /\ [](DownLeft = 0 => latest = Zero \/ pc = "end")
  /\ [][~up /\ ~up' => /\ DownLeft' <= DownLeft
                       /\ Run /\ DownLeft > 0 => DownLeft' < DownLeft]_liveVars

LEMMA DownStep ==
  ASSUME LiveTypeOK, [LiveNext]_liveVars, ~up, ~up'
  PROVE  /\ DownLeft' <= DownLeft
         /\ Run /\ DownLeft > 0 => DownLeft' < DownLeft
<1> USE DEF Goto, Shown
<1>1. wire \in Seq(Sample) /\ Len(wire) \in Nat
  BY DEF LiveTypeOK
<1>2. pc # "read" => DownLeft \in {0, 1, 2}
  BY DEF DownLeft
<1>3. pc = "read" => DownLeft = Len(wire) + 3
  BY DEF DownLeft
<1>4. DownLeft \in Nat
  BY <1>1, <1>2, <1>3
<1>5. ASSUME UNCHANGED <<pc, wire, latest>> PROVE DownLeft' = DownLeft
  BY <1>5 DEF DownLeft
<1>6. CASE SingboxStarts \/ SingboxEnds \/ Tick \/ Cancel \/ UNCHANGED liveVars
  <2>1. UNCHANGED <<pc, wire, latest>> /\ ~Run
    BY <1>6 DEF SingboxStarts, SingboxEnds, Tick, Cancel, liveVars, singbox, Run, Check, Open,
       ReadSample, ReadEnds, EndOfStream, Wait
  <2> QED
    BY <1>4, <1>5, <2>1
\* With sing-box down an attempt to open a stream fails, and shows zero.
<1>7. CASE Open \/ ReadFails
  <2>1. pc' = "wait" /\ latest' = Zero
    BY <1>7 DEF Open, ReadFails
  <2>2. DownLeft' = 0
    BY <2>1 DEF DownLeft
  <2> QED
    BY <1>4, <2>2
<1>8. CASE Check
  <2>1. pc' = "end" \/ (pc' = "wait" /\ latest' = Zero)
    BY <1>8 DEF Check
  <2>2. DownLeft' = 0
    BY <2>1 DEF DownLeft
  <2> QED
    BY <1>4, <2>2
<1>9. CASE ReadSample
  <2>1. pc = "read" /\ Len(wire') = Len(wire) - 1 /\ Len(wire') \in Nat
        /\ (pc' = "read" \/ pc' = "end")
    BY <1>1, <1>9 DEF ReadSample
  <2>2. DownLeft' \in {0, Len(wire') + 3}
    BY <2>1 DEF DownLeft
  <2> QED
    BY <1>1, <1>3, <2>1, <2>2
<1>10. CASE ReadEnds
  <2>1. pc = "read" /\ pc' \in {"wait", "end"}
    BY <1>10 DEF ReadEnds, EndOfStream
  <2>2. DownLeft' \in {0, 1, 2}
    BY <2>1 DEF DownLeft
  <2> QED
    BY <1>1, <1>3, <2>1, <2>2
<1>11. CASE Wait
  <2>1. pc = "wait" /\ pc' \in {"check", "end"} /\ latest' = latest
    BY <1>11 DEF Wait
  <2>2. IF latest = Zero THEN DownLeft = 0 /\ DownLeft' = 0 ELSE DownLeft = 2 /\ DownLeft' \in {0, 1}
    BY <2>1 DEF DownLeft
  <2> QED
    BY <2>2
<1> QED
  BY <1>6, <1>7, <1>8, <1>9, <1>10, <1>11 DEF LiveNext, Run, StreamCloses

(* However many samples and runs there were, once sing-box is down the     *)
(* rate is gone after a bounded number of steps of the loop.               *)
THEOREM DownIsNoticedThm == LiveSpec => DownIsNoticed
<1> DEFINE P == DownLeft = 0 => latest = Zero \/ pc = "end"
           A == ~up /\ ~up' => /\ DownLeft' <= DownLeft
                               /\ Run /\ DownLeft > 0 => DownLeft' < DownLeft
<1>1. LiveTypeOK => P
  <2> SUFFICES ASSUME LiveTypeOK, DownLeft = 0, latest # Zero PROVE pc = "end"
    OBVIOUS
  <2>1. Len(wire) + 3 # 0
    BY DEF LiveTypeOK
  <2> QED
    BY <2>1 DEF LiveTypeOK, DownLeft
<1>2. LiveTypeOK /\ [LiveNext]_liveVars => [A]_liveVars
  BY DownStep
<1>3. DownIsNoticed <=> []P /\ [][A]_liveVars
  BY DEF DownIsNoticed
<1> HIDE DEF P, A
<1> QED
  BY <1>1, <1>2, <1>3, TypeCorrect, PTL DEF LiveSpec

-----------------------------------------------------------------------------
(* ConnectionLog.  Most of what there is to prove is about one state: the  *)
(* fold of the parser over the complete lines of the tail builds what      *)
(* Shows defines by comprehension over the whole log.                      *)

Val     == Nat \cup Outbound
LogLine == [kind : Kinds, id : Id, val : Val]

LogInv ==
  /\ log \in Seq(LogLine) /\ half \in BOOLEAN
  /\ Len(log) <= MaxLines /\ (half => Len(log) > 0)

LEMMA LogInvThm == LogSpec => []LogInv
<1>1. LogInit => LogInv
  <2> SUFFICES ASSUME log = <<>>, half = FALSE PROVE LogInv
    BY DEF LogInit
  <2>1. log \in Seq(LogLine) /\ Len(log) = 0 /\ 0 <= MaxLines
    BY LogAssumption DEF LogAssumption
  <2> QED
    BY <2>1 DEF LogInv
<1>2. LogInv /\ [LogNext]_logVars => LogInv'
  <2> SUFFICES ASSUME LogInv, [LogNext]_logVars PROVE LogInv'
    OBVIOUS
  <2>1. ASSUME NEW kind \in Kinds, NEW id \in Id, NEW o \in Outbound,
               half' = TRUE, Len(log) < MaxLines,
               log' = Append(log, [kind |-> kind, id |-> id,
                                   val |-> IF kind = "out" THEN o ELSE Len(log) + 1])
        PROVE  LogInv'
    <3> DEFINE l == [kind |-> kind, id |-> id, val |-> IF kind = "out" THEN o ELSE Len(log) + 1]
    <3>1. Len(log) \in Nat
      BY DEF LogInv
    <3>2. l \in LogLine
      BY <3>1 DEF LogLine, Val
    <3>3. log' = Append(log, l)
      BY <2>1
    <3> HIDE DEF l
    <3> QED
      BY <2>1, <3>2, <3>3, LogAssumption DEF LogInv, LogAssumption
  <2>2. CASE WriteHead
    BY <2>1, <2>2 DEF WriteHead
  <2>3. CASE WriteTail
    BY <2>3 DEF WriteTail, LogInv
  <2>4. CASE UNCHANGED logVars
    BY <2>4 DEF logVars, LogInv
  <2> QED
    BY <2>2, <2>3, <2>4 DEF LogNext
<1> QED
  BY <1>1, <1>2, PTL DEF LogSpec

-----------------------------------------------------------------------------
(* Sets of lines, as the log is read on.                                   *)

LEMMA Grown ==
  ASSUME NEW i \in Nat, NEW T \in SUBSET (1..(i - 1))
  PROVE  /\ Min(T \cup {i}) = IF T = {} THEN i ELSE Min(T)
         /\ Max(T \cup {i}) = i
         /\ T # {} => Min(T) \in T /\ Max(T) \in T /\ \A x \in T : Min(T) <= x /\ x <= Max(T)
<1> DEFINE V == T \cup {i}
<1>1. V \in SUBSET (0..i) /\ V # {} /\ T \in SUBSET (0..i)
  OBVIOUS
<1>2. /\ Min(V) \in V /\ \A x \in V : Min(V) <= x
      /\ Max(V) \in V /\ \A x \in V : x <= Max(V)
  <2> HIDE DEF V
  <2> QED
    BY <1>1, MinOf, MaxOf
<1>3. T # {} => Min(T) \in T /\ Max(T) \in T /\ \A x \in T : Min(T) <= x /\ x <= Max(T)
  BY <1>1, MinOf, MaxOf
<1>4. Max(V) = i
  <2>1. i \in V /\ V \in SUBSET Nat /\ \A x \in V : x <= i
    OBVIOUS
  <2> HIDE DEF V
  <2>2. Max(V) \in Nat /\ Max(V) <= i /\ i <= Max(V)
    BY <1>2, <2>1
  <2> QED
    BY <2>2
<1>5. CASE T = {}
  BY <1>2, <1>4, <1>5
<1>6. CASE T # {}
  <2> DEFINE m == Min(T)
             v == Min(V)
  <2>1. m \in T /\ m \in V /\ (\A x \in T : m <= x) /\ v \in V /\ \A x \in V : v <= x
    BY <1>2, <1>3, <1>6
  <2> HIDE DEF m, v
  <2>2. v <= m /\ m < i /\ m \in Nat /\ v \in Nat
    BY <2>1
  <2>3. v \in T
    BY <2>1, <2>2
  <2>4. m <= v
    BY <2>1, <2>3
  <2>5. v = m
    BY <2>2, <2>4
  <2> QED
    BY <1>3, <1>4, <1>6, <2>5 DEF m, v
<1> QED
  BY <1>5, <1>6

Belongs(i, c) == log[i].kind \notin {"started", "noise"} /\ <<Epoch(i), log[i].id>> = c

LEMMA LinesGrow ==
  ASSUME NEW i \in Nat, NEW s \in SUBSET (1..(i - 1)), NEW c
  PROVE  /\ Lines(c, s) \in SUBSET (1..(i - 1))
         /\ Lines(c, s \cup {i}) = IF Belongs(i, c) THEN Lines(c, s) \cup {i} ELSE Lines(c, s)
         /\ \A k : /\ OfKind(c, s, k) \in SUBSET (1..(i - 1))
                   /\ OfKind(c, s \cup {i}, k) = IF Belongs(i, c) /\ log[i].kind = k
                                                 THEN OfKind(c, s, k) \cup {i} ELSE OfKind(c, s, k)
<1>1. Lines(c, s) \in SUBSET (1..(i - 1))
  BY DEF Lines
<1>2. Lines(c, s \cup {i}) = IF Belongs(i, c) THEN Lines(c, s) \cup {i} ELSE Lines(c, s)
  BY DEF Lines, Belongs
<1> QED
  BY <1>1, <1>2 DEF OfKind

-----------------------------------------------------------------------------
(* The outbounds of a connection.                                          *)

New(O) == {i \in O : ~\E j \in O : /\ j < i /\ log[j].val = log[i].val
                                   /\ ~\E k \in O : j < k /\ k < i}
Self(S) == [x \in S |-> x]

LEMMA NewGrows ==
  ASSUME NEW i \in Nat, NEW O \in SUBSET (1..(i - 1))
  PROVE  New(O \cup {i}) = IF O # {} /\ log[Max(O)].val = log[i].val THEN New(O) ELSE New(O) \cup {i}
<1> DEFINE P == O \cup {i}
           Repeats(x, S) == \E j \in S : /\ j < x /\ log[j].val = log[x].val
                                         /\ ~\E k \in S : j < k /\ k < x
<1>1. New(O) = {x \in O : ~Repeats(x, O)} /\ New(P) = {x \in P : ~Repeats(x, P)}
  BY DEF New
<1>2. \A x \in O : x < i
  OBVIOUS
<1>3. ASSUME NEW x \in O PROVE Repeats(x, P) <=> Repeats(x, O)
  <2>1. \A j \in P : j < x => j \in O
    BY <1>2
  <2>2. \A j \in O : (\E k \in P : j < k /\ k < x) <=> (\E k \in O : j < k /\ k < x)
    BY <2>1
  <2> QED
    BY <2>1, <2>2
<1>4. Repeats(i, P) <=> O # {} /\ log[Max(O)].val = log[i].val
  <2>1. CASE O = {}
    BY <2>1
  <2>2. CASE O # {}
    <3> DEFINE m == Max(O)
    <3>1. m \in O /\ \A x \in O : x <= m
      BY <2>2, Grown
    <3> HIDE DEF m
    <3>2. ~\E k \in P : m < k /\ k < i
      BY <1>2, <3>1
    <3>3. ASSUME NEW j \in P, j < i, ~\E k \in P : j < k /\ k < i PROVE j = m
      <4>1. j \in O /\ ~(j < m) /\ j <= m
        BY <1>2, <3>1, <3>3
      <4> QED
        BY <3>1, <4>1
    <3>4. Repeats(i, P) <=> log[m].val = log[i].val
      BY <1>2, <3>1, <3>2, <3>3
    <3> QED
      BY <2>2, <3>4 DEF m
  <2> QED
    BY <2>1, <2>2
<1>5. i \notin O
  BY <1>2
<1> HIDE DEF Repeats
<1> QED
  BY <1>1, <1>3, <1>4, <1>5

LEMMA UsedForm ==
  ASSUME NEW c, NEW s, NEW u, NEW n,
         Lists(u, n, New(OfKind(c, s, "out")), Self(New(OfKind(c, s, "out"))))
  PROVE  Used(c, s) = [k \in 1..n |-> log[u[k]].val] /\ n \in Nat
<1> DEFINE N == New(OfKind(c, s, "out"))
           At(k) == CHOOSE i \in N : Cardinality({j \in N : j <= i}) = k
<1>1. Used(c, s) = [k \in 1..Cardinality(N) |-> log[At(k)].val]
  BY DEF Used, New
<1> HIDE DEF N
<1>2. Lists(u, n, N, Self(N))
  BY DEF N
<1>3. /\ n \in Nat /\ u \in [1..n -> N] /\ \A x \in N : \E p \in 1..n : u[p] = x
  BY <1>2 DEF Lists
<1>4. /\ Cardinality(N) = n
      /\ \A p \in 1..n : Cardinality(UpTo(N, Self(N), Self(N)[u[p]])) = p
  BY <1>2, Ranked
<1>5. \A p \in 1..n : Cardinality({x \in N : x <= u[p]}) = p
  <2> TAKE p \in 1..n
  <2>1. UpTo(N, Self(N), Self(N)[u[p]]) = {x \in N : x <= u[p]}
    BY <1>3 DEF Self, UpTo
  <2> QED
    BY <1>4, <2>1
<1>6. \A k \in 1..n : At(k) = u[k]
  <2> TAKE k \in 1..n
  <2>1. u[k] \in N /\ Cardinality({x \in N : x <= u[k]}) = k
    BY <1>3, <1>5
  <2>2. At(k) \in N /\ Cardinality({x \in N : x <= At(k)}) = k
    BY <2>1
  <2>3. PICK p \in 1..n : u[p] = At(k)
    BY <1>3, <2>2
  <2> HIDE DEF At
  <2>4. p = k
    BY <1>5, <2>2, <2>3
  <2> QED
    BY <2>3, <2>4
<1> HIDE DEF At
<1> QED
  BY <1>1, <1>3, <1>4, <1>6

Outs(c, s) == OfKind(c, s, "out")

\* What Used lists, and that its last outbound is that of the last "out" line.
UsedLists(c, s, u, n) ==
  /\ Lists(u, n, New(Outs(c, s)), Self(New(Outs(c, s))))
  /\ Outs(c, s) # {} => n > 0 /\ log[u[n]].val = log[Max(Outs(c, s))].val
  /\ Outs(c, s) = {} => n = 0

UsedOK(c, s) == \E u, n : UsedLists(c, s, u, n)

Typed(s) == \A j \in s : log[j] \in LogLine

LEMMA UsedValue ==
  ASSUME NEW c, NEW s, Typed(s),
         NEW u, NEW n, UsedLists(c, s, u, n)
  PROVE  /\ n \in Nat /\ Used(c, s) \in Seq(Val) /\ Len(Used(c, s)) = n
         /\ \A k \in 1..n : Used(c, s)[k] = log[u[k]].val
<1>1. Used(c, s) = [k \in 1..n |-> log[u[k]].val] /\ n \in Nat
  BY UsedForm DEF UsedLists, Outs
<1>2. \A k \in 1..n : log[u[k]].val \in Val
  <2>1. \A k \in 1..n : u[k] \in s
    BY DEF UsedLists, Lists, New, Outs, OfKind, Lines
  <2> QED
    BY <2>1 DEF LogLine, Typed
<1> HIDE DEF UsedLists
<1>3. Used(c, s) \in Seq(Val) /\ Len(Used(c, s)) = n
  BY <1>1, <1>2
<1> QED
  BY <1>1, <1>3

LEMMA UsedGrows ==
  ASSUME NEW i \in Nat, NEW s \in SUBSET (1..(i - 1)), NEW c,
         Typed(s), log[i] \in LogLine, UsedOK(c, s)
  PROVE  /\ UsedOK(c, s \cup {i})
         /\ Used(c, s \cup {i}) =
              IF Belongs(i, c) /\ log[i].kind = "out" /\ ~(Used(c, s) # <<>> /\ Last(Used(c, s)) = log[i].val)
              THEN Append(Used(c, s), log[i].val) ELSE Used(c, s)
<1> DEFINE t == s \cup {i}
           O == Outs(c, s)
           v == log[i].val
<1>1. PICK u, n : UsedLists(c, s, u, n)
  BY DEF UsedOK
<1>2. /\ n \in Nat /\ Used(c, s) \in Seq(Val) /\ Len(Used(c, s)) = n
      /\ \A k \in 1..n : Used(c, s)[k] = log[u[k]].val
      /\ n > 0 => Last(Used(c, s)) = log[u[n]].val
  <2> HIDE DEF t, O, v
  <2>2. /\ n \in Nat /\ Used(c, s) \in Seq(Val) /\ Len(Used(c, s)) = n
        /\ \A k \in 1..n : Used(c, s)[k] = log[u[k]].val
    BY ONLY Typed(s), <1>1, UsedValue
  <2>3. n > 0 => n \in 1..n
    BY <2>2
  <2>4. n > 0 => Last(Used(c, s)) = log[u[n]].val
    BY <2>2, <2>3 DEF Last
  <2> QED
    BY <2>2, <2>4
<1>3. /\ O \in SUBSET (1..(i - 1))
      /\ Outs(c, t) = IF Belongs(i, c) /\ log[i].kind = "out" THEN O \cup {i} ELSE O
  <2>1. /\ OfKind(c, s, "out") \in SUBSET (1..(i - 1))
        /\ OfKind(c, s \cup {i}, "out") = IF Belongs(i, c) /\ log[i].kind = "out"
                                         THEN OfKind(c, s, "out") \cup {i} ELSE OfKind(c, s, "out")
    <3>1. \A k : /\ OfKind(c, s, k) \in SUBSET (1..(i - 1))
                 /\ OfKind(c, s \cup {i}, k) = IF Belongs(i, c) /\ log[i].kind = k
                                               THEN OfKind(c, s, k) \cup {i} ELSE OfKind(c, s, k)
      BY LinesGrow
    <3> HIDE DEF t, O, v
    <3> QED
      BY <3>1
  <2> QED
    BY <2>1 DEF Outs
<1>4. Typed(t)
  BY DEF Typed
<1> HIDE DEF t, O
<1>5. /\ Lists(u, n, New(O), Self(New(O)))
      /\ O # {} => n > 0 /\ log[u[n]].val = log[Max(O)].val
      /\ O = {} => n = 0
  BY <1>1 DEF UsedLists, O
<1>6. (Used(c, s) # <<>> /\ Last(Used(c, s)) = v) <=> (O # {} /\ log[Max(O)].val = v)
  BY <1>2, <1>5
<1>7. CASE Outs(c, t) = O
  <2>1. UsedLists(c, t, u, n)
    BY <1>5, <1>7 DEF UsedLists
  <2>2. Used(c, t) = Used(c, s)
    <3>1. Used(c, t) = [k \in 1..n |-> log[u[k]].val]
      BY <2>1, UsedForm DEF UsedLists, Outs
    <3>2. Used(c, s) = [k \in 1..n |-> log[u[k]].val]
      BY <1>1, UsedForm DEF UsedLists, Outs
    <3> QED
      BY <3>1, <3>2
  <2>3. ~(Belongs(i, c) /\ log[i].kind = "out")
    BY <1>3, <1>7
  <2> QED
    BY <2>1, <2>2, <2>3 DEF UsedOK, t
<1>8. CASE Belongs(i, c) /\ log[i].kind = "out" /\ O # {} /\ log[Max(O)].val = v
  <2>1. Outs(c, t) = O \cup {i} /\ New(Outs(c, t)) = New(O)
    BY <1>3, <1>8, NewGrows
  <2>2. Max(Outs(c, t)) = i
    BY <1>3, <2>1, Grown
  <2>3. UsedLists(c, t, u, n)
    BY <1>5, <1>8, <2>1, <2>2 DEF UsedLists
  <2>4. Used(c, t) = Used(c, s)
    <3>1. Used(c, t) = [k \in 1..n |-> log[u[k]].val]
      BY <2>3, UsedForm DEF UsedLists, Outs
    <3>2. Used(c, s) = [k \in 1..n |-> log[u[k]].val]
      BY <1>1, UsedForm DEF UsedLists, Outs
    <3> QED
      BY <3>1, <3>2
  <2> QED
    BY <1>6, <1>8, <2>3, <2>4 DEF UsedOK, t
<1>9. CASE Belongs(i, c) /\ log[i].kind = "out" /\ ~(O # {} /\ log[Max(O)].val = v)
  <2> DEFINE w == [p \in 1..(n + 1) |-> IF p = n + 1 THEN i ELSE u[p]]
             N == New(O)
             later == Self(N \cup {i})
  <2>1. Outs(c, t) = O \cup {i} /\ New(Outs(c, t)) = N \cup {i}
    BY <1>3, <1>9, NewGrows
  <2>2. Max(Outs(c, t)) = i
    BY <1>3, <2>1, Grown
  <2>3. N \in SUBSET (1..(i - 1)) /\ i \notin N
    <3>1. N \subseteq O
      BY DEF New
    <3>2. i \notin 1..(i - 1)
      OBVIOUS
    <3> HIDE DEF N
    <3> QED
      BY <1>3, <3>1, <3>2
  <2>4. later \in [N \cup {i} -> Nat] /\ \A y \in N : later[y] = Self(N)[y] /\ later[y] < later[i]
    BY <2>3 DEF Self
  <2> HIDE DEF N
  <2>5. Lists(w, n + 1, N \cup {i}, later)
    <3> HIDE DEF later
    <3>1. Lists(u, n, N, Self(N))
      BY <1>5 DEF N
    <3> QED
      BY <2>3, <2>4, <3>1, ListingGrows
  <2>6. /\ w[n + 1] = i /\ n + 1 > 0 /\ n + 1 \in Nat
        /\ \A k \in 1..n : w[k] = u[k]
    BY <1>2
  <2> HIDE DEF w
  <2>7. UsedLists(c, t, w, n + 1)
    BY <2>1, <2>2, <2>5, <2>6 DEF UsedLists
  <2>8. /\ Used(c, t) \in Seq(Val) /\ Len(Used(c, t)) = n + 1
        /\ \A k \in 1..(n + 1) : Used(c, t)[k] = log[w[k]].val
    BY <1>4, <2>7, UsedValue
  <2>9. v \in Val
    BY DEF LogLine
  <2>10. Used(c, t) = Append(Used(c, s), v)
    <3>1. Append(Used(c, s), v) \in Seq(Val) /\ Len(Append(Used(c, s), v)) = n + 1
      BY <1>2, <2>9
    <3>2. \A k \in 1..(n + 1) : Append(Used(c, s), v)[k] = Used(c, t)[k]
      BY <1>2, <2>6, <2>8, <2>9
    <3> HIDE DEF v
    <3> QED
      BY <2>8, <3>1, <3>2
  <2> QED
    BY <1>6, <1>9, <2>7, <2>10 DEF UsedOK, t
<1> QED
  BY <1>3, <1>7, <1>8, <1>9
-----------------------------------------------------------------------------
(* A line changes the entry of its connection as Fill does, and no other.  *)

Rec(a, b, f, t, o, x) ==
  [id |-> a, time |-> b, source |-> f, target |-> t, outbounds |-> o, error |-> x]

Repeated(o, v) == o # <<>> /\ Last(o) = v

LEMMA FillForm ==
  ASSUME NEW a, NEW b, NEW f, NEW t, NEW o, NEW x, NEW l, l.kind \in Kinds
  PROVE  Fill(Rec(a, b, f, t, o, x), l)
           = Rec(a, b, IF l.kind = "from" THEN l.val ELSE f, IF l.kind = "to" THEN l.val ELSE t,
                 IF l.kind = "out" /\ ~Repeated(o, l.val) THEN Append(o, l.val) ELSE o,
                 IF l.kind = "error" THEN l.val ELSE x)
<1> DEFINE e == Rec(a, b, f, t, o, x)
<1>1. /\ \A v : [e EXCEPT !.source = v] = Rec(a, b, v, t, o, x)
      /\ \A v : [e EXCEPT !.target = v] = Rec(a, b, f, v, o, x)
      /\ \A v : [e EXCEPT !.outbounds = v] = Rec(a, b, f, t, v, x)
      /\ \A v : [e EXCEPT !.error = v] = Rec(a, b, f, t, o, v)
      /\ [e EXCEPT !.outbounds = Append(@, l.val)] = Rec(a, b, f, t, Append(o, l.val), x)
      /\ e.outbounds = o
  <2>1. \A v : [e EXCEPT !.source = v] = Rec(a, b, v, t, o, x)
    BY DEF Rec
  <2>2. \A v : [e EXCEPT !.target = v] = Rec(a, b, f, v, o, x)
    BY DEF Rec
  <2>3. \A v : [e EXCEPT !.outbounds = v] = Rec(a, b, f, t, v, x)
    BY DEF Rec
  <2>4. \A v : [e EXCEPT !.error = v] = Rec(a, b, f, t, o, v)
    BY DEF Rec
  <2>5. e.outbounds = o
    BY DEF Rec
  <2>6. [e EXCEPT !.outbounds = Append(@, l.val)] = Rec(a, b, f, t, Append(o, l.val), x)
    <3> HIDE DEF e
    <3> QED
      BY <2>3, <2>5
  <2> QED
    BY <2>1, <2>2, <2>3, <2>4, <2>5, <2>6
<1> HIDE DEF e
<1>2. /\ l.kind = "error" => Fill(e, l) = [e EXCEPT !.error = l.val]
      /\ l.kind = "from"  => Fill(e, l) = [e EXCEPT !.source = l.val]
      /\ l.kind = "to"    => Fill(e, l) = [e EXCEPT !.target = l.val]
      /\ l.kind = "out"   => Fill(e, l) = IF Repeated(e.outbounds, l.val) THEN e
                                          ELSE [e EXCEPT !.outbounds = Append(@, l.val)]
      /\ l.kind \notin {"error", "from", "to", "out"} => Fill(e, l) = e
  BY DEF Fill, Repeated
<1>3. CASE l.kind = "error"
  BY <1>1, <1>2, <1>3 DEF e
<1>4. CASE l.kind = "from"
  BY <1>1, <1>2, <1>4 DEF e
<1>5. CASE l.kind = "to"
  BY <1>1, <1>2, <1>5 DEF e
<1>6. CASE l.kind = "out"
  BY <1>1, <1>2, <1>6 DEF e
<1>7. CASE l.kind \notin {"error", "from", "to", "out"}
  BY <1>1, <1>2, <1>7 DEF e
<1> QED
  BY <1>3, <1>4, <1>5, <1>6, <1>7 DEF e

LEMMA LatestGrows ==
  ASSUME NEW i \in Nat, NEW s \in SUBSET (1..(i - 1)), NEW c, NEW k
  PROVE  Latest(c, s \cup {i}, k)
           = IF Belongs(i, c) /\ log[i].kind = k THEN log[i].val ELSE Latest(c, s, k)
<1> DEFINE O == OfKind(c, s, k)
           P == OfKind(c, s \cup {i}, k)
<1>1. O \in SUBSET (1..(i - 1)) /\ P = IF Belongs(i, c) /\ log[i].kind = k THEN O \cup {i} ELSE O
  <2>1. \A kk : /\ OfKind(c, s, kk) \in SUBSET (1..(i - 1))
               /\ OfKind(c, s \cup {i}, kk) = IF Belongs(i, c) /\ log[i].kind = kk
                                              THEN OfKind(c, s, kk) \cup {i} ELSE OfKind(c, s, kk)
    BY LinesGrow
  <2> QED
    BY <2>1
<1>2. /\ Latest(c, s, k) = IF O = {} THEN None ELSE log[Max(O)].val
      /\ Latest(c, s \cup {i}, k) = IF P = {} THEN None ELSE log[Max(P)].val
  BY DEF Latest
<1> HIDE DEF O, P
<1>3. CASE Belongs(i, c) /\ log[i].kind = k
  <2>1. P = O \cup {i} /\ P # {} /\ Max(P) = i
    BY <1>1, <1>3, Grown
  <2> QED
    BY <1>2, <1>3, <2>1
<1>4. CASE ~(Belongs(i, c) /\ log[i].kind = k)
  BY <1>1, <1>2, <1>4
<1> QED
  BY <1>3, <1>4

LEMMA ExpectedForm ==
  ASSUME NEW c, NEW s
  PROVE  Expected(c, s) = Rec(c[2], log[Min(Lines(c, s))].val, Latest(c, s, "from"),
                              Latest(c, s, "to"), Used(c, s), Latest(c, s, "error"))
BY DEF Expected, Rec

LEMMA ExpectedGrows ==
  ASSUME NEW i \in Nat, NEW s \in SUBSET (1..(i - 1)), NEW c,
         Typed(s), log[i] \in LogLine, UsedOK(c, s)
  PROVE  /\ UsedOK(c, s \cup {i})
         /\ Expected(c, s \cup {i}) =
              IF ~Belongs(i, c) THEN Expected(c, s)
              ELSE IF Lines(c, s) = {} THEN Fill(NewEntry(log[i]), log[i])
              ELSE Fill(Expected(c, s), log[i])
<1> DEFINE t == s \cup {i}
           l == log[i]
           fr == Latest(c, s, "from")
           to == Latest(c, s, "to")
           er == Latest(c, s, "error")
           us == Used(c, s)
<1>1. /\ Latest(c, t, "from") = IF Belongs(i, c) /\ l.kind = "from" THEN l.val ELSE fr
      /\ Latest(c, t, "to") = IF Belongs(i, c) /\ l.kind = "to" THEN l.val ELSE to
      /\ Latest(c, t, "error") = IF Belongs(i, c) /\ l.kind = "error" THEN l.val ELSE er
  <2>1. \A k : Latest(c, s \cup {i}, k)
                = IF Belongs(i, c) /\ log[i].kind = k THEN log[i].val ELSE Latest(c, s, k)
    BY LatestGrows
  <2> QED
    BY <2>1
<1>2. /\ UsedOK(c, t)
      /\ Used(c, t) = IF Belongs(i, c) /\ l.kind = "out" /\ ~Repeated(us, l.val)
                      THEN Append(us, l.val) ELSE us
  BY UsedGrows DEF Repeated
<1>3. /\ Lines(c, s) \in SUBSET (1..(i - 1))
      /\ Lines(c, t) = IF Belongs(i, c) THEN Lines(c, s) \cup {i} ELSE Lines(c, s)
  BY LinesGrow
<1>4. /\ Expected(c, s) = Rec(c[2], log[Min(Lines(c, s))].val, fr, to, us, er)
      /\ Expected(c, t) = Rec(c[2], log[Min(Lines(c, t))].val, Latest(c, t, "from"),
                              Latest(c, t, "to"), Used(c, t), Latest(c, t, "error"))
  BY ExpectedForm
<1>5. l.kind \in Kinds
  BY DEF LogLine
<1>6. Lines(c, s) = {} => fr = None /\ to = None /\ er = None /\ us = <<>>
  <2> SUFFICES ASSUME Lines(c, s) = {} PROVE fr = None /\ to = None /\ er = None /\ us = <<>>
    OBVIOUS
  <2>1. \A k : OfKind(c, s, k) = {}
    BY DEF OfKind
  <2>2. PICK u, n : UsedLists(c, s, u, n)
    BY DEF UsedOK
  <2>3. n = 0
    BY <2>1, <2>2 DEF UsedLists, Outs
  <2>4. us \in Seq(Val) /\ Len(us) = 0
    BY <2>2, <2>3, UsedValue
  <2> QED
    BY <2>1, <2>4 DEF Latest
<1> HIDE DEF t, l, fr, to, er, us
<1>7. CASE ~Belongs(i, c)
  BY <1>1, <1>2, <1>3, <1>4, <1>7 DEF t
<1>8. CASE Belongs(i, c) /\ Lines(c, s) # {}
  <2>1. Min(Lines(c, t)) = Min(Lines(c, s))
    BY <1>3, <1>8, Grown
  <2>2. Expected(c, t) = Fill(Expected(c, s), l)
    BY <1>1, <1>2, <1>4, <1>5, <1>8, <2>1, FillForm
  <2> QED
    BY <1>2, <1>8, <2>2 DEF t, l
<1>9. CASE Belongs(i, c) /\ Lines(c, s) = {}
  <2>1. Min(Lines(c, t)) = i
    BY <1>3, <1>9, Grown
  <2>2. NewEntry(l) = Rec(l.id, l.val, None, None, <<>>, None)
    BY DEF NewEntry, Rec
  <2>3. c[2] = l.id
    BY <1>9 DEF Belongs, l
  <2>4. Expected(c, t) = Fill(NewEntry(l), l)
    <3>1. log[Min(Lines(c, t))].val = l.val
      BY <2>1 DEF l
    <3>2. Fill(NewEntry(l), l)
            = Rec(l.id, l.val, IF l.kind = "from" THEN l.val ELSE None,
                  IF l.kind = "to" THEN l.val ELSE None,
                  IF l.kind = "out" /\ ~Repeated(<<>>, l.val) THEN Append(<<>>, l.val) ELSE <<>>,
                  IF l.kind = "error" THEN l.val ELSE None)
      <4> DEFINE E == <<>>
      <4>1. NewEntry(l) = Rec(l.id, l.val, None, None, E, None)
        BY <2>2
      <4> HIDE DEF E
      <4>2. Fill(NewEntry(l), l)
              = Rec(l.id, l.val, IF l.kind = "from" THEN l.val ELSE None,
                    IF l.kind = "to" THEN l.val ELSE None,
                    IF l.kind = "out" /\ ~Repeated(E, l.val) THEN Append(E, l.val) ELSE E,
                    IF l.kind = "error" THEN l.val ELSE None)
        BY <1>5, <4>1, FillForm
      <4> QED
        BY <4>2 DEF E
    <3> QED
      BY <1>1, <1>2, <1>4, <1>6, <1>9, <2>3, <3>1, <3>2
  <2> QED
    BY <1>2, <1>9, <2>4 DEF t, l
<1> QED
  BY <1>7, <1>8, <1>9
-----------------------------------------------------------------------------
(* One line of the parser.                                                 *)

Entry == [id : Id, time : Val, source : Val \cup {None}, target : Val \cup {None},
          outbounds : Seq(Val), error : Val \cup {None}]
Acc   == [entries : Seq(Entry), byID : [Id -> Nat]]

LEMMA FillType == ASSUME NEW e \in Entry, NEW l \in LogLine PROVE Fill(e, l) \in Entry
<1>1. e = Rec(e.id, e.time, e.source, e.target, e.outbounds, e.error)
  BY DEF Entry, Rec
<1>2. l.kind \in Kinds /\ l.val \in Val
  BY DEF LogLine
<1>3. Fill(e, l)
        = Rec(e.id, e.time, IF l.kind = "from" THEN l.val ELSE e.source,
              IF l.kind = "to" THEN l.val ELSE e.target,
              IF l.kind = "out" /\ ~Repeated(e.outbounds, l.val) THEN Append(e.outbounds, l.val) ELSE e.outbounds,
              IF l.kind = "error" THEN l.val ELSE e.error)
  <2> DEFINE a == e.id
             b == e.time
             f == e.source
             t == e.target
             o == e.outbounds
             x == e.error
  <2>1. e = Rec(a, b, f, t, o, x)
    BY <1>1
  <2> HIDE DEF a, b, f, t, o, x
  <2>2. Fill(Rec(a, b, f, t, o, x), l)
           = Rec(a, b, IF l.kind = "from" THEN l.val ELSE f, IF l.kind = "to" THEN l.val ELSE t,
                 IF l.kind = "out" /\ ~Repeated(o, l.val) THEN Append(o, l.val) ELSE o,
                 IF l.kind = "error" THEN l.val ELSE x)
    BY <1>2, FillForm
  <2> QED
    BY <2>1, <2>2 DEF a, b, f, t, o, x
<1>4. Append(e.outbounds, l.val) \in Seq(Val)
  BY <1>2 DEF Entry
<1> QED
  BY <1>2, <1>3, <1>4 DEF Entry, Rec

LEMMA NewEntryType == ASSUME NEW l \in LogLine PROVE NewEntry(l) \in Entry
<1>1. <<>> \in Seq(Val)
  OBVIOUS
<1> QED
  BY <1>1 DEF NewEntry, Entry, LogLine

LEMMA ParseForm ==
  ASSUME NEW acc \in Acc, NEW l \in LogLine
  PROVE  LET next == ParseLine(acc, l)
             k    == acc.byID[l.id] IN
         /\ next \in Acc
         /\ l.kind = "started" => next.entries = acc.entries /\ next.byID = NoneYet
         /\ l.kind = "noise" => next = acc
         /\ l.kind \notin {"started", "noise"} =>
              /\ k # 0 => /\ next.entries = [acc.entries EXCEPT ![k] = Fill(acc.entries[k], l)]
                          /\ next.byID = acc.byID
              /\ k = 0 => /\ next.entries = Append(acc.entries, Fill(NewEntry(l), l))
                          /\ next.byID = [acc.byID EXCEPT ![l.id] = Len(acc.entries) + 1]
<1> DEFINE next == ParseLine(acc, l)
           k    == acc.byID[l.id]
<1>1. /\ acc.entries \in Seq(Entry) /\ acc.byID \in [Id -> Nat] /\ l.id \in Id /\ k \in Nat
      /\ Len(acc.entries) + 1 \in Nat
  BY DEF Acc, LogLine
<1>2. CASE l.kind = "started"
  <2>1. next = [acc EXCEPT !.byID = NoneYet]
    BY <1>2 DEF ParseLine
  <2>2. NoneYet \in [Id -> Nat]
    BY DEF NoneYet
  <2> HIDE DEF next
  <2> QED
    BY <1>2, <2>1, <2>2 DEF Acc, next
<1>3. CASE l.kind = "noise"
  BY <1>3 DEF ParseLine
<1>4. CASE l.kind \notin {"started", "noise"} /\ k # 0
  <2> DEFINE es == [acc.entries EXCEPT ![k] = Fill(acc.entries[k], l)]
  <2>1. next = [acc EXCEPT !.entries[acc.byID[l.id]] = Fill(@, l)]
    BY <1>4 DEF ParseLine
  <2>2. next = [acc EXCEPT !.entries = es]
    BY <2>1
  <2>3. es \in Seq(Entry)
    <3>1. k \in 1..Len(acc.entries) => acc.entries[k] \in Entry
      BY <1>1
    <3>2. k \in 1..Len(acc.entries) => Fill(acc.entries[k], l) \in Entry
      BY <3>1, FillType
    <3> DEFINE v == Fill(acc.entries[k], l)
               s == acc.entries
    <3>3. s \in Seq(Entry) /\ k \in Nat /\ es = [s EXCEPT ![k] = v] /\ (k \in 1..Len(s) => v \in Entry)
      BY <1>1, <3>2
    <3> HIDE DEF v, s, k, es
    <3>4. CASE k \in 1..Len(s)
      BY <3>3, <3>4
    <3>5. CASE k \notin 1..Len(s)
      <4>1. es = s
        BY <3>3, <3>5
      <4> QED
        BY <3>3, <4>1
    <3> QED
      BY <3>4, <3>5
  <2> HIDE DEF next, es, k
  <2>4. next \in Acc /\ next.entries = es /\ next.byID = acc.byID
    BY <2>2, <2>3 DEF Acc
  <2> QED
    BY <1>4, <2>4 DEF next, es, k
<1>5. CASE l.kind \notin {"started", "noise"} /\ k = 0
  <2> DEFINE es == Append(acc.entries, Fill(NewEntry(l), l))
             ids == [acc.byID EXCEPT ![l.id] = Len(acc.entries) + 1]
  <2>1. next = [entries |-> es, byID |-> ids]
    BY <1>5 DEF ParseLine
  <2>2. es \in Seq(Entry)
    BY <1>1, FillType, NewEntryType
  <2>3. ids \in [Id -> Nat]
    BY <1>1
  <2> HIDE DEF next, es, ids, k
  <2>4. next \in Acc /\ next.entries = es /\ next.byID = ids
    BY <2>1, <2>2, <2>3 DEF Acc
  <2> QED
    BY <1>5, <2>4 DEF next, es, ids, k
<1> QED
  BY <1>2, <1>3, <1>4, <1>5

-----------------------------------------------------------------------------
(* Runs of sing-box, counted by their first lines.                         *)

LEMMA EpochForm ==
  ASSUME LogInv, NEW i \in 1..Len(log)
  PROVE  /\ Epoch(i) \in 0..MaxLines /\ Epoch(i - 1) \in Nat
         /\ Epoch(i) = IF log[i].kind = "started" THEN Epoch(i - 1) + 1 ELSE Epoch(i - 1)
         /\ \A j \in 1..(i - 1) : Epoch(j) \in Nat /\ Epoch(j) <= Epoch(i - 1)
<1> DEFINE Begun(j) == {x \in 1..j : log[x].kind = "started"}
<1>1. i \in Nat /\ i - 1 \in Nat /\ Len(log) \in Nat /\ MaxLines \in Nat /\ i <= MaxLines
  BY LogAssumption DEF LogInv, LogAssumption
<1>2. ASSUME NEW j \in Nat PROVE IsFiniteSet(Begun(j)) /\ Cardinality(Begun(j)) \in 0..j
  <2>1. IsFiniteSet(1..j) /\ Cardinality(1..j) = j
    BY FS_Interval
  <2>2. Begun(j) \subseteq 1..j
    OBVIOUS
  <2> HIDE DEF Begun
  <2>3. IsFiniteSet(Begun(j)) /\ Cardinality(Begun(j)) <= Cardinality(1..j)
    BY <2>1, <2>2, FS_Subset
  <2>4. Cardinality(Begun(j)) \in Nat
    BY <2>3, FS_CardinalityType
  <2> QED
    BY <2>1, <2>3, <2>4
<1>3. Begun(i) = IF log[i].kind = "started" THEN Begun(i - 1) \cup {i} ELSE Begun(i - 1)
  BY <1>1
<1>4. i \notin Begun(i - 1)
  BY <1>1
<1>5. \A j \in 1..(i - 1) : j \in Nat /\ Begun(j) \subseteq Begun(i - 1)
  BY <1>1
<1>6. \A j : Epoch(j) = Cardinality(Begun(j))
  BY DEF Epoch
<1> HIDE DEF Begun
<1>7. Epoch(i) \in 0..MaxLines /\ Epoch(i - 1) \in Nat
  BY <1>1, <1>2, <1>6
<1>8. Epoch(i) = IF log[i].kind = "started" THEN Epoch(i - 1) + 1 ELSE Epoch(i - 1)
  BY <1>1, <1>2, <1>3, <1>4, <1>6, FS_AddElement
<1>9. \A j \in 1..(i - 1) : Epoch(j) \in Nat /\ Epoch(j) <= Epoch(i - 1)
  BY <1>1, <1>2, <1>5, <1>6, FS_Subset
<1> QED
  BY <1>7, <1>8, <1>9
-----------------------------------------------------------------------------
(* The parser's state after the lines of s: the entries are the            *)
(* connections of s in the order they were opened, each as it should be,   *)
(* and byID has those of the run e of sing-box.                            *)

Opened(s) == [c \in Connections(s) |-> Min(Lines(c, s))]

Reads(acc, s, e, ord, n) ==
  /\ Lists(ord, n, Connections(s), Opened(s))
  /\ Len(acc.entries) = n /\ \A p \in 1..n : acc.entries[p] = Expected(ord[p], s)
  /\ \A id \in Id : IF acc.byID[id] # 0 THEN acc.byID[id] \in 1..n /\ ord[acc.byID[id]] = <<e, id>>
                    ELSE <<e, id>> \notin Connections(s)

Parsed(acc, s, e) ==
  /\ acc \in Acc /\ \A c : UsedOK(c, s)
  /\ \E ord, n : Reads(acc, s, e, ord, n)

Relevant(i) == log[i].kind \notin {"started", "noise"}
Of(i) == <<Epoch(i), log[i].id>>

LEMMA LogLines ==
  ASSUME LogInv, NEW i \in 1..Len(log), NEW s \in SUBSET (1..(i - 1))
  PROVE  i \in Nat /\ Len(log) \in Nat /\ log[i] \in LogLine /\ log[i].id \in Id /\ Typed(s)
<1>1. log \in Seq(LogLine)
  BY DEF LogInv
<1>2. Len(log) \in Nat /\ \A j \in 1..Len(log) : log[j] \in LogLine
  BY <1>1
<1>3. \A j \in s : j \in 1..Len(log)
  BY <1>2
<1> HIDE DEF LogLine
<1>4. i \in Nat /\ log[i] \in LogLine /\ Typed(s)
  BY <1>2, <1>3 DEF Typed
<1> QED
  BY <1>2, <1>4 DEF LogLine

LEMMA ConnectionsGrow ==
  ASSUME LogInv, NEW i \in 1..Len(log), NEW s \in SUBSET (1..(i - 1))
  PROVE  LET t == s \cup {i} IN
         /\ \A c : Belongs(i, c) <=> Relevant(i) /\ c = Of(i)
         /\ ~Relevant(i) => Connections(t) = Connections(s) /\ Opened(t) = Opened(s)
         /\ Relevant(i) => Connections(t) = Connections(s) \cup {Of(i)}
         /\ Opened(t) \in [Connections(t) -> Nat]
         /\ \A c \in Connections(s) : /\ Lines(c, s) # {} /\ c \in Connections(t)
                                      /\ Opened(t)[c] = Opened(s)[c] /\ Opened(t)[c] < i
         /\ Of(i) \notin Connections(s) => Lines(Of(i), s) = {}
         /\ Relevant(i) /\ Of(i) \notin Connections(s) => Opened(t)[Of(i)] = i
<1> DEFINE t == s \cup {i}
           cc == Of(i)
           All == (0..MaxLines) \X Id
<1>1. i \in Nat /\ s \in SUBSET (1..(i - 1)) /\ log[i] \in LogLine /\ log[i].id \in Id
  BY LogLines
<1>2. \A c : Belongs(i, c) <=> Relevant(i) /\ c = cc
  BY DEF Belongs, Relevant, Of
<1>3. cc \in All
  BY <1>1, EpochForm DEF Of
<1>4. ASSUME NEW c
      PROVE  /\ Lines(c, s) \in SUBSET (1..(i - 1))
             /\ Lines(c, t) = IF Relevant(i) /\ c = cc THEN Lines(c, s) \cup {i} ELSE Lines(c, s)
  BY <1>1, <1>2, LinesGrow
<1>5. Connections(s) = {c \in All : Lines(c, s) # {}} /\ Connections(t) = {c \in All : Lines(c, t) # {}}
  BY DEF Connections
<1> HIDE DEF All, t, cc
<1>6. ~Relevant(i) => \A c : Lines(c, t) = Lines(c, s)
  BY <1>4
<1>7. ~Relevant(i) => Connections(t) = Connections(s) /\ Opened(t) = Opened(s)
  BY <1>5, <1>6 DEF Opened
<1>8. Relevant(i) => Connections(t) = Connections(s) \cup {cc}
  BY <1>3, <1>4, <1>5
<1>9. ASSUME NEW c \in Connections(s)
      PROVE  /\ Lines(c, s) # {} /\ c \in Connections(t)
             /\ Opened(t)[c] = Opened(s)[c] /\ Opened(t)[c] < i /\ Opened(t)[c] \in Nat
  <2>1. Lines(c, s) # {} /\ c \in Connections(t)
    BY <1>4, <1>5
  <2>2. Min(Lines(c, t)) = Min(Lines(c, s)) /\ Min(Lines(c, s)) \in Lines(c, s)
    <3> DEFINE T == Lines(c, s)
    <3>1. i \in Nat /\ T \in SUBSET (1..(i - 1)) /\ T # {}
      BY <1>1, <1>4, <2>1
    <3>2. Lines(c, t) = T \/ Lines(c, t) = T \cup {i}
      BY <1>4
    <3> HIDE DEF T
    <3>3. Min(T \cup {i}) = Min(T) /\ Min(T) \in T
      BY ONLY <3>1, Grown
    <3>4. Min(Lines(c, t)) = Min(T)
      BY ONLY <3>2, <3>3
    <3> QED
      BY <3>3, <3>4 DEF T
  <2>3. Opened(t)[c] = Min(Lines(c, t)) /\ Opened(s)[c] = Min(Lines(c, s))
    BY <2>1 DEF Opened
  <2>4. Min(Lines(c, s)) \in 1..(i - 1)
    BY <1>4, <2>2
  <2> QED
    BY <1>1, <2>1, <2>2, <2>3, <2>4
<1>10. cc \notin Connections(s) => Lines(cc, s) = {}
  BY <1>3, <1>5
<1>11. ASSUME Relevant(i), cc \notin Connections(s) PROVE Opened(t)[cc] = i
  <2>1. Lines(cc, s) = {} /\ Lines(cc, t) = Lines(cc, s) \cup {i}
    BY <1>4, <1>10, <1>11
  <2>2. Min(Lines(cc, t)) = i
    <3>1. i \in Nat /\ {} \in SUBSET (1..(i - 1)) /\ Lines(cc, t) = {} \cup {i}
      BY <1>1, <2>1
    <3>2. Min({} \cup {i}) = i
      BY ONLY <3>1, Grown
    <3> QED
      BY ONLY <3>1, <3>2
  <2> QED
    BY <1>8, <1>11, <2>2 DEF Opened
<1>12. Opened(t) \in [Connections(t) -> Nat]
  <2>1. \A c \in Connections(t) : Opened(t)[c] \in Nat
    <3> TAKE c \in Connections(t)
    <3>1. CASE c \in Connections(s)
      BY <1>9, <3>1
    <3>2. CASE c \notin Connections(s)
      <4>1. Relevant(i) /\ c = cc
        BY <1>7, <1>8, <3>2
      <4> QED
        BY <1>1, <1>11, <3>2, <4>1
    <3> QED
      BY <3>1, <3>2
  <2> QED
    BY <2>1 DEF Opened
<1> QED
  BY <1>2, <1>7, <1>8, <1>9, <1>10, <1>11, <1>12 DEF t, cc

LEMMA ParsedGrows ==
  ASSUME LogInv, NEW i \in 1..Len(log), NEW s \in SUBSET (1..(i - 1)),
         NEW acc, Parsed(acc, s, Epoch(i - 1))
  PROVE  Parsed(ParseLine(acc, log[i]), s \cup {i}, Epoch(i))
<1> DEFINE t    == s \cup {i}
           l    == log[i]
           cc   == Of(i)
           next == ParseLine(acc, l)
           k    == acc.byID[l.id]
           e    == Epoch(i - 1)
<1>1. /\ i \in Nat /\ s \in SUBSET (1..(i - 1)) /\ l \in LogLine /\ l.id \in Id /\ Typed(s)
      /\ acc \in Acc /\ acc.entries \in Seq(Entry) /\ acc.byID \in [Id -> Nat] /\ k \in Nat
      /\ \A c : UsedOK(c, s)
  <2>1. i \in Nat /\ l \in LogLine /\ l.id \in Id /\ Typed(s)
    BY LogLines
  <2>2. acc \in Acc /\ \A c : UsedOK(c, s)
    BY DEF Parsed
  <2>3. acc.entries \in Seq(Entry) /\ acc.byID \in [Id -> Nat]
    BY <2>2 DEF Acc
  <2> HIDE DEF l
  <2> QED
    BY <2>1, <2>2, <2>3
<1>2. PICK ord, n : Reads(acc, s, e, ord, n)
  BY DEF Parsed
<1>3. /\ Lists(ord, n, Connections(s), Opened(s)) /\ n \in Nat
      /\ \A p \in 1..n : ord[p] \in Connections(s)
      /\ \A p, q \in 1..n : ord[p] = ord[q] => p = q
  <2>1. Lists(ord, n, Connections(s), Opened(s))
    BY <1>2 DEF Reads
  <2>2. /\ n \in Nat /\ ord \in [1..n -> Connections(s)] /\ Opened(s) \in [Connections(s) -> Nat]
        /\ \A p, q \in 1..n : p < q => Opened(s)[ord[p]] < Opened(s)[ord[q]]
    BY <2>1 DEF Lists
  <2>3. \A p \in 1..n : ord[p] \in Connections(s) /\ Opened(s)[ord[p]] \in Nat
    BY <2>2
  <2>4. \A p, q \in 1..n : p < q => ord[p] # ord[q]
    BY <2>2, <2>3
  <2>5. \A p, q \in 1..n : p < q \/ q < p \/ p = q
    BY <2>2
  <2> QED
    BY <2>1, <2>2, <2>3, <2>4, <2>5
<1>4. Len(acc.entries) = n /\ \A p \in 1..n : acc.entries[p] = Expected(ord[p], s)
  BY <1>2 DEF Reads
<1>5. \A id \in Id : /\ acc.byID[id] # 0 => acc.byID[id] \in 1..n /\ ord[acc.byID[id]] = <<e, id>>
                     /\ acc.byID[id] = 0 => <<e, id>> \notin Connections(s)
  BY <1>2 DEF Reads
<1>6. /\ next \in Acc
      /\ l.kind = "started" => next.entries = acc.entries /\ next.byID = NoneYet
      /\ l.kind = "noise" => next = acc
      /\ Relevant(i) /\ k # 0 => /\ next.entries = [acc.entries EXCEPT ![k] = Fill(acc.entries[k], l)]
                                 /\ next.byID = acc.byID
      /\ Relevant(i) /\ k = 0 => /\ next.entries = Append(acc.entries, Fill(NewEntry(l), l))
                                 /\ next.byID = [acc.byID EXCEPT ![l.id] = Len(acc.entries) + 1]
  BY <1>1, ParseForm DEF Relevant
<1>7. \A c : UsedOK(c, t)
  BY <1>1, ExpectedGrows
<1>8. /\ \A c : Belongs(i, c) <=> Relevant(i) /\ c = cc
      /\ ~Relevant(i) => Connections(t) = Connections(s) /\ Opened(t) = Opened(s)
      /\ Relevant(i) => Connections(t) = Connections(s) \cup {cc}
      /\ Opened(t) \in [Connections(t) -> Nat]
      /\ \A c \in Connections(s) : /\ Lines(c, s) # {} /\ c \in Connections(t)
                                   /\ Opened(t)[c] = Opened(s)[c] /\ Opened(t)[c] < i
      /\ cc \notin Connections(s) => Lines(cc, s) = {}
      /\ Relevant(i) /\ cc \notin Connections(s) => Opened(t)[cc] = i
  BY ConnectionsGrow
<1>9. \A c : Expected(c, t) = IF ~Belongs(i, c) THEN Expected(c, s)
                              ELSE IF Lines(c, s) = {} THEN Fill(NewEntry(l), l)
                              ELSE Fill(Expected(c, s), l)
  BY <1>1, ExpectedGrows
<1>10. /\ Epoch(i) = IF l.kind = "started" THEN e + 1 ELSE e
       /\ e \in Nat /\ \A j \in 1..(i - 1) : Epoch(j) \in Nat /\ Epoch(j) <= e
  BY EpochForm
<1>11. Relevant(i) => cc = <<e, l.id>>
  BY <1>10 DEF Relevant, Of
<1> HIDE DEF t, l, cc, next, k, e
<1> SUFFICES \E o, m : Reads(next, t, Epoch(i), o, m)
  BY <1>6, <1>7 DEF Parsed, t, l, next
<1>12. CASE ~Relevant(i)
  <2>1. next.entries = acc.entries
    BY <1>6, <1>12 DEF Relevant, l
  <2>2. \A p \in 1..n : next.entries[p] = Expected(ord[p], t)
    BY <1>4, <1>8, <1>9, <1>12, <2>1
  <2>3. \A id \in Id : IF next.byID[id] # 0 THEN next.byID[id] \in 1..n /\ ord[next.byID[id]] = <<Epoch(i), id>>
                       ELSE <<Epoch(i), id>> \notin Connections(t)
    <3>1. CASE l.kind = "noise"
      BY <1>5, <1>6, <1>8, <1>10, <1>12, <3>1
    <3>2. CASE l.kind = "started"
      <4>1. \A id \in Id : next.byID[id] = 0
        BY <1>6, <3>2 DEF NoneYet
      <4>2. ASSUME NEW id \in Id, <<e + 1, id>> \in Connections(s) PROVE FALSE
        <5>1. PICK j \in s : <<Epoch(j), log[j].id>> = <<e + 1, id>>
          BY <4>2 DEF Connections, Lines
        <5>2. Epoch(j) = e + 1 /\ Epoch(j) <= e /\ Epoch(j) \in Nat
          BY <1>1, <1>10, <5>1
        <5> QED
          BY <1>10, <5>2
      <4> QED
        BY <1>8, <1>10, <1>12, <3>2, <4>1, <4>2
    <3> QED
      BY <1>12, <3>1, <3>2 DEF Relevant, l
  <2>4. Reads(next, t, Epoch(i), ord, n)
    BY <1>3, <1>4, <1>8, <1>12, <2>1, <2>2, <2>3 DEF Reads
  <2> QED
    BY <2>4
<1>13. CASE Relevant(i) /\ k # 0
  <2>1. k \in 1..n /\ ord[k] = cc
    BY <1>1, <1>5, <1>11, <1>13 DEF k
  <2>2. cc \in Connections(s) /\ Connections(t) = Connections(s) /\ Lines(cc, s) # {}
    <3>1. cc \in Connections(s)
      BY <1>3, <2>1
    <3>2. Connections(t) = Connections(s) \cup {cc}
      BY <1>8, <1>13
    <3>3. Lines(cc, s) # {}
      BY <1>8, <3>1
    <3> QED
      BY <3>1, <3>2, <3>3
  <2>3. Opened(t) = Opened(s)
    <3>1. \A c \in Connections(s) : Opened(t)[c] = Opened(s)[c]
      BY <1>8
    <3>2. Opened(t) = [c \in Connections(s) |-> Opened(t)[c]] /\ Opened(s) = [c \in Connections(s) |-> Opened(s)[c]]
      BY <2>2 DEF Opened
    <3> QED
      BY <3>1, <3>2
  <2>4. next.entries = [acc.entries EXCEPT ![k] = Fill(acc.entries[k], l)] /\ next.byID = acc.byID
    BY <1>6, <1>13
  <2>5. /\ Len(next.entries) = n /\ next.entries[k] = Fill(acc.entries[k], l)
        /\ \A p \in 1..n : p # k => next.entries[p] = acc.entries[p]
    BY <1>1, <1>4, <2>1, <2>4
  <2>6. \A p \in 1..n : next.entries[p] = Expected(ord[p], t)
    <3> TAKE p \in 1..n
    <3>1. CASE p = k
      BY <1>4, <1>8, <1>9, <1>13, <2>1, <2>2, <2>5, <3>1
    <3>2. CASE p # k
      <4>1. ord[p] # cc
        BY <1>3, <2>1, <3>2
      <4> QED
        BY <1>4, <1>8, <1>9, <2>5, <3>2, <4>1
    <3> QED
      BY <3>1, <3>2
  <2>7. Epoch(i) = e
    BY <1>10, <1>13 DEF Relevant, l
  <2>8. Reads(next, t, Epoch(i), ord, n)
    BY <1>3, <1>5, <2>2, <2>3, <2>4, <2>5, <2>6, <2>7 DEF Reads
  <2> QED
    BY <2>8
<1>14. CASE Relevant(i) /\ k = 0
  <2> DEFINE w == [p \in 1..(n + 1) |-> IF p = n + 1 THEN cc ELSE ord[p]]
  <2>1. cc \notin Connections(s) /\ Lines(cc, s) = {} /\ Connections(t) = Connections(s) \cup {cc}
    BY <1>1, <1>5, <1>8, <1>11, <1>14 DEF k
  <2>2. Lists(w, n + 1, Connections(t), Opened(t))
    <3> DEFINE S == Connections(s)
               key == Opened(s)
               later == Opened(t)
    <3>1. later \in [S \cup {cc} -> Nat] /\ \A c \in S : later[c] = key[c] /\ later[c] < later[cc]
      BY <1>8, <1>14, <2>1
    <3>2. Lists(ord, n, S, key) /\ cc \notin S
      BY <1>3, <2>1
    <3> HIDE DEF S, key, later
    <3>3. Lists(w, n + 1, S \cup {cc}, later)
      BY <3>1, <3>2, ListingGrows
    <3> QED
      BY <2>1, <3>3 DEF S, later
  <2>3. /\ w[n + 1] = cc /\ n + 1 \in Nat /\ n + 1 \in 1..(n + 1) /\ n + 1 # 0
        /\ \A p \in 1..n : w[p] = ord[p] /\ p \in 1..(n + 1)
        /\ \A p \in 1..(n + 1) : p = n + 1 \/ p \in 1..n
    BY <1>3
  <2> HIDE DEF w
  <2>4. /\ next.entries = Append(acc.entries, Fill(NewEntry(l), l))
        /\ next.byID = [acc.byID EXCEPT ![l.id] = n + 1]
    BY <1>4, <1>6, <1>14
  <2>5. /\ Len(next.entries) = n + 1 /\ next.entries[n + 1] = Fill(NewEntry(l), l)
        /\ \A p \in 1..n : next.entries[p] = acc.entries[p]
    <3> DEFINE f == Fill(NewEntry(l), l)
               es == acc.entries
    <3>1. es \in Seq(Entry) /\ Len(es) = n /\ f \in Entry /\ next.entries = Append(es, f)
      BY <1>1, <1>4, <2>4, FillType, NewEntryType
    <3> HIDE DEF f, es
    <3> QED
      BY <3>1 DEF f, es
  <2>6. \A p \in 1..(n + 1) : next.entries[p] = Expected(w[p], t)
    <3> TAKE p \in 1..(n + 1)
    <3>1. CASE p = n + 1
      BY <1>8, <1>9, <1>14, <2>1, <2>3, <2>5, <3>1
    <3>2. CASE p \in 1..n
      <4>1. ord[p] # cc
        BY <1>3, <2>1, <3>2
      <4> QED
        BY <1>4, <1>8, <1>9, <2>3, <2>5, <3>2, <4>1
    <3> QED
      BY <2>3, <3>1, <3>2
  <2>7. Epoch(i) = e
    BY <1>10, <1>14 DEF Relevant, l
  <2>8. \A id \in Id : IF next.byID[id] # 0 THEN next.byID[id] \in 1..(n + 1) /\ w[next.byID[id]] = <<e, id>>
                       ELSE <<e, id>> \notin Connections(t)
    <3> TAKE id \in Id
    <3>1. CASE id = l.id
      <4>1. next.byID[id] = n + 1
        BY <1>1, <2>4, <3>1
      <4> QED
        BY <1>11, <1>14, <2>3, <3>1, <4>1
    <3>2. CASE id # l.id
      <4>1. next.byID[id] = acc.byID[id]
        BY <1>1, <2>4, <3>2
      <4>2. <<e, id>> # cc
        BY <1>11, <1>14, <3>2
      <4> QED
        BY <1>5, <2>1, <2>3, <4>1, <4>2
    <3> QED
      BY <3>1, <3>2
  <2>9. Reads(next, t, Epoch(i), w, n + 1)
    BY <2>2, <2>5, <2>6, <2>7, <2>8 DEF Reads
  <2> QED
    BY <2>9
<1> QED
  BY <1>12, <1>13, <1>14
-----------------------------------------------------------------------------
(* The whole parser.                                                       *)

Nothing == [entries |-> <<>>, byID |-> NoneYet]

LEMMA NothingParsed == ASSUME NEW e PROVE Parsed(Nothing, {}, e) /\ Nothing \in Acc
<1>1. Nothing \in Acc
  <2>1. <<>> \in Seq(Entry) /\ NoneYet \in [Id -> Nat]
    BY DEF NoneYet
  <2> QED
    BY <2>1 DEF Nothing, Acc
<1>2. \A c : Lines(c, {}) = {} /\ Outs(c, {}) = {}
  BY DEF Lines, Outs, OfKind
<1>3. Connections({}) = {} /\ New({}) = {}
  BY <1>2 DEF Connections, New
<1> DEFINE none == [p \in 1..0 |-> 0]
<1>4. \A key : key \in [{} -> Nat] => Lists(none, 0, {}, key)
  <2>1. 1..0 = {}
    OBVIOUS
  <2> QED
    BY <2>1 DEF Lists
<1>5. Self({}) \in [{} -> Nat] /\ Opened({}) \in [{} -> Nat]
  BY <1>3 DEF Self, Opened
<1> HIDE DEF none
<1>6. \A c : UsedLists(c, {}, none, 0)
  BY <1>2, <1>3, <1>4, <1>5 DEF UsedLists
<1>7. Reads(Nothing, {}, e, none, 0)
  <2>1. Nothing.entries = <<>> /\ \A id \in Id : Nothing.byID[id] = 0
    BY DEF Nothing, NoneYet
  <2>2. Len(Nothing.entries) = 0 /\ 1..0 = {}
    BY <2>1
  <2> QED
    BY <1>3, <1>4, <1>5, <2>1, <2>2 DEF Reads
<1> QED
  BY <1>1, <1>6, <1>7 DEF Parsed, UsedOK

\* g is the table of the parser's state over sets of positions in lines.
IsParse(g, lines) ==
  g = [s \in SUBSET DOMAIN lines |->
        IF s = {} THEN Nothing ELSE LET x == Max(s) IN ParseLine(g[s \ {x}], lines[x])]

LEMMA FoldIsParse ==
  ASSUME NEW lines
  PROVE  FoldLeft(ParseLine, [entries |-> <<>>, byID |-> NoneYet], lines)
           = (CHOOSE g : IsParse(g, lines))[DOMAIN lines]
BY DEF FoldLeft, MapThenFoldSet, IsParse, Nothing

LEMMA ParseStates ==
  ASSUME NEW lines \in Seq(LogLine)
  PROVE  LET g == CHOOSE g : IsParse(g, lines)
             n == Len(lines) IN
         /\ g[1..0] = Nothing
         /\ \A k \in 1..n : g[1..k] = ParseLine(g[1..(k - 1)], lines[k])
<1> DEFINE n == Len(lines)
           ch == [s \in SUBSET (1..n) |-> Max(s)]
           step == [p \in Acc \X (1..n) |-> ParseLine(p[1], lines[p[2]])]
           g == CHOOSE g : IsParse(g, lines)
<1>1. n \in Nat /\ DOMAIN lines = 1..n /\ IsFiniteSet(1..n) /\ \A k \in 1..n : lines[k] \in LogLine
  BY FS_Interval
<1> HIDE DEF n
<1>2. ASSUME NEW s \in SUBSET (1..n), s # {} PROVE ch[s] = Max(s) /\ ch[s] \in s
  <2>1. s \in SUBSET (0..n)
    BY <1>1
  <2> QED
    BY <1>1, <1>2, <2>1, MaxOf
<1>3. \A a \in Acc, i \in 1..n : step[<<a, i>>] = ParseLine(a, lines[i])
  OBVIOUS
<1>4. \A a \in Acc, i \in 1..n : ParseLine(a, lines[i]) \in Acc
  BY <1>1, ParseForm
<1> HIDE DEF ch, step
<1>5. ASSUME NEW t, IsTable(t, 1..n, Acc, Nothing, ch, step) PROVE IsParse(t, lines)
  <2>1. t = [s \in SUBSET (1..n) |-> t[s]] /\ t[{}] = Nothing
    BY <1>5 DEF IsTable
  <2>2. ASSUME NEW s \in SUBSET (1..n), s # {}
        PROVE  t[s] = ParseLine(t[s \ {Max(s)}], lines[Max(s)])
    <3>1. t[s] = step[<<t[s \ {ch[s]}], ch[s]>>] /\ t[s \ {ch[s]}] \in Acc
      BY <1>5, <2>2 DEF IsTable
    <3>2. ch[s] \in 1..n /\ ch[s] = Max(s)
      BY <1>2, <2>2
    <3> QED
      BY <1>3, <3>1, <3>2
  <2> QED
    BY <1>1, <2>1, <2>2 DEF IsParse
<1>6. \E t : IsTable(t, 1..n, Acc, Nothing, ch, step)
  <2> DEFINE S == 1..n
  <2>1. /\ \A s \in SUBSET S : s # {} => ch[s] \in s
        /\ \A a \in Acc, i \in S : step[<<a, i>>] \in Acc
        /\ Nothing \in Acc /\ IsFiniteSet(S)
    BY <1>1, <1>2, <1>3, <1>4, NothingParsed
  <2> HIDE DEF S
  <2>2. \E t : IsTable(t, S, Acc, Nothing, ch, step)
    BY <2>1, TableExists
  <2> QED
    BY <2>2 DEF S
<1>7. IsParse(g, lines)
  BY <1>5, <1>6
<1> HIDE DEF g
<1>8. IsTable(g, 1..n, Acc, Nothing, ch, step)
  <2>1. PICK t : IsTable(t, 1..n, Acc, Nothing, ch, step)
    BY <1>6
  <2>2. IsParse(t, lines)
    BY <1>5, <2>1
  <2>3. g = t
    <3> DEFINE B == {s \in SUBSET (1..n) : g[s] # t[s]}
    <3>1. ASSUME B # {} PROVE FALSE
      <4>1. PICK s \in B : \A V \in B : V \subseteq s => V = s
        <5> DEFINE S == 1..n
        <5>1. B \in SUBSET SUBSET S /\ IsFiniteSet(S) /\ B # {}
          BY <1>1, <3>1
        <5> HIDE DEF B, S
        <5> QED
          BY <5>1, MinimalSubset
      <4>2. s # {}
        BY <1>1, <1>7, <2>2, <4>1 DEF IsParse
      <4> DEFINE V == s \ {Max(s)}
      <4>3. Max(s) \in s
        BY <1>2, <4>1, <4>2
      <4>4. V \in SUBSET (1..n) /\ V # s /\ V \subseteq s
        BY <4>1, <4>3
      <4>5. g[V] = t[V]
        BY <4>1, <4>4
      <4>6. g[s] = ParseLine(g[V], lines[Max(s)]) /\ t[s] = ParseLine(t[V], lines[Max(s)])
        BY <1>1, <1>7, <2>2, <4>1, <4>2 DEF IsParse
      <4> QED
        BY <4>1, <4>5, <4>6
    <3>2. \A s \in SUBSET (1..n) : g[s] = t[s]
      BY <3>1
    <3>3. g = [s \in SUBSET (1..n) |-> g[s]] /\ t = [s \in SUBSET (1..n) |-> t[s]]
      BY <1>1, <1>7, <2>2 DEF IsParse
    <3> QED
      BY <3>2, <3>3
  <2> QED
    BY <2>1, <2>3
<1>9. \A s \in SUBSET (1..n) : ch[s] = Max(s)
  BY DEF ch
<1>10. g[1..0] = Nothing
  <2>1. g[{}] = Nothing
    BY <1>8 DEF IsTable
  <2> QED
    BY <2>1
<1> HIDE DEF Acc
<1>11. \A k \in 1..n : g[1..k] = step[<<g[1..(k - 1)], k>>]
  BY <1>1, <1>8, <1>9, PrefixTable
<1>12. \A k \in 0..n : g[1..k] \in Acc
  BY <1>1, <1>8, <1>9, PrefixTable
<1>13. \A k \in 1..n : k - 1 \in 0..n
  BY <1>1
<1>14. \A k \in 1..n : g[1..k] = ParseLine(g[1..(k - 1)], lines[k])
  BY <1>3, <1>11, <1>12, <1>13
<1> QED
  BY <1>10, <1>14 DEF g, n

(* The entries before they are reversed, for the lines a..b of the log.    *)
LEMMA ParsedAll ==
  ASSUME LogInv, NEW a \in Nat \ {0}, NEW b \in Nat, a <= b + 1, b <= Len(log),
         NEW lines, lines = [k \in 1..(b - a + 1) |-> log[a + k - 1]]
  PROVE  Parsed(FoldLeft(ParseLine, [entries |-> <<>>, byID |-> NoneYet], lines), a..b, Epoch(b))
<1> DEFINE n == b - a + 1
           g == CHOOSE g : IsParse(g, lines)
           Good(k) == Parsed(g[1..k], a..(a + k - 1), Epoch(a + k - 1))
           B == {k \in 0..n : ~Good(k)}
<1>1. n \in Nat /\ a + n - 1 = b
  OBVIOUS
<1>2. \A k \in 1..n : a + k - 1 \in 1..Len(log) /\ lines[k] = log[a + k - 1]
  <2>1. Len(log) \in Nat
    BY DEF LogInv
  <2> QED
    BY <2>1
<1>3. lines \in Seq(LogLine) /\ Len(lines) = n
  <2>1. \A i \in 1..Len(log) : log[i] \in LogLine
    BY DEF LogInv
  <2>2. lines = [k \in 1..n |-> lines[k]] /\ \A k \in 1..n : lines[k] \in LogLine
    BY <1>2, <2>1
  <2> HIDE DEF n
  <2>3. lines \in [1..n -> LogLine]
    BY ONLY <2>2
  <2> QED
    BY ONLY <1>1, <2>3
<1>4. /\ g[1..0] = Nothing
      /\ \A k \in 1..n : g[1..k] = ParseLine(g[1..(k - 1)], lines[k])
  BY <1>3, ParseStates
<1>5. FoldLeft(ParseLine, [entries |-> <<>>, byID |-> NoneYet], lines) = g[1..n]
  <2>1. DOMAIN lines = 1..n
    OBVIOUS
  <2> QED
    BY <2>1, FoldIsParse
<1> HIDE DEF g
<1> SUFFICES Good(n)
  BY <1>1, <1>5
<1>6. Good(0)
  <2>1. a..(a + 0 - 1) = {}
    OBVIOUS
  <2> QED
    BY <1>4, <2>1, NothingParsed
<1>7. ASSUME NEW k \in 1..n, Good(k - 1) PROVE Good(k)
  <2> DEFINE i == a + k - 1
             s == a..(a + (k - 1) - 1)
  <2>1. /\ i \in 1..Len(log) /\ s \in SUBSET (1..(i - 1)) /\ a..(a + k - 1) = s \cup {i}
        /\ a + (k - 1) - 1 = i - 1
    BY <1>1, <1>2
  <2>2. Parsed(g[1..(k - 1)], s, Epoch(i - 1))
    BY <1>7, <2>1
  <2> HIDE DEF i, s
  <2>3. Parsed(ParseLine(g[1..(k - 1)], log[i]), s \cup {i}, Epoch(i))
    BY <2>1, <2>2, ParsedGrows
  <2>4. g[1..k] = ParseLine(g[1..(k - 1)], log[i])
    BY <1>2, <1>4 DEF i
  <2> QED
    BY <2>1, <2>3, <2>4 DEF i
<1> HIDE DEF Good
<1>8. B = {}
  <2> SUFFICES ASSUME B # {} PROVE FALSE
    OBVIOUS
  <2>1. B \in SUBSET (0..n)
    OBVIOUS
  <2>2. Min(B) \in B /\ \A x \in B : Min(B) <= x
    <3> HIDE DEF B, n
    <3> QED
      BY <1>1, <2>1, MinOf
  <2>3. PICK k \in B : \A x \in B : k <= x
    BY <2>2
  <2>4. k # 0
    BY <1>6, <2>3
  <2>5. k \in 1..n /\ k - 1 \in 0..n /\ ~(k <= k - 1)
    BY <1>1, <2>3, <2>4
  <2>6. Good(k - 1)
    BY <2>3, <2>5
  <2> QED
    BY <1>7, <2>3, <2>5, <2>6
<1> QED
  BY <1>1, <1>8
-----------------------------------------------------------------------------
(* What the page shows.                                                    *)

LEMMA MinTwo ==
  ASSUME NEW m \in Nat, NEW n \in Nat
  PROVE  Min({m, n}) \in Nat /\ Min({m, n}) <= m /\ (m <= n => Min({m, n}) = m)
<1> DEFINE s == {m, n}
<1>1. m + n \in Nat /\ s \in SUBSET (0..(m + n)) /\ s # {}
  OBVIOUS
<1>2. \A x : x \in s <=> x = m \/ x = n
  OBVIOUS
<1> HIDE DEF s
<1>3. Min(s) \in s /\ \A x \in s : Min(s) <= x
  BY <1>1, MinOf
<1> QED
  BY <1>2, <1>3 DEF s

LEMMA PageOf ==
  ASSUME NEW acc, NEW s, NEW e, Parsed(acc, s, e)
  PROVE  LET all == Reverse(acc.entries) IN
         /\ all \in Seq(Entry) /\ Len(all) = Cardinality(Connections(s))
         /\ Shows(SubSeq(all, 1, Min({Len(all), MaxConnections})), s)
<1> DEFINE es == acc.entries
           all == Reverse(es)
           m == Min({Len(all), MaxConnections})
           shown == SubSeq(all, 1, m)
           conns == Connections(s)
           opened == Opened(s)
<1>1. es \in Seq(Entry)
  BY DEF Parsed, Acc
<1>2. PICK ord, n : Reads(acc, s, e, ord, n)
  BY DEF Parsed
<1>3. Lists(ord, n, conns, opened) /\ Len(es) = n /\ \A p \in 1..n : es[p] = Expected(ord[p], s)
  BY <1>2 DEF Reads
<1>4. /\ n \in Nat /\ \A c \in conns : \E p \in 1..n : ord[p] = c
  BY <1>3 DEF Lists
<1>5. all = [i \in 1..n |-> es[(n - i) + 1]]
  BY <1>3 DEF Reverse
<1> HIDE DEF es, all
<1>6. all \in Seq(Entry) /\ Len(all) = n /\ \A i \in 1..n : all[i] = es[(n - i) + 1]
  <2>1. \A i \in 1..n : (n - i) + 1 \in 1..n /\ es[(n - i) + 1] \in Entry
    BY <1>1, <1>3, <1>4
  <2> QED
    BY <1>4, <1>5, <2>1
<1>7. m \in Nat /\ m <= n
  BY <1>4, <1>6, LogAssumption, MinTwo DEF LogAssumption
<1> HIDE DEF m, conns, opened
<1>8. Len(shown) = m /\ \A i \in 1..m : shown[i] = es[(n - i) + 1]
  BY <1>4, <1>6, <1>7
<1>9. /\ Cardinality(conns) = n
      /\ \A p \in 1..n : Cardinality(AtLeast(conns, opened, opened[ord[p]])) = n - p + 1
  <2>1. Lists(ord, n, conns, opened)
    BY <1>3
  <2>2. Cardinality(conns) = n
    BY ONLY <2>1, Ranked
  <2>3. \A p \in 1..n : Cardinality(AtLeast(conns, opened, opened[ord[p]])) = n - p + 1
    BY ONLY <2>1, Ranked
  <2> QED
    BY <2>2, <2>3
<1>10. m = Min({Cardinality(conns), MaxConnections})
  BY <1>6, <1>9 DEF m
<1>11. ASSUME NEW c \in conns, Cardinality({d \in conns : opened[d] >= opened[c]}) <= Len(shown)
       PROVE  shown[Cardinality({d \in conns : opened[d] >= opened[c]})] = Expected(c, s)
  <2>1. PICK p \in 1..n : ord[p] = c
    BY <1>4
  <2>2. Cardinality({d \in conns : opened[d] >= opened[c]}) = n - p + 1
    BY <1>9, <2>1 DEF AtLeast
  <2>3. n - p + 1 \in 1..m /\ (n - (n - p + 1)) + 1 = p
    BY <1>4, <1>7, <1>8, <1>11, <2>2
  <2>4. shown[n - p + 1] = es[p]
    BY <1>8, <2>3
  <2> HIDE DEF shown
  <2> QED
    BY <1>3, <2>1, <2>2, <2>4
<1> HIDE DEF shown
<1>12. Shows(shown, s)
  BY <1>8, <1>10, <1>11 DEF Shows, Opened, opened, conns
<1> QED
  BY <1>6, <1>9, <1>12 DEF all, es, shown, m, conns

Finished == IF half THEN Len(log) - 1 ELSE Len(log)

LEMMA TailForm ==
  ASSUME LogInv
  PROVE  /\ Start \in Nat /\ Finished \in Nat /\ Finished <= Len(log)
         /\ Size = 2 * Len(log) - (IF half THEN 1 ELSE 0)
         /\ \E q \in Nat : \/ Start = 2 * q /\ Start % 2 = 0 /\ FirstLine = q + 1
                           \/ Start = 2 * q + 1 /\ Start % 2 = 1 /\ FirstLine = q + 1
<1>1. Len(log) \in Nat /\ half \in BOOLEAN /\ (half => Len(log) > 0) /\ MaxLogChunks \in Nat
  BY LogAssumption DEF LogInv, LogAssumption
<1>2. Size \in Nat
  BY <1>1 DEF Size
<1>3. Start \in Nat
  BY <1>1, <1>2 DEF Start
<1>4. /\ Start \div 2 \in Nat
      /\ \/ Start = 2 * (Start \div 2) /\ Start % 2 = 0
         \/ Start = 2 * (Start \div 2) + 1 /\ Start % 2 = 1
  BY <1>3
<1> QED
  BY <1>1, <1>3, <1>4 DEF Finished, Size, FirstLine

LEMMA EntriesForm ==
  ASSUME LogInv
  PROVE  \E acc : /\ Entries = Reverse(acc.entries)
                  /\ Parsed(acc, Complete, Epoch(Finished))
<1> DEFINE b == Finished
           f == IF Start > 0 THEN FirstLine + 1 ELSE 1
           a == IF f <= b THEN f ELSE b + 1
           lines == [k \in 1..Cardinality(Complete) |-> Seen(Min(Complete) + k - 1)]
<1>1. /\ b \in Nat /\ b <= Len(log) /\ Start \in Nat /\ FirstLine \in Nat \ {0} /\ Len(log) \in Nat
      /\ Start = 0 => Start % 2 # 1
  BY TailForm DEF LogInv
<1>2. Complete = f..b
  BY DEF Complete, Finished
<1>3. a \in Nat \ {0} /\ a <= b + 1 /\ Complete = a..b
  BY <1>1, <1>2
<1>4. Cardinality(Complete) = b - a + 1
  <2> HIDE DEF a, b
  <2>1. Cardinality(a..b) = IF a > b THEN 0 ELSE b - a + 1
    BY <1>1, <1>3, FS_Interval
  <2> QED
    BY <1>1, <1>3, <2>1
<1>5. ASSUME NEW k \in 1..(b - a + 1) PROVE Seen(Min(Complete) + k - 1) = log[a + k - 1]
  <2>1. a <= b /\ a = f /\ a + k - 1 \in Complete /\ a \in Complete
    BY <1>1, <1>3, <1>5
  <2>2. Min(Complete) = a
    <3>1. Complete \in SUBSET (0..b) /\ Complete # {} /\ \A x \in Complete : a <= x
      BY <1>3, <2>1
    <3>2. Min(Complete) \in Complete /\ \A x \in Complete : Min(Complete) <= x
      BY <1>1, <3>1, MinOf
    <3>3. Min(Complete) \in Nat /\ Min(Complete) <= a /\ a <= Min(Complete)
      BY <1>3, <2>1, <3>1, <3>2
    <3> HIDE DEF a
    <3> QED
      BY <1>3, <3>3
  <2>3. Start > 0 => a + k - 1 # FirstLine
    BY <1>1, <1>5, <2>1
  <2> HIDE DEF a
  <2> QED
    BY <1>1, <2>2, <2>3 DEF Seen
<1>6. lines = [k \in 1..(b - a + 1) |-> log[a + k - 1]]
  <2> HIDE DEF a, b
  <2> QED
    BY <1>4, <1>5
<1> DEFINE acc == FoldLeft(ParseLine, [entries |-> <<>>, byID |-> NoneYet], lines)
<1>7. Parsed(acc, a..b, Epoch(b))
  <2> HIDE DEF a, b, lines
  <2> QED
    BY <1>1, <1>3, <1>6, ParsedAll
<1>8. Entries = Reverse(acc.entries)
  BY DEF Entries, Parse
<1> HIDE DEF acc, a
<1> QED
  BY <1>3, <1>7, <1>8

LEMMA PageExact == ASSUME LogInv PROVE EntriesExact /\ TruncationTold
<1> DEFINE b == Finished
           n == Len(Entries)
           m == Min({n, MaxConnections})
           whole == {i \in 1..Len(log) : 2 * i - 2 >= Start /\ 2 * i <= Size}
           shown == ConnectionLogs.entries
<1>1. PICK acc : Entries = Reverse(acc.entries) /\ Parsed(acc, Complete, Epoch(Finished))
  BY EntriesForm
<1>2. Entries \in Seq(Entry) /\ n = Cardinality(Connections(Complete)) /\ Shows(SubSeq(Entries, 1, m), Complete)
  BY <1>1, PageOf
<1>3. /\ shown = SubSeq(Entries, 1, m)
      /\ ~ConnectionLogs.truncated => ~(Start > 0) /\ ~(n > MaxConnections)
  <2>1. shown = SubSeq(Entries, 1, m)
    BY DEF ConnectionLogs
  <2>2. ConnectionLogs.truncated = (Start > 0 \/ n > MaxConnections)
    BY DEF ConnectionLogs
  <2> QED
    BY <2>1, <2>2, Zenon
<1>4. /\ Start \in Nat /\ b \in Nat /\ b <= Len(log) /\ Len(log) \in Nat /\ half \in BOOLEAN
      /\ Size = 2 * Len(log) - (IF half THEN 1 ELSE 0)
  BY TailForm DEF LogInv
<1>5. \A i \in 1..Len(log) : 2 * i <= Size <=> i <= b
  BY <1>4 DEF Finished
<1>6. Complete = (IF Start > 0 THEN FirstLine + 1 ELSE 1)..b
  BY DEF Complete, Finished
<1>7. EntriesExact
  <2>1. Shows(shown, Complete)
    BY <1>2, <1>3
  <2>2. PICK q \in Nat : \/ Start = 2 * q /\ Start % 2 = 0 /\ FirstLine = q + 1
                         \/ Start = 2 * q + 1 /\ Start % 2 = 1 /\ FirstLine = q + 1
    BY TailForm
  <2> HIDE DEF b
  <2>3. CASE Start = 0 \/ Start = 2 * q + 1
    <3>1. whole = Complete
      <4>1. CASE Start = 0
        BY <1>4, <1>5, <1>6, <4>1
      <4>2. CASE Start = 2 * q + 1
        <5>1. FirstLine = q + 1 /\ Start > 0
          BY <2>2, <4>2
        <5>2. Complete = (q + 2)..b
          BY <1>6, <5>1
        <5>3. \A i \in 1..Len(log) : 2 * i - 2 >= Start <=> i >= q + 2
          BY <1>4, <4>2
        <5> QED
          BY <1>4, <1>5, <5>2, <5>3
      <4> QED
        BY <2>3, <4>1, <4>2
    <3> HIDE DEF whole, shown
    <3> QED
      BY <2>1, <3>1 DEF EntriesExact, whole, shown
  <2>4. CASE Start # 0 /\ Start = 2 * q
    <3>1. FirstLine = q + 1 /\ Start > 0 /\ q >= 1
      BY <2>2, <2>4
    <3>2. Complete = (q + 2)..b
      BY <1>6, <3>1
    <3>3. whole = (q + 1)..b
      <4>1. \A i \in 1..Len(log) : 2 * i - 2 >= Start <=> i >= q + 1
        BY <1>4, <2>4
      <4> QED
        BY <1>4, <1>5, <4>1
    <3>4. CASE whole = {}
      <4>1. Complete = {}
        BY <1>4, <3>2, <3>3, <3>4
      <4> HIDE DEF whole, shown
      <4> QED
        BY <2>1, <3>4, <4>1 DEF EntriesExact, whole, shown
    <3>5. CASE whole # {}
      <4> HIDE DEF whole, shown
      <4>1. q + 1 \in whole /\ whole \in SUBSET (0..b) /\ \A x \in whole : q + 1 <= x /\ x \in Nat
        <5>1. PICK x \in whole : TRUE
          BY <3>5
        <5>2. x \in (q + 1)..b
          BY <3>3, <5>1
        <5>3. q + 1 <= b
          BY <1>4, <5>2
        <5> QED
          BY <1>4, <3>3, <5>3
      <4>2. Min(whole) \in whole /\ \A x \in whole : Min(whole) <= x
        BY <1>4, <3>5, <4>1, MinOf
      <4>3. Min(whole) = q + 1
        <5> DEFINE v == Min(whole)
        <5>1. v \in Nat /\ v <= q + 1 /\ q + 1 <= v
          BY <4>1, <4>2
        <5> HIDE DEF v
        <5>2. v = q + 1
          BY <5>1
        <5> QED
          BY <5>2 DEF v
      <4>4. Complete = whole \ {Min(whole)}
        BY <1>4, <3>2, <3>3, <4>3
      <4> QED
        BY <2>1, <3>1, <3>5, <4>4 DEF EntriesExact, whole, shown
    <3> QED
      BY <3>4, <3>5
  <2> QED
    BY <2>2, <2>3, <2>4
<1>8. TruncationTold
  <2> SUFFICES ASSUME ~ConnectionLogs.truncated
               PROVE  Len(shown) = Cardinality(Connections(1..b))
    BY DEF TruncationTold, Finished
  <2>1. n \in Nat /\ MaxConnections \in Nat
    BY <1>2, LogAssumption DEF LogAssumption
  <2>2. Start = 0 /\ n <= MaxConnections
    BY <1>3, <1>4, <2>1
  <2>3. Complete = 1..b
    BY <1>6, <2>2
  <2>4. m = n
    <3> HIDE DEF n
    <3> QED
      BY <2>1, <2>2, MinTwo
  <2>5. Len(SubSeq(Entries, 1, n)) = n
    BY <1>2, <2>1
  <2> QED
    BY <1>2, <1>3, <2>3, <2>4, <2>5
<1> QED
  BY <1>7, <1>8

(* However sing-box writes its log and wherever the tail the page reads    *)
(* begins, the entries are those of the complete lines in the tail, but    *)
(* for at most the first: connections never share an entry or have two,    *)
(* and a line that is cut or being written contributes nothing.            *)
THEOREM EntriesExactThm == LogSpec => []EntriesExact
<1>1. LogInv => EntriesExact
  BY PageExact
<1> QED
  BY <1>1, LogInvThm, PTL

(* A page not marked truncated has an entry for every connection logged.   *)
THEOREM TruncationToldThm == LogSpec => []TruncationTold
<1>1. LogInv => TruncationTold
  BY PageExact
<1> QED
  BY <1>1, LogInvThm, PTL
=============================================================================
