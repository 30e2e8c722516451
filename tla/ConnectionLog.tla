--------------------------- MODULE ConnectionLog ---------------------------
(***************************************************************************)
(* The connection log page (backend/internal/singbox/logs.go): a bounded   *)
(* tail of sing-box's log, read while sing-box appends to it, grouped into *)
(* one entry per connection.                                               *)
(*                                                                         *)
(* A log line is reduced to the id of its connection, what the parser's    *)
(* expressions recognise it as (kind) and one value: the outbound of an    *)
(* "out" line, else the line's number, which tells all others apart.  In   *)
(* bytes a line is two chunks, its time and level and then the rest up to  *)
(* the newline, so that a tail may begin and a write end inside it.        *)
(***************************************************************************)
EXTENDS Naturals, Sequences, SequencesExt, FiniteSetsExt

CONSTANTS Id, Outbound, None,
          MaxLogChunks, MaxConnections, \* maxLogBytes, maxLogConnections
          MaxLines                      \* bound

ASSUME LogAssumption == MaxLogChunks \in Nat /\ MaxConnections \in Nat /\ MaxLines \in Nat

VARIABLES log,  \* the lines of sing-box.log
          half  \* has only the first chunk of the last one been written?

logVars == <<log, half>>

\* "from", "to", "out": the messages that name source, target and outbound.
\* "other": another message of an inbound or outbound.  "error": level ERROR or
\* WARN.  "noise": a line without connection or component.
Kinds == {"started", "from", "to", "out", "other", "error", "noise"}

LogInit == log = <<>> /\ half = FALSE

\* A run of sing-box begins with its "started" line; ids may come back after it.
\* Ids and outbounds are numbers and used in order, and a source is named before
\* the first target: which of them is 1 and which field is which loses nothing.
WriteHead == \E kind \in Kinds, id \in Id, o \in Outbound :
  /\ ~half /\ half' = TRUE /\ Len(log) < MaxLines
  /\ id = 1 \/ (kind \notin {"started", "noise"} /\ \E i \in 1..Len(log) : log[i].id = id - 1)
  /\ o = 1 \/ (kind = "out" /\ \E i \in 1..Len(log) : log[i].kind = "out")
  /\ kind = "to" => \E i \in 1..Len(log) : log[i].kind = "from"
  /\ log' = Append(log, [kind |-> kind, id |-> id,
                         val |-> IF kind = "out" THEN o ELSE Len(log) + 1])

WriteTail == half /\ half' = FALSE /\ UNCHANGED log

LogNext == WriteHead \/ WriteTail
LogSpec == LogInit /\ [][LogNext]_logVars

-----------------------------------------------------------------------------
(* parseConnectionLogs                                                     *)

NewEntry(l) == [id |-> l.id, time |-> l.val, source |-> None, target |-> None,
                outbounds |-> <<>>, error |-> None]

Fill(e, l) ==
  CASE l.kind = "error" -> [e EXCEPT !.error = l.val]
    [] l.kind = "from"  -> [e EXCEPT !.source = l.val]
    [] l.kind = "to"    -> [e EXCEPT !.target = l.val]
    [] l.kind = "out"   -> IF e.outbounds # <<>> /\ Last(e.outbounds) = l.val THEN e
                           ELSE [e EXCEPT !.outbounds = Append(@, l.val)]
    [] OTHER            -> e

\* byID: which entry is a connection's, 0 if it has none yet.
NoneYet == [id \in Id |-> 0]

\* ids are looked up across restarts of sing-box
FaultyParseLine(acc, l) ==
  IF l.kind \in {"started", "noise"} THEN acc
  ELSE IF acc.byID[l.id] # 0
       THEN [acc EXCEPT !.entries[acc.byID[l.id]] = Fill(@, l)]
       ELSE [entries |-> Append(acc.entries, Fill(NewEntry(l), l)),
             byID    |-> [acc.byID EXCEPT ![l.id] = Len(acc.entries) + 1]]

ParseLine(acc, l) ==
  CASE l.kind = "started" -> [acc EXCEPT !.byID = NoneYet]
    [] l.kind = "noise"   -> acc
    [] OTHER ->
         IF acc.byID[l.id] # 0
         THEN [acc EXCEPT !.entries[acc.byID[l.id]] = Fill(@, l)]
         ELSE [entries |-> Append(acc.entries, Fill(NewEntry(l), l)),
               byID    |-> [acc.byID EXCEPT ![l.id] = Len(acc.entries) + 1]]

\* Most recently opened connections first.
Parse(lines) == Reverse(FoldLeft(ParseLine, [entries |-> <<>>, byID |-> NoneYet], lines).entries)

-----------------------------------------------------------------------------
(* ConnectionLogs                                                          *)

Size  == 2 * Len(log) - (IF half THEN 1 ELSE 0)
Start == IF Size > MaxLogChunks THEN Size - MaxLogChunks ELSE 0

\* The line the tail begins in.
FirstLine == (Start \div 2) + 1

\* A line whose head was cut off has lost its level.
Seen(i) ==
  IF i = FirstLine /\ Start % 2 = 1 /\ log[i].kind = "error" THEN [log[i] EXCEPT !.kind = "noise"]
  ELSE log[i]

\* the first line of the tail is parsed although it may be cut
FaultyComplete == FirstLine .. (IF half THEN Len(log) - 1 ELSE Len(log))

\* The lines left when the first of a cut tail and an unfinished last are dropped.
Complete == (IF Start > 0 THEN FirstLine + 1 ELSE 1) .. (IF half THEN Len(log) - 1 ELSE Len(log))

Entries == Parse([k \in 1..Cardinality(Complete) |-> Seen(Min(Complete) + k - 1)])

\* only a cut tail counts as truncated
FaultyConnectionLogs ==
  LET all == Entries IN
  [entries   |-> SubSeq(all, 1, Min({Len(all), MaxConnections})),
   truncated |-> Start > 0]

ConnectionLogs ==
  LET all == Entries IN
  [entries   |-> SubSeq(all, 1, Min({Len(all), MaxConnections})),
   truncated |-> Start > 0 \/ Len(all) > MaxConnections]

-----------------------------------------------------------------------------
(* What the page should show of the lines first..last, by definition: the  *)
(* connections that have a line there, each with all its lines.            *)

Epoch(i) == Cardinality({j \in 1..i : log[j].kind = "started"})
Lines(c, s) == {i \in s : log[i].kind \notin {"started", "noise"} /\ <<Epoch(i), log[i].id>> = c}
Connections(s) == {c \in (0..MaxLines) \X Id : Lines(c, s) # {}}

OfKind(c, s, k) == {i \in Lines(c, s) : log[i].kind = k}
Latest(c, s, k) == IF OfKind(c, s, k) = {} THEN None ELSE log[Max(OfKind(c, s, k))].val

\* The outbounds a connection used, in order, repeats not counted.
Used(c, s) ==
  LET outs == OfKind(c, s, "out")
      new  == {i \in outs : ~\E j \in outs : /\ j < i /\ log[j].val = log[i].val
                                             /\ ~\E k \in outs : j < k /\ k < i}
  IN [k \in 1..Cardinality(new) |-> log[CHOOSE i \in new : Cardinality({j \in new : j <= i}) = k].val]

Expected(c, s) ==
  [id |-> c[2], time |-> log[Min(Lines(c, s))].val, source |-> Latest(c, s, "from"),
   target |-> Latest(c, s, "to"), outbounds |-> Used(c, s), error |-> Latest(c, s, "error")]

\* entries are the connections of the lines s, latest first, as many as fit.
Shows(entries, s) ==
  LET conns  == Connections(s)
      opened == [c \in conns |-> Min(Lines(c, s))]
      Age(c) == Cardinality({d \in conns : opened[d] >= opened[c]})
  IN
  /\ Len(entries) = Min({Cardinality(conns), MaxConnections})
  /\ \A c \in conns : Age(c) <= Len(entries) => entries[Age(c)] = Expected(c, s)

(* The entries are those of the complete lines in the tail, but for at     *)
(* most the first one: connections never share an entry or have two, also  *)
(* when ids come back after a restart of sing-box, and no line cut by the  *)
(* bound or by a write under way contributes.                              *)
EntriesExact ==
  LET whole == {i \in 1..Len(log) : 2 * i - 2 >= Start /\ 2 * i <= Size}
      shown == ConnectionLogs.entries
  IN Shows(shown, whole) \/ (Start > 0 /\ whole # {} /\ Shows(shown, whole \ {Min(whole)}))

(* A page that does not say it is truncated shows every connection logged. *)
TruncationTold ==
  LET logs == ConnectionLogs IN
  ~logs.truncated => Len(logs.entries)
       = Cardinality(Connections(1..(IF half THEN Len(log) - 1 ELSE Len(log))))
=============================================================================
