--------------------------- MODULE TrafficPoller ---------------------------
(***************************************************************************)
(* Per-user traffic (backend/internal/traffic: poller.go, connections.go). *)
(*                                                                         *)
(* Every second the poller takes sing-box's table of open connections,     *)
(* which knows only each connection's bytes since it opened, and adds what *)
(* is new to `pending`; every five seconds it flushes pending to the       *)
(* users' counters in the database, one UPDATE per user, any of which may  *)
(* fail.  Requests reset counters and delete users meanwhile.              *)
(*                                                                         *)
(* Upload and download are counted alike, so a connection has one counter. *)
(* A user's row is its counter; ids of deleted users are not used again.   *)
(***************************************************************************)
EXTENDS Integers, FiniteSets, FiniteSetsExt

CONSTANTS Cid, Uid,  \* connection ids and user ids
          NoUser,    \* of a connection whose rule names no user
          Absent,    \* a user that has no row
          MaxBytes,  \* bound: bytes of one connection
          MaxOpens,  \* bound: connections opened
          Restarts   \* bound: times the panel is started again

ASSUME TrafficAssumption ==
  /\ MaxBytes \in Nat /\ MaxOpens \in Nat /\ Restarts \in Nat
  /\ NoUser \notin Uid /\ IsFiniteSet(Cid)

VARIABLES
  conn,      \* sing-box's connections by id
  total,     \* the users' counters in the database
  lastSeen,  \* Poller.lastSeen; 0 is a missing entry, as in a Go map
  pending,   \* Poller.pending; 0 is a missing entry
  todo,      \* users the running flush has yet to visit
  pc,        \* where Run is; "gone": the panel's process has ended
  cancelled, \* the context is cancelled: the panel is shutting down
  failed,    \* history: the last flush met a database error
  sampled,   \* history: a connection's bytes when it was last polled
  due,       \* history: bytes the polls saw pass, by user, less those reset away
  reused,    \* history: an id came back before a poll saw it gone
  opens, restarts

conns == <<conn, reused, opens>>
vars  == <<conn, total, lastSeen, pending, todo, pc, cancelled, failed,
           sampled, due, reused, opens, restarts>>

Connection == [user : Uid \cup {NoUser}, bytes : 0..MaxBytes, open : BOOLEAN]
Closed     == [user |-> NoUser, bytes |-> 0, open |-> FALSE]
Live       == {c \in Cid : conn[c].open}

Init ==
  /\ conn = [c \in Cid |-> Closed] /\ total = [u \in Uid |-> 0]
  /\ lastSeen = [c \in Cid |-> 0] /\ pending = [u \in Uid |-> 0]
  /\ todo = {} /\ pc = "select" /\ cancelled = FALSE /\ failed = FALSE
  /\ sampled = [c \in Cid |-> 0]
  /\ due = [u \in Uid |-> 0] /\ reused = FALSE
  /\ opens = 0 /\ restarts = 0

-----------------------------------------------------------------------------
(* sing-box.                                                               *)

Poller == <<total, lastSeen, pending, todo, pc, cancelled, failed, restarts>>

\* sing-box's ids are UUIDs, but the poller is written for ids that come back.
OpenConnection(c) == \E u \in Uid \cup {NoUser} :
  /\ c \notin Live /\ opens < MaxOpens /\ opens' = opens + 1
  /\ reused' = (reused \/ lastSeen[c] # 0)
  /\ conn' = [conn EXCEPT ![c] = [user |-> u, bytes |-> 0, open |-> TRUE]]
  /\ sampled' = [sampled EXCEPT ![c] = 0]
  /\ UNCHANGED <<Poller, due>>

Carry(c) ==
  /\ c \in Live /\ conn[c].bytes < MaxBytes
  /\ conn' = [conn EXCEPT ![c].bytes = @ + 1]
  /\ UNCHANGED <<Poller, sampled, due, reused, opens>>

CloseConnection(c) ==
  /\ c \in Live /\ conn' = [conn EXCEPT ![c] = Closed]
  /\ UNCHANGED <<Poller, sampled, due, reused, opens>>

-----------------------------------------------------------------------------
(* pollOnce.  A tick while sing-box is down, and a poll that fails, change *)
(* nothing, and so are no step.                                            *)

\* Faulty... definitions are plausible bugs for the mutation runs, used by no action.
FaultyDelta(c) == conn[c].bytes - lastSeen[c]

\* A counter below the one last seen belongs to a new connection.
Delta(c) ==
  IF conn[c].bytes >= lastSeen[c] THEN conn[c].bytes - lastSeen[c] ELSE conn[c].bytes

Counted      == {c \in Live : conn[c].user \in Uid}
CountedOf(u) == {c \in Counted : conn[c].user = u}
SumOf(f, S)  == MapThenSumSet(LAMBDA c : f[c], S)

PollOnce ==
  /\ pc = "select" /\ ~cancelled
  /\ pending' = [u \in Uid |-> pending[u] + SumOf([c \in Cid |-> Delta(c)], CountedOf(u))]
  /\ lastSeen' = [c \in Cid |-> CASE c \in Counted -> conn[c].bytes
                                   [] c \in Live \ Counted -> lastSeen[c]
                                   [] OTHER -> 0]
  /\ due' = [u \in Uid |->
       due[u] + SumOf([c \in Cid |-> conn[c].bytes - sampled[c]], CountedOf(u))]
  /\ sampled' = [c \in Cid |-> IF c \in Counted THEN conn[c].bytes ELSE sampled[c]]
  /\ UNCHANGED <<conns, total, todo, pc, cancelled, failed, restarts>>

-----------------------------------------------------------------------------
(* flush, at its tick and as Run returns: the users in any order, until a  *)
(* write fails.                                                            *)

Flush(where) ==
  /\ pc' = where /\ todo' = {u \in Uid : pending[u] # 0} /\ failed' = FALSE
  /\ UNCHANGED <<conns, total, lastSeen, pending, cancelled, sampled, due, restarts>>

FaultyFlushTick == \* flushes only while there are connections
  pc = "select" /\ (\E u \in Uid : pending[u] # 0) /\ Counted # {} /\ Flush("flush")

FlushTick == pc = "select" /\ (\E u \in Uid : pending[u] # 0) /\ Flush("flush")

RunEnds == pc = "select" /\ cancelled /\ Flush("last")

FaultyAddTraffic(u) == \* overwrites the counter
  total' = [total EXCEPT ![u] = IF @ = Absent THEN Absent ELSE pending[u]]

\* An UPDATE of a row that is gone changes nothing and is no error.
AddTraffic(u) == total' = [total EXCEPT ![u] = IF @ = Absent THEN Absent ELSE @ + pending[u]]

FlushWrite(u) ==
  /\ pc \in {"flush", "last"} /\ u \in todo
  /\ AddTraffic(u) /\ pending' = [pending EXCEPT ![u] = 0] /\ todo' = todo \ {u}
  /\ UNCHANGED <<conns, lastSeen, pc, cancelled, failed, sampled, due, restarts>>

AfterFlush == IF pc = "flush" THEN "select" ELSE "done"

FlushEnd ==
  /\ pc \in {"flush", "last"} /\ todo = {} /\ pc' = AfterFlush
  /\ UNCHANGED <<conns, total, lastSeen, pending, todo, cancelled, failed,
                 sampled, due, restarts>>

FaultyFlushFail(u) == \* the entry is removed before the write
  /\ pc \in {"flush", "last"} /\ u \in todo
  /\ pending' = [pending EXCEPT ![u] = 0]
  /\ todo' = {} /\ failed' = TRUE /\ pc' = AfterFlush
  /\ UNCHANGED <<conns, total, lastSeen, cancelled, sampled, due, restarts>>

FlushFail(u) ==
  /\ pc \in {"flush", "last"} /\ u \in todo
  /\ todo' = {} /\ failed' = TRUE /\ pc' = AfterFlush
  /\ UNCHANGED <<conns, total, lastSeen, pending, cancelled, sampled, due, restarts>>

-----------------------------------------------------------------------------
(* Requests.                                                               *)

ResetUserTraffic(u) ==
  /\ pc # "gone" /\ total[u] # Absent
  /\ total' = [total EXCEPT ![u] = 0] /\ due' = [due EXCEPT ![u] = @ - total[u]]
  /\ UNCHANGED <<conns, lastSeen, pending, todo, pc, cancelled, failed, sampled, restarts>>

DeleteUser(u) ==
  /\ pc # "gone" /\ total[u] # Absent /\ total' = [total EXCEPT ![u] = Absent]
  /\ UNCHANGED <<conns, lastSeen, pending, todo, pc, cancelled, failed,
                 sampled, due, restarts>>

-----------------------------------------------------------------------------
(* The panel's process.  sing-box and its connections outlive it.          *)

StopPoller ==
  /\ pc # "gone" /\ ~cancelled /\ cancelled' = TRUE
  /\ UNCHANGED <<conns, total, lastSeen, pending, todo, pc, failed,
                 sampled, due, restarts>>

\* main returns once the server has drained; it does not wait for Run.
MainExits ==
  /\ pc # "gone" /\ cancelled /\ pc' = "gone"
  /\ lastSeen' = [c \in Cid |-> 0] /\ pending' = [u \in Uid |-> 0] /\ todo' = {}
  /\ UNCHANGED <<conns, total, cancelled, failed, sampled, due, restarts>>

PanelStart ==
  /\ pc = "gone" /\ restarts < Restarts /\ restarts' = restarts + 1
  /\ pc' = "select" /\ cancelled' = FALSE /\ failed' = FALSE
  /\ UNCHANGED <<conns, total, lastSeen, pending, todo, sampled, due>>

-----------------------------------------------------------------------------
Next ==
  \/ \E c \in Cid : OpenConnection(c) \/ Carry(c) \/ CloseConnection(c)
  \/ PollOnce \/ FlushTick \/ RunEnds \/ FlushEnd
  \/ \E u \in Uid : FlushWrite(u) \/ FlushFail(u) \/ ResetUserTraffic(u) \/ DeleteUser(u)
  \/ StopPoller \/ MainExits \/ PanelStart

Spec == Init /\ [][Next]_vars

\* The tickers keep ticking, and database errors are transient.
FairSpec ==
  /\ Spec /\ WF_vars(FlushTick) /\ WF_vars(RunEnds) /\ WF_vars(FlushEnd)
  /\ \A u \in Uid : SF_vars(FlushWrite(u))

-----------------------------------------------------------------------------
(* The state is well formed; a flush visits only users with an entry.      *)
TypeOK ==
  /\ conn \in [Cid -> Connection] /\ total \in [Uid -> Nat \cup {Absent}]
  /\ lastSeen \in [Cid -> 0..MaxBytes] /\ sampled \in [Cid -> 0..MaxBytes]
  /\ pending \in [Uid -> Nat] /\ due \in [Uid -> Int]
  /\ pc \in {"select", "flush", "last", "done", "gone"}
  /\ cancelled \in BOOLEAN /\ failed \in BOOLEAN /\ reused \in BOOLEAN
  /\ opens \in 0..MaxOpens /\ restarts \in 0..Restarts
  /\ todo \subseteq {u \in Uid : pending[u] # 0}
  /\ pc \notin {"flush", "last"} => todo = {}

Exact(u) == total[u] # Absent => total[u] + pending[u] = due[u]

(* Nobody is charged for more than the polls saw: what Poller.lastSeen is  *)
(* kept for.                                                               *)
NeverOverCounted == \A u \in Uid : total[u] # Absent => total[u] + pending[u] <= due[u]

(* Until the panel is shut down no polled byte is lost or counted twice:   *)
(* it is in its user's counter, pending or reset away, whatever writes     *)
(* fail and whatever requests come between them (flush's comment).  Only a *)
(* connection id that comes back between two polls may hide bytes.         *)
Accounted ==
  restarts = 0 /\ pc # "gone" => NeverOverCounted /\ (reused \/ \A u \in Uid : Exact(u))

(* A counter falls only when it is reset or its user deleted.              *)
CountersOnlyGrow ==
  [][\A u \in Uid : total[u] # Absent /\ total'[u] # Absent =>
       total'[u] >= total[u] \/ due'[u] < due[u]]_vars

(* What a poll has seen reaches the database, though writes fail, unless   *)
(* the panel is shut down.                                                 *)
TrafficStored == \A u \in Uid : pending[u] > 0 ~> pending[u] = 0 \/ cancelled

(* After an orderly shutdown nothing is missing, unless a write failed.    *)
ShutdownKeepsTraffic ==
  pc = "gone" /\ ~failed /\ ~reused => \A u \in Uid : Exact(u)
=============================================================================
