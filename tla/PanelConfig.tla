---------------------------- MODULE PanelConfig ----------------------------
(***************************************************************************)
(* The panel's database and the sing-box config generated from it          *)
(* (backend/internal/inbound: service.go, outbound.go, generate.go).       *)
(*                                                                         *)
(* A request validates and writes inside one SQLite transaction and then   *)
(* calls Regenerate, which reads the tables back with separate queries     *)
(* under Service.mu, generates the config and applies it.  Requests run    *)
(* concurrently, and commits are not ordered with a regeneration under way.*)
(*                                                                         *)
(* A row is reduced to what the properties tell apart: Port is a listen    *)
(* port with its network, Val stands for all other columns that end up in  *)
(* the config (tag, settings, credentials, server...).  Of config.json     *)
(* ManagedSingbox is the reader; here it is the value file.                *)
(***************************************************************************)
EXTENDS Naturals, FiniteSets

CONSTANTS Req,         \* goroutines serving requests
          Iid, Uid, Oid, \* ids of inbounds, users and outbounds
          Port, Reserved, \* listen ports, and those the panel itself uses
          Val,
          Absent, NoOut, Manual, NoReq,
          MaxRequests, \* bound: requests served in one behaviour
          Disturbed    \* may queries and applies fail, the panel die, the file be edited?

ASSUME PanelAssumption ==
  /\ Reserved \subseteq Port /\ MaxRequests \in Nat /\ Disturbed \in BOOLEAN
  /\ NoOut \notin Oid /\ "direct" \notin Oid /\ NoReq \notin Req

VARIABLES
  inb, usr, out, \* the tables, by id
  link,          \* the user_inbounds table
  file,          \* config.json
  mu,            \* holder of inbound.Service.mu
  pc,            \* per goroutine: where its request is
  write,         \* the row write of its open transaction
  outdated,      \* goroutines whose transaction has read what another one changed since
  snap,          \* per goroutine: what its regeneration has read so far
  behind,        \* history: a committed change was not applied and no request will
  direct,        \* history: users without an outbound at some moment since the
                 \* running regeneration began
  left           \* requests still to come

db   == <<inb, usr, out, link>>
vars == <<inb, usr, out, link, file, mu, pc, write, outdated, snap, behind, direct, left>>

InboundRow == [port : Port, val : Val]
UserRow    == [out : Oid \cup {NoOut}, val : Val]

ASSUME AbsentAssumption == Absent \notin InboundRow \cup UserRow \cup Val

Inbounds  == [Iid -> InboundRow \cup {Absent}]
Users     == [Uid -> UserRow \cup {Absent}]
Outbounds == [Oid -> Val \cup {Absent}]

\* What Generate emits for a user: its outbound if that is among the outbounds read.
Egress(u, us, os) ==
  IF us[u].out \in Oid /\ os[us[u].out] # Absent THEN us[u].out ELSE "direct"

Attached(i, us, ls) == {u \in Uid : <<i, u>> \in ls /\ us[u] # Absent}

Generate(is, us, os, ls) ==
  LET Serves(i) == IF is[i] = Absent THEN {} ELSE Attached(i, us, ls) IN
  [listen |-> [i \in {j \in Iid : is[j] # Absent} |->
                 [row |-> is[i], cred |-> {<<u, us[u].val>> : u \in Serves(i)}]],
   route  |-> [u \in UNION {Serves(i) : i \in Iid} |-> Egress(u, us, os)],
   proxy  |-> os]

InSync == file = Generate(inb, usr, out, link)

Unassigned(us) == {u \in Uid : us[u] = Absent \/ us[u].out = NoOut}

(* Every reference names a row that exists: a user's outbound, and both    *)
(* ends of a link.  The check and the write share a transaction, and an    *)
(* outbound with users is not deleted.                                     *)
ReferencesExist ==
  /\ \A u \in Uid : usr[u] # Absent /\ usr[u].out # NoOut => out[usr[u].out] # Absent
  /\ \A l \in link : inb[l[1]] # Absent /\ usr[l[2]] # Absent

(* No two inbounds listen on one port, and none on a port of the panel,    *)
(* whatever requests race for it: nothing else would stop the clash until  *)
(* sing-box fails to start.                                                *)
PortsDistinct ==
  /\ \A i, j \in Iid : i # j /\ inb[i] # Absent /\ inb[j] # Absent => inb[i].port # inb[j].port
  /\ \A i \in Iid : inb[i] # Absent => inb[i].port \notin Reserved

Reads  == [inb : Inbounds \cup {Absent}, link : SUBSET (Iid \X Uid),
           usr : Users \cup {Absent}, out : Outbounds \cup {Absent}]
NoRead == [inb |-> Absent, link |-> {}, usr |-> Absent, out |-> Absent]

\* Any database requests can have built, with its config applied.
Init ==
  /\ inb \in Inbounds /\ usr \in Users /\ out \in Outbounds /\ link \in SUBSET (Iid \X Uid)
  /\ ReferencesExist /\ PortsDistinct
  /\ InSync /\ mu = NoReq
  /\ pc = [r \in Req |-> "idle"] /\ write = [r \in Req |-> Absent]
  /\ outdated = {} /\ snap = [r \in Req |-> NoRead] /\ behind = FALSE /\ direct = {} /\ left = MaxRequests

-----------------------------------------------------------------------------
(* The first half of each request: open the transaction, validate, and     *)
(* decide the row to write.  A refused request changes nothing.            *)

Open(r, w) ==
  /\ pc[r] = "idle" /\ left > 0
  /\ pc' = [pc EXCEPT ![r] = "tx"] /\ write' = [write EXCEPT ![r] = w]
  /\ left' = left - 1
  /\ UNCHANGED <<db, file, mu, outdated, snap, behind, direct>>

\* A row write; `links` are the pairs of user_inbounds that remain.
Row(table, id, row, links) == [table |-> table, id |-> id, row |-> row, links |-> links]
LinksOf(u) == {l \in link : l[2] = u}

\* checkReserved and ensureInboundFree, excluding the inbound itself.
PortFree(port, self) ==
  /\ port \notin Reserved
  /\ \A i \in Iid \ {self} : inb[i] # Absent => inb[i].port # port

\* validateOutbound
OutboundValid(o) == o \in {NoOut} \cup {q \in Oid : out[q] # Absent}

CreateInbound(r) == \E i \in Iid, port \in Port, v \in Val :
  inb[i] = Absent /\ PortFree(port, i)
  /\ Open(r, Row("inb", i, [port |-> port, val |-> v], {}))

UpdateInbound(r) == \E i \in Iid, port \in Port, v \in Val :
  inb[i] # Absent /\ PortFree(port, i)
  /\ Open(r, Row("inb", i, [port |-> port, val |-> v], {}))

ResetInboundKeys(r) == \E i \in Iid, v \in Val :
  inb[i] # Absent /\ Open(r, Row("inb", i, [inb[i] EXCEPT !.val = v], {}))

DeleteInbound(r) == \E i \in Iid :
  inb[i] # Absent /\ Open(r, Row("inb", i, Absent, {}))

\* setUserInbounds attaches the requested inbounds that exist and no others.
Attach(u, is) == {i \in is : inb[i] # Absent} \X {u}

CreateUser(r) == \E u \in Uid, is \in SUBSET Iid, o \in Oid \cup {NoOut}, v \in Val :
  usr[u] = Absent /\ OutboundValid(o)
  /\ Open(r, Row("usr", u, [out |-> o, val |-> v], Attach(u, is)))

UpdateUser(r) == \E u \in Uid, is \in SUBSET Iid, o \in Oid \cup {NoOut} :
  usr[u] # Absent /\ OutboundValid(o)
  /\ Open(r, Row("usr", u, [usr[u] EXCEPT !.out = o], Attach(u, is)))

ResetUserCreds(r) == \E u \in Uid, v \in Val :
  usr[u] # Absent /\ Open(r, Row("usr", u, [usr[u] EXCEPT !.val = v], LinksOf(u)))

DeleteUser(r) == \E u \in Uid :
  usr[u] # Absent /\ Open(r, Row("usr", u, Absent, {}))

CreateOutbound(r) == \E o \in Oid, v \in Val :
  out[o] = Absent /\ Open(r, Row("out", o, v, {}))

UpdateOutbound(r) == \E o \in Oid, v \in Val :
  out[o] # Absent /\ Open(r, Row("out", o, v, {}))

\* Faulty... definitions are plausible bugs for the mutation runs, used by no action.
FaultyDeleteOutbound(r) == \E o \in Oid : \* users are not counted
  out[o] # Absent /\ Open(r, Row("out", o, Absent, {}))

DeleteOutbound(r) == \E o \in Oid :
  out[o] # Absent /\ (\A u \in Uid : usr[u] # Absent => usr[u].out # o)
  /\ Open(r, Row("out", o, Absent, {}))

\* The apply button (and the one-time routing migration): Regenerate alone.
ApplyRequest(r) ==
  /\ pc[r] = "idle" /\ left > 0 /\ left' = left - 1
  /\ pc' = [pc EXCEPT ![r] = "queue"]
  /\ UNCHANGED <<db, file, mu, write, outdated, snap, behind, direct>>

Request(r) ==
  \/ CreateInbound(r) \/ UpdateInbound(r) \/ ResetInboundKeys(r) \/ DeleteInbound(r)
  \/ CreateUser(r) \/ UpdateUser(r) \/ ResetUserCreds(r) \/ DeleteUser(r)
  \/ CreateOutbound(r) \/ UpdateOutbound(r) \/ DeleteOutbound(r) \/ ApplyRequest(r)

-----------------------------------------------------------------------------
(* SQLite serialises transactions: one that has read what a committed one  *)
(* changed gets SQLITE_BUSY when it tries to write.                        *)

Written(table, w, old) == IF w.table = table THEN [old EXCEPT ![w.id] = w.row] ELSE old

WriteRow(w) ==
  /\ inb' = Written("inb", w, inb) /\ usr' = Written("usr", w, usr)
  /\ out' = Written("out", w, out)
  /\ link' = CASE w.table = "usr" -> {l \in link : l[2] # w.id} \cup w.links
               [] w.table = "inb" /\ w.row = Absent -> {l \in link : l[1] # w.id}
               [] OTHER -> link

\* What a commit during a regeneration adds to its history.
Noted == direct' = IF mu = NoReq THEN {} ELSE direct \cup Unassigned(usr')

FaultyCommit(r) == \* the checks run before the transaction
  /\ pc[r] = "tx"
  /\ WriteRow(write[r]) /\ Noted
  /\ pc' = [pc EXCEPT ![r] = "queue"] /\ write' = [write EXCEPT ![r] = Absent]
  /\ UNCHANGED <<file, mu, outdated, snap, behind, left>>

FaultyCommitOnly(r) == \* the request does not regenerate
  /\ pc[r] = "tx" /\ r \notin outdated
  /\ WriteRow(write[r]) /\ Noted
  /\ outdated' = {q \in Req \ {r} : pc[q] = "tx"}
  /\ pc' = [pc EXCEPT ![r] = "idle"] /\ write' = [write EXCEPT ![r] = Absent]
  /\ UNCHANGED <<file, mu, snap, behind, left>>

Commit(r) ==
  /\ pc[r] = "tx" /\ r \notin outdated
  /\ WriteRow(write[r]) /\ Noted
  /\ outdated' = {q \in Req \ {r} : pc[q] = "tx"}
  /\ pc' = [pc EXCEPT ![r] = "queue"] /\ write' = [write EXCEPT ![r] = Absent]
  /\ UNCHANGED <<file, mu, snap, behind, left>>

Rollback(r) ==
  /\ pc[r] = "tx" /\ (r \in outdated \/ Disturbed)
  /\ outdated' = outdated \ {r}
  /\ pc' = [pc EXCEPT ![r] = "idle"] /\ write' = [write EXCEPT ![r] = Absent]
  /\ UNCHANGED <<db, file, mu, snap, behind, direct, left>>

-----------------------------------------------------------------------------
(* Regenerate: lock, four queries, Generate, ApplyConfig, unlock.          *)

Regenerating == {"inbounds", "links", "users", "outbounds", "apply"}

FaultyLock(r) == \* no mutex
  /\ pc[r] = "queue" /\ mu' = r
  /\ pc' = [pc EXCEPT ![r] = "inbounds"] /\ direct' = Unassigned(usr)
  /\ UNCHANGED <<db, file, write, outdated, snap, behind, left>>

Lock(r) ==
  /\ pc[r] = "queue" /\ mu = NoReq /\ mu' = r
  /\ pc' = [pc EXCEPT ![r] = "inbounds"] /\ direct' = Unassigned(usr)
  /\ UNCHANGED <<db, file, write, outdated, snap, behind, left>>

Read(r, from, to) ==
  /\ pc[r] = from /\ pc' = [pc EXCEPT ![r] = to]
  /\ UNCHANGED <<db, file, mu, write, outdated, behind, direct, left>>

\* Preload("Users") is three queries: inbounds, user_inbounds, users.
ReadInbounds(r)  == Read(r, "inbounds", "links") /\ snap' = [snap EXCEPT ![r].inb = inb]
ReadLinks(r)     == Read(r, "links", "users") /\ snap' = [snap EXCEPT ![r].link = link]
ReadUsers(r)     == Read(r, "users", "outbounds") /\ snap' = [snap EXCEPT ![r].usr = usr]
ReadOutbounds(r) == Read(r, "outbounds", "apply") /\ snap' = [snap EXCEPT ![r].out = out]

Generated(r) == Generate(snap[r].inb, snap[r].usr, snap[r].out, snap[r].link)

FaultyUnlock(r) == \* an early return without the unlock
  /\ UNCHANGED mu /\ snap' = [snap EXCEPT ![r] = NoRead] /\ direct' = {}
  /\ pc' = [pc EXCEPT ![r] = "idle"]
  /\ UNCHANGED <<db, write, outdated, left>>

Unlock(r) ==
  /\ mu' = NoReq /\ snap' = [snap EXCEPT ![r] = NoRead] /\ direct' = {}
  /\ pc' = [pc EXCEPT ![r] = "idle"]
  /\ UNCHANGED <<db, write, outdated, left>>

Apply(r) ==
  /\ pc[r] = "apply" /\ file' = Generated(r) /\ behind' = FALSE /\ Unlock(r)

\* An *ApplyError: a query or Generate fails, or ApplyConfig does, before or
\* after it saved the file.  The caller's change is committed all the same.
ApplyError(r) ==
  /\ Disturbed /\ pc[r] \in Regenerating
  /\ \/ UNCHANGED file
     \/ pc[r] = "apply" /\ file' = Generated(r)
  /\ behind' = TRUE /\ Unlock(r)

\* PUT /api/singbox/config overwrites the generated file.
PutConfig ==
  /\ Disturbed /\ left > 0 /\ left' = left - 1 /\ file' = Manual
  /\ UNCHANGED <<db, mu, pc, write, outdated, snap, behind, direct>>

\* The panel dies and is started again: open transactions roll back, and
\* nothing at startup regenerates a config for what was already committed.
PanelRestart ==
  /\ Disturbed
  /\ behind' = (behind \/ \E r \in Req : pc[r] \notin {"idle", "tx"})
  /\ pc' = [r \in Req |-> "idle"] /\ write' = [r \in Req |-> Absent]
  /\ outdated' = {} /\ mu' = NoReq /\ snap' = [r \in Req |-> NoRead] /\ direct' = {}
  /\ UNCHANGED <<db, file, left>>

-----------------------------------------------------------------------------
Work(r) ==
  \/ Commit(r) \/ Rollback(r) \/ ReadInbounds(r) \/ ReadLinks(r) \/ ReadUsers(r)
  \/ ReadOutbounds(r) \/ Apply(r) \/ ApplyError(r)

Next ==
  \/ \E r \in Req : Request(r) \/ Lock(r) \/ Work(r)
  \/ PutConfig \/ PanelRestart

Spec == Init /\ [][Next]_vars

\* A request keeps running; sync.Mutex does not starve a waiter.
FairSpec == Spec /\ \A r \in Req : WF_vars(Work(r)) /\ SF_vars(Lock(r))

-----------------------------------------------------------------------------
(* The state is well formed, and exactly the holder of Service.mu is       *)
(* regenerating.                                                           *)
TypeOK ==
  /\ inb \in Inbounds /\ usr \in Users /\ out \in Outbounds /\ link \subseteq Iid \X Uid
  /\ snap \in [Req -> Reads]
  /\ pc \in [Req -> {"idle", "tx", "queue"} \cup Regenerating]
  /\ outdated \subseteq {r \in Req : pc[r] = "tx"}
  /\ behind \in BOOLEAN /\ direct \subseteq Uid /\ left \in 0..MaxRequests
  /\ mu \in Req \cup {NoReq}
  /\ \A r \in Req : mu = r <=> pc[r] \in Regenerating

(* When every request has returned, config.json is what the database       *)
(* generates, however commits and regenerations interleaved, unless an     *)
(* apply failed, the panel died, or the file was edited by hand.           *)
QuietInSync ==
  (\A r \in Req : pc[r] \in {"idle", "tx"}) => InSync \/ behind \/ file = Manual

(* A user is only ever sent out directly if, at some moment while the      *)
(* config was being built, the database had it without an outbound.        *)
EgressKept ==
  \A r \in Req : pc[r] = "apply" =>
    \A u \in DOMAIN Generated(r).route : Generated(r).route[u] = "direct" => u \in direct

(* When requests stop coming, every committed change reaches config.json   *)
(* for good, but for what an apply that failed, a panel that died or an    *)
(* edit by hand left behind.                                               *)
EventuallyInSync == <>[](InSync \/ behind \/ file = Manual)
=============================================================================
