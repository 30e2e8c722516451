------------------------- MODULE PanelConfig_proofs -------------------------
(***************************************************************************)
(* Theorems about PanelConfig, for any number of goroutines, ids, ports    *)
(* and requests, with or without disturbances.                             *)
(***************************************************************************)
EXTENDS PanelConfig, TLAPS

(* A transaction nobody has overtaken holds a write that keeps the tables  *)
(* consistent: what its checks found is still so.                          *)
WriteValid(w) ==
  \/ /\ w.table = "inb" /\ w.id \in Iid /\ w.row \in InboundRow \cup {Absent}
     /\ w.row # Absent => PortFree(w.row.port, w.id)
  \/ /\ w.table = "usr" /\ w.id \in Uid /\ w.row \in UserRow
     /\ OutboundValid(w.row.out) /\ w.links \subseteq Attach(w.id, Iid)
  \/ w.table = "usr" /\ w.id \in Uid /\ w.row = Absent /\ w.links = {}
  \/ w.table = "out" /\ w.id \in Oid /\ w.row \in Val
  \/ /\ w.table = "out" /\ w.id \in Oid /\ w.row = Absent
     /\ \A u \in Uid : usr[u] # Absent => usr[u].out # w.id

WritesValid ==
  /\ write = [r \in Req |-> write[r]]
  /\ \A r \in Req : pc[r] = "tx" /\ r \notin outdated => WriteValid(write[r])

(* What a regeneration has read is the database's, or someone is queued    *)
(* behind it to regenerate again.                                          *)
Waiting == \E q \in Req : pc[q] = "queue"

SnapshotsFresh ==
  \A r \in Req : ~Waiting =>
    /\ pc[r] \in {"links", "users", "outbounds", "apply"} => snap[r].inb = inb
    /\ pc[r] \in {"users", "outbounds", "apply"} => snap[r].link = link
    /\ pc[r] \in {"outbounds", "apply"} => snap[r].usr = usr
    /\ pc[r] = "apply" => snap[r].out = out

(* With nobody regenerating or queued the file is in sync.                 *)
FileInSync == mu = NoReq /\ ~Waiting => InSync \/ behind \/ file = Manual

IInv ==
  /\ TypeOK /\ WritesValid /\ ReferencesExist /\ PortsDistinct
  /\ SnapshotsFresh /\ FileInSync

-----------------------------------------------------------------------------
LEMMA InitInv == Init => IInv
<1> SUFFICES ASSUME Init PROVE IInv
  OBVIOUS
<1>1. NoRead \in Reads
  BY DEF NoRead, Reads
<1>2. TypeOK
  <2>1. direct \subseteq Uid /\ left \in 0..MaxRequests
    BY PanelAssumption DEF Init, PanelAssumption
  <2>3. snap \in [Req -> Reads] /\ behind \in BOOLEAN
    BY <1>1 DEF Init
  <2>2. \A r \in Req : mu # r /\ pc[r] \notin Regenerating
    BY PanelAssumption DEF Init, Regenerating, PanelAssumption
  <2> QED
    BY <2>1, <2>2, <2>3 DEF Init, TypeOK
<1>3. WritesValid
  BY DEF Init, WritesValid
<1>4. SnapshotsFresh /\ FileInSync
  BY DEF Init, SnapshotsFresh, FileInSync
<1> QED
  BY <1>2, <1>3, <1>4 DEF Init, IInv

-----------------------------------------------------------------------------
(* Opening a transaction with a write that is valid.                       *)
LEMMA OpenInv ==
  ASSUME IInv, NEW r \in Req, NEW w, Open(r, w), WriteValid(w)
  PROVE  IInv'
<1> USE DEF IInv, Open, db
<1>1. pc[r] = "idle" /\ pc' = [pc EXCEPT ![r] = "tx"] /\ pc \in [Req -> {"idle", "tx", "queue"} \cup Regenerating]
  BY DEF TypeOK
<1>b. behind' \in BOOLEAN /\ left' \in 0..MaxRequests
  BY PanelAssumption DEF TypeOK, PanelAssumption
<1>2. TypeOK'
  BY <1>1, <1>b, PanelAssumption DEF TypeOK, Regenerating, PanelAssumption
<1>3. WritesValid'
  BY <1>1 DEF WritesValid, WriteValid, PortFree, OutboundValid, Attach
<1>4. Waiting' <=> Waiting
  BY <1>1 DEF Waiting
<1>5. SnapshotsFresh' /\ FileInSync'
  BY <1>1, <1>4 DEF SnapshotsFresh, FileInSync, InSync
<1>6. ReferencesExist' /\ PortsDistinct'
  BY DEF ReferencesExist, PortsDistinct
<1> QED
  BY <1>2, <1>3, <1>5, <1>6

LEMMA RequestInv ==
  ASSUME IInv, NEW r \in Req, Request(r)
  PROVE  IInv'
<1> USE DEF Row
<1>t. inb \in Inbounds /\ usr \in Users /\ out \in Outbounds /\ link \subseteq Iid \X Uid
  BY DEF IInv, TypeOK
<1>1. CASE CreateInbound(r)
  BY <1>1, OpenInv DEF CreateInbound, WriteValid, InboundRow
<1>2. CASE UpdateInbound(r)
  BY <1>2, OpenInv DEF UpdateInbound, WriteValid, InboundRow
<1>3. CASE ResetInboundKeys(r)
  <2>1. PICK i \in Iid, v \in Val :
          inb[i] # Absent /\ Open(r, Row("inb", i, [inb[i] EXCEPT !.val = v], {}))
    BY <1>3 DEF ResetInboundKeys
  <2>2. inb[i] \in InboundRow /\ PortFree(inb[i].port, i)
    BY <1>t, <2>1 DEF IInv, PortsDistinct, PortFree, Inbounds
  <2> DEFINE row == [inb[i] EXCEPT !.val = v]
  <2>3. row \in InboundRow /\ row.port = inb[i].port
    BY <2>2 DEF InboundRow
  <2>4. WriteValid(Row("inb", i, row, {}))
    BY <2>2, <2>3 DEF WriteValid
  <2> QED
    BY <2>1, <2>4, OpenInv
<1>4. CASE DeleteInbound(r)
  BY <1>4, OpenInv DEF DeleteInbound, WriteValid
<1>5. CASE CreateUser(r)
  BY <1>5, OpenInv DEF CreateUser, WriteValid, UserRow, Attach
<1>6. CASE UpdateUser(r)
  <2>1. PICK u \in Uid, is \in SUBSET Iid, o \in Oid \cup {NoOut} :
          /\ usr[u] # Absent /\ OutboundValid(o)
          /\ Open(r, Row("usr", u, [usr[u] EXCEPT !.out = o], Attach(u, is)))
    BY <1>6 DEF UpdateUser
  <2> DEFINE row == [usr[u] EXCEPT !.out = o]
  <2>2. row \in UserRow /\ row.out = o
    BY <1>t, <2>1 DEF UserRow, Users
  <2>3. WriteValid(Row("usr", u, row, Attach(u, is)))
    BY <2>1, <2>2 DEF WriteValid, Attach
  <2> QED
    BY <2>1, <2>3, OpenInv
<1>7. CASE ResetUserCreds(r)
  <2>1. PICK u \in Uid, v \in Val :
          usr[u] # Absent /\ Open(r, Row("usr", u, [usr[u] EXCEPT !.val = v], LinksOf(u)))
    BY <1>7 DEF ResetUserCreds
  <2> DEFINE row == [usr[u] EXCEPT !.val = v]
  <2>2. row \in UserRow /\ row.out = usr[u].out /\ usr[u] \in UserRow
    BY <1>t, <2>1 DEF UserRow, Users
  <2>3. OutboundValid(row.out)
    BY <2>1, <2>2 DEF IInv, ReferencesExist, OutboundValid, UserRow
  <2>4. LinksOf(u) \subseteq Attach(u, Iid)
    BY <1>t DEF IInv, ReferencesExist, LinksOf, Attach
  <2>5. WriteValid(Row("usr", u, row, LinksOf(u)))
    BY <2>2, <2>3, <2>4 DEF WriteValid
  <2> QED
    BY <2>1, <2>5, OpenInv
<1>8. CASE DeleteUser(r)
  BY <1>8, OpenInv DEF DeleteUser, WriteValid
<1>9. CASE CreateOutbound(r)
  BY <1>9, OpenInv DEF CreateOutbound, WriteValid
<1>10. CASE UpdateOutbound(r)
  BY <1>10, OpenInv DEF UpdateOutbound, WriteValid
<1>11. CASE DeleteOutbound(r)
  BY <1>11, OpenInv DEF DeleteOutbound, WriteValid
<1>12. CASE ApplyRequest(r)
  <2> USE <1>12 DEF ApplyRequest, IInv, db
  <2>b. behind' \in BOOLEAN /\ left' \in 0..MaxRequests
    BY PanelAssumption DEF TypeOK, PanelAssumption
  <2>1. TypeOK'
    BY <2>b, PanelAssumption DEF TypeOK, Regenerating, PanelAssumption
  <2>2. WritesValid'
    BY DEF TypeOK, WritesValid, WriteValid, PortFree, OutboundValid, Attach
  <2>3. Waiting'
    BY DEF TypeOK, Waiting
  <2> QED
    BY <2>1, <2>2, <2>3 DEF SnapshotsFresh, FileInSync, ReferencesExist, PortsDistinct
<1> QED
  BY <1>1, <1>2, <1>3, <1>4, <1>5, <1>6, <1>7, <1>8, <1>9, <1>10, <1>11, <1>12 DEF Request

-----------------------------------------------------------------------------
(* A write that is valid keeps the tables well formed and consistent.      *)
LEMMA WriteRowSafe ==
  ASSUME IInv, NEW w, WriteValid(w), WriteRow(w)
  PROVE  /\ inb' \in Inbounds /\ usr' \in Users /\ out' \in Outbounds
         /\ link' \subseteq Iid \X Uid
         /\ ReferencesExist' /\ PortsDistinct'
<1>t. /\ inb \in Inbounds /\ usr \in Users /\ out \in Outbounds /\ link \subseteq Iid \X Uid
      /\ ReferencesExist /\ PortsDistinct
  BY DEF IInv, TypeOK
<1> USE DEF WriteRow, Written
<1>1. CASE w.table = "inb"
  <2>1. /\ inb' = [inb EXCEPT ![w.id] = w.row] /\ usr' = usr /\ out' = out
        /\ w.id \in Iid /\ w.row \in InboundRow \cup {Absent}
        /\ w.row # Absent => PortFree(w.row.port, w.id)
    BY <1>1 DEF WriteValid
  <2>2. link' \subseteq link /\ (w.row = Absent => \A l \in link' : l[1] # w.id)
    BY <1>1
  <2>3. inb' \in Inbounds
    BY <1>t, <2>1 DEF Inbounds
  <2>4. ReferencesExist'
    BY <1>t, <2>1, <2>2 DEF ReferencesExist, Inbounds
  <2>5. PortsDistinct'
    BY <1>t, <2>1 DEF PortsDistinct, PortFree, Inbounds
  <2> QED
    BY <1>t, <2>1, <2>2, <2>3, <2>4, <2>5
<1>2. CASE w.table = "usr"
  <2>1. /\ usr' = [usr EXCEPT ![w.id] = w.row] /\ inb' = inb /\ out' = out
        /\ link' = {l \in link : l[2] # w.id} \cup w.links
        /\ w.id \in Uid /\ w.row \in UserRow \cup {Absent}
        /\ w.links \subseteq Attach(w.id, Iid)
        /\ w.row # Absent => OutboundValid(w.row.out)
        /\ w.row = Absent => w.links = {}
    BY <1>2, AbsentAssumption DEF WriteValid, AbsentAssumption
  <2>2. usr' \in Users
    BY <1>t, <2>1 DEF Users
  <2>3. link' \subseteq Iid \X Uid
    BY <1>t, <2>1 DEF Attach
  <2>4. \A u \in Uid : usr'[u] # Absent /\ usr'[u].out # NoOut => out'[usr'[u].out] # Absent
    BY <1>t, <2>1 DEF ReferencesExist, OutboundValid, Users
  <2>5. \A l \in link' : inb'[l[1]] # Absent /\ usr'[l[2]] # Absent
    BY <1>t, <2>1 DEF ReferencesExist, Attach, Users
  <2> QED
    BY <1>t, <2>1, <2>2, <2>3, <2>4, <2>5 DEF ReferencesExist, PortsDistinct
<1>3. CASE w.table = "out"
  <2>1. /\ out' = [out EXCEPT ![w.id] = w.row] /\ inb' = inb /\ usr' = usr /\ link' = link
        /\ w.id \in Oid /\ w.row \in Val \cup {Absent}
        /\ w.row = Absent => \A u \in Uid : usr[u] # Absent => usr[u].out # w.id
    BY <1>3, AbsentAssumption DEF WriteValid, AbsentAssumption
  <2>2. out' \in Outbounds
    BY <1>t, <2>1 DEF Outbounds
  <2>3. ReferencesExist'
    BY <1>t, <2>1 DEF ReferencesExist, Outbounds
  <2> QED
    BY <1>t, <2>1, <2>2, <2>3 DEF PortsDistinct
<1> QED
  BY <1>1, <1>2, <1>3 DEF WriteValid

LEMMA CommitInv ==
  ASSUME IInv, NEW r \in Req, Commit(r)
  PROVE  IInv'
<1> USE DEF Commit, IInv
<1>1. WriteValid(write[r]) /\ WriteRow(write[r])
  BY DEF WritesValid
<1>2. /\ inb' \in Inbounds /\ usr' \in Users /\ out' \in Outbounds
      /\ link' \subseteq Iid \X Uid
      /\ ReferencesExist' /\ PortsDistinct'
  BY <1>1, WriteRowSafe
<1>3. direct' \subseteq Uid
  BY DEF TypeOK, Noted, Unassigned
<1>4. TypeOK'
  BY <1>2, <1>3 DEF TypeOK, Regenerating
<1>5. WritesValid'
  BY DEF TypeOK, WritesValid
<1>6. Waiting'
  BY DEF TypeOK, Waiting
<1> QED
  BY <1>2, <1>4, <1>5, <1>6 DEF SnapshotsFresh, FileInSync

-----------------------------------------------------------------------------
LEMMA LockInv ==
  ASSUME IInv, NEW r \in Req, Lock(r)
  PROVE  IInv'
<1> USE DEF Lock, IInv, db
<1>1. direct' \subseteq Uid
  BY DEF Unassigned
<1>b. behind' \in BOOLEAN
  BY DEF TypeOK
<1>2. TypeOK'
  BY <1>1, <1>b, PanelAssumption DEF TypeOK, Regenerating, PanelAssumption
<1>3. WritesValid'
  BY DEF TypeOK, WritesValid, WriteValid, PortFree, OutboundValid, Attach
<1>4. \A q \in Req : pc[q] \notin Regenerating
  BY PanelAssumption DEF TypeOK, PanelAssumption
<1>5. SnapshotsFresh' /\ FileInSync'
  BY <1>4 DEF TypeOK, SnapshotsFresh, FileInSync, Regenerating
<1> QED
  BY <1>2, <1>3, <1>5 DEF ReferencesExist, PortsDistinct

LEMMA ReadInv ==
  ASSUME IInv, NEW r \in Req,
         ReadInbounds(r) \/ ReadLinks(r) \/ ReadUsers(r) \/ ReadOutbounds(r)
  PROVE  IInv'
<1> USE DEF Read, IInv, db, ReadInbounds, ReadLinks, ReadUsers, ReadOutbounds
<1>1. snap' \in [Req -> Reads]
  BY DEF TypeOK, Reads
<1>b. behind' \in BOOLEAN
  BY DEF TypeOK
<1>2. TypeOK'
  BY <1>1, <1>b, PanelAssumption DEF TypeOK, Regenerating, PanelAssumption
<1>3. WritesValid'
  BY DEF TypeOK, WritesValid, WriteValid, PortFree, OutboundValid, Attach
<1>4. Waiting' <=> Waiting
  BY DEF TypeOK, Waiting
<1>5. SnapshotsFresh'
  BY <1>4 DEF TypeOK, SnapshotsFresh, Reads
<1>6. FileInSync'
  BY <1>4 DEF FileInSync, InSync
<1> QED
  BY <1>2, <1>3, <1>5, <1>6 DEF ReferencesExist, PortsDistinct

LEMMA UnlockInv ==
  ASSUME IInv, NEW r \in Req, pc[r] \in Regenerating, Unlock(r), behind' \in BOOLEAN,
         ~Waiting => behind' \/ file' = Generate(inb, usr, out, link)
  PROVE  IInv'
<1> USE DEF Unlock, IInv, db
<1>1. NoRead \in Reads
  BY DEF NoRead, Reads
<1>b. behind' \in BOOLEAN
  BY DEF TypeOK
<1>2. TypeOK'
  BY <1>1, <1>b, PanelAssumption DEF TypeOK, Regenerating, PanelAssumption
<1>3. WritesValid'
  BY DEF TypeOK, WritesValid, WriteValid, PortFree, OutboundValid, Attach, Regenerating
<1>4. Waiting' <=> Waiting
  BY DEF TypeOK, Waiting, Regenerating
<1>5. \A q \in Req : pc'[q] \notin Regenerating
  BY DEF TypeOK, Regenerating
<1>6. SnapshotsFresh'
  BY <1>5 DEF SnapshotsFresh, Regenerating
<1>7. FileInSync'
  BY <1>4 DEF FileInSync, InSync
<1> QED
  BY <1>2, <1>3, <1>6, <1>7 DEF ReferencesExist, PortsDistinct

LEMMA ApplyInv ==
  ASSUME IInv, NEW r \in Req, Apply(r) \/ ApplyError(r)
  PROVE  IInv'
<1>1. CASE Apply(r)
  BY <1>1, UnlockInv DEF Apply, Generated, IInv, SnapshotsFresh, Regenerating
<1>2. CASE ApplyError(r)
  BY <1>2, UnlockInv DEF ApplyError
<1> QED
  BY <1>1, <1>2

LEMMA OtherInv ==
  ASSUME IInv, (\E r \in Req : Rollback(r)) \/ PutConfig \/ PanelRestart \/ UNCHANGED vars
  PROVE  IInv'
<1> USE DEF IInv, db
<1>1. ASSUME NEW r \in Req, Rollback(r) PROVE IInv'
  <2> USE <1>1 DEF Rollback
  <2>b. behind' \in BOOLEAN /\ left' \in 0..MaxRequests
    BY PanelAssumption DEF TypeOK, PanelAssumption
  <2>1. TypeOK'
    BY <2>b, PanelAssumption DEF TypeOK, Regenerating, PanelAssumption
  <2>2. WritesValid'
    BY DEF TypeOK, WritesValid, WriteValid, PortFree, OutboundValid, Attach
  <2>3. Waiting' <=> Waiting
    BY DEF TypeOK, Waiting
  <2>4. SnapshotsFresh' /\ FileInSync'
    BY <2>3 DEF TypeOK, SnapshotsFresh, FileInSync, InSync
  <2> QED
    BY <2>1, <2>2, <2>4 DEF ReferencesExist, PortsDistinct
<1>2. CASE PutConfig
  <2> USE <1>2 DEF PutConfig
  <2>b. behind' \in BOOLEAN /\ left' \in 0..MaxRequests
    BY PanelAssumption DEF TypeOK, PanelAssumption
  <2>1. TypeOK'
    BY <2>b, PanelAssumption DEF TypeOK, Regenerating, PanelAssumption
  <2>2. WritesValid'
    BY DEF WritesValid, WriteValid, PortFree, OutboundValid, Attach
  <2> QED
    BY <2>1, <2>2 DEF SnapshotsFresh, FileInSync, Waiting, ReferencesExist, PortsDistinct
<1>3. CASE PanelRestart
  <2> USE <1>3 DEF PanelRestart
  <2>1. NoRead \in Reads
    BY DEF NoRead, Reads
  <2>b. behind' \in BOOLEAN
    BY DEF TypeOK
  <2>2. TypeOK'
    BY <2>1, <2>b, PanelAssumption DEF TypeOK, Regenerating, PanelAssumption
  <2>3. WritesValid' /\ SnapshotsFresh'
    BY DEF WritesValid, SnapshotsFresh
  <2>4. FileInSync'
    <3>1. CASE \E r \in Req : pc[r] \notin {"idle", "tx"}
      BY <3>1 DEF FileInSync, TypeOK
    <3>2. CASE \A r \in Req : pc[r] \in {"idle", "tx"}
      <4>1. mu = NoReq /\ ~Waiting
        BY <3>2 DEF TypeOK, Waiting, Regenerating
      <4> QED
        BY <4>1 DEF FileInSync, InSync
    <3> QED
      BY <3>1, <3>2
  <2> QED
    BY <2>2, <2>3, <2>4 DEF ReferencesExist, PortsDistinct
<1>4. CASE UNCHANGED vars
  BY <1>4 DEF vars, TypeOK, WritesValid, WriteValid, PortFree, OutboundValid, Attach,
     ReferencesExist, PortsDistinct, SnapshotsFresh, FileInSync, Waiting, InSync, Regenerating
<1> QED
  BY <1>1, <1>2, <1>3, <1>4

LEMMA StepInv == IInv /\ [Next]_vars => IInv'
BY RequestInv, CommitInv, LockInv, ReadInv, ApplyInv, OtherInv DEF Next, Work

-----------------------------------------------------------------------------
(* The inductive invariant holds throughout.                               *)
THEOREM Invariance == Spec => []IInv
BY InitInv, StepInv, PTL DEF Spec

(* The state stays well formed, Service.mu held by whoever regenerates.    *)
THEOREM TypeCorrect == Spec => []TypeOK
<1>1. IInv => TypeOK
  BY DEF IInv
<1> QED
  BY <1>1, Invariance, PTL

(* No interleaving of requests leaves a reference to a missing row.        *)
THEOREM ReferencesExistThm == Spec => []ReferencesExist
<1>1. IInv => ReferencesExist
  BY DEF IInv
<1> QED
  BY <1>1, Invariance, PTL

(* No race of requests puts two inbounds on one port.                      *)
THEOREM PortsDistinctThm == Spec => []PortsDistinct
<1>1. IInv => PortsDistinct
  BY DEF IInv
<1> QED
  BY <1>1, Invariance, PTL

(* When all requests have returned the file is what the database says,     *)
(* unless an apply failed, the panel died or the file was edited.          *)
THEOREM QuietInSyncThm == Spec => []QuietInSync
<1>1. IInv => QuietInSync
  <2> SUFFICES ASSUME IInv, \A r \in Req : pc[r] \in {"idle", "tx"}
               PROVE  InSync \/ behind \/ file = Manual
    BY DEF QuietInSync
  <2>1. mu = NoReq /\ ~Waiting
    BY DEF IInv, TypeOK, Waiting, Regenerating
  <2> QED
    BY <2>1 DEF IInv, FileInSync
<1> QED
  BY <1>1, Invariance, PTL
-----------------------------------------------------------------------------
(* When all requests have returned, every user's traffic leaves where the  *)
(* user is assigned to: what a torn read sent out directly is repaired by  *)
(* the regeneration queued behind it.                                      *)
RoutedAsAssigned ==
  (\A r \in Req : pc[r] \in {"idle", "tx"}) /\ ~behind /\ file # Manual =>
    \A u \in DOMAIN file.route :
      file.route[u] = IF usr[u].out = NoOut THEN "direct" ELSE usr[u].out

(* For any tables: a user generated as direct is one without an outbound.  *)
THEOREM RoutedAsAssignedThm == Spec => []RoutedAsAssigned
<1>1. IInv /\ QuietInSync => RoutedAsAssigned
  <2> SUFFICES ASSUME IInv, QuietInSync, \A r \in Req : pc[r] \in {"idle", "tx"},
                      ~behind, file # Manual, NEW u \in DOMAIN file.route
               PROVE  file.route[u] = IF usr[u].out = NoOut THEN "direct" ELSE usr[u].out
    BY DEF RoutedAsAssigned
  <2>1. file = Generate(inb, usr, out, link)
    BY DEF QuietInSync, InSync
  <2>2. file.route[u] = Egress(u, usr, out) /\ u \in Uid /\ usr[u] # Absent
    BY <2>1 DEF Generate, Attached
  <2>3. usr[u].out \in Oid \cup {NoOut} /\ NoOut \notin Oid
    BY <2>2, PanelAssumption DEF IInv, TypeOK, Users, UserRow, PanelAssumption
  <2>4. usr[u].out # NoOut => out[usr[u].out] # Absent
    BY <2>2 DEF IInv, ReferencesExist
  <2> QED
    BY <2>2, <2>3, <2>4 DEF Egress
<1> QED
  BY <1>1, Invariance, QuietInSyncThm, PTL

-----------------------------------------------------------------------------
(* EgressKept does not hold (run torn_read).  What breaks it is one race   *)
(* and no other: an outbound whose deletion is committed between the       *)
(* queries of users and of outbounds.                                      *)
DeletesOutbound(r) == Commit(r) /\ write[r].table = "out" /\ write[r].row = Absent

OutboundsHeld ==
  [][(\E r \in Req : DeletesOutbound(r)) => \A q \in Req : pc[q] # "outbounds"]_vars

(* A regeneration remembers every moment without an outbound; the users it *)
(* has read go out by an outbound that is still there, and when the        *)
(* outbounds have been read, by one it has.                                *)
Direct(us) == {u \in Uid : us[u] # Absent /\ us[u].out = NoOut}
Served(us, os) == \A u \in Uid : us[u] # Absent /\ us[u].out # NoOut => os[us[u].out] # Absent

EgressInv ==
  /\ mu # NoReq => Unassigned(usr) \subseteq direct
  /\ \A r \in Req :
       /\ pc[r] \in {"outbounds", "apply"} =>
            snap[r].usr \in Users /\ Direct(snap[r].usr) \subseteq direct
       /\ pc[r] = "outbounds" => Served(snap[r].usr, out)
       /\ pc[r] = "apply" => Served(snap[r].usr, snap[r].out)

LEMMA EgressCommit ==
  ASSUME IInv, EgressInv, NEW r \in Req, Commit(r),
         DeletesOutbound(r) => \A q \in Req : pc[q] # "outbounds"
  PROVE  EgressInv'
<1>1. pc' = [pc EXCEPT ![r] = "queue"] /\ pc[r] = "tx" /\ mu' = mu /\ snap' = snap
  BY DEF Commit
<1>2. mu # NoReq => direct' = direct \cup Unassigned(usr')
  BY DEF Commit, Noted
<1>3. \A q \in Req : pc[q] \in Regenerating => mu = q
  BY DEF IInv, TypeOK
<1>4. \A q \in Req : pc'[q] \in {"outbounds", "apply"} => pc'[q] = pc[q] /\ mu # NoReq
  BY <1>1, <1>3, PanelAssumption DEF IInv, TypeOK, PanelAssumption, Regenerating
<1>5. (mu # NoReq => Unassigned(usr) \subseteq direct)'
  BY <1>1, <1>2
<1>6. ASSUME NEW q \in Req, pc[q] = "outbounds" PROVE \A o \in Oid : out[o] # Absent => out'[o] # Absent
  <2>1. ~(write[r].table = "out" /\ write[r].row = Absent)
    BY <1>6 DEF DeletesOutbound
  <2>2. out' = Written("out", write[r], out) /\ WriteValid(write[r]) /\ out \in Outbounds
    BY DEF Commit, WriteRow, IInv, WritesValid, TypeOK
  <2>3. write[r].table = "out" => write[r].row # Absent /\ write[r].id \in Oid
    BY <2>1, <2>2 DEF WriteValid
  <2> QED
    BY <2>2, <2>3 DEF Written, Outbounds
<1>7. ASSUME NEW q \in Req, pc'[q] = "outbounds" PROVE Served(snap[q].usr, out')
  <2>1. pc[q] = "outbounds" /\ Served(snap[q].usr, out) /\ snap[q].usr \in Users
    BY <1>4, <1>7 DEF EgressInv
  <2>2. ASSUME NEW u \in Uid, snap[q].usr[u] # Absent, snap[q].usr[u].out # NoOut
        PROVE  out'[snap[q].usr[u].out] # Absent
    <3>1. out[snap[q].usr[u].out] # Absent
      BY <2>1, <2>2 DEF Served
    <3>2. snap[q].usr[u].out \in Oid
      BY <2>1, <2>2 DEF Users, UserRow
    <3> QED
      BY <1>6, <2>1, <3>1, <3>2
  <2> QED
    BY <2>2 DEF Served
<1> QED
  BY <1>1, <1>2, <1>4, <1>5, <1>7 DEF EgressInv

LEMMA EgressRead ==
  ASSUME IInv, EgressInv, NEW r \in Req,
         ReadInbounds(r) \/ ReadLinks(r) \/ ReadUsers(r) \/ ReadOutbounds(r)
  PROVE  EgressInv'
<1> USE DEF Read, db
<1>1. snap \in [Req -> Reads] /\ pc \in [Req -> {"idle", "tx", "queue"} \cup Regenerating]
  BY DEF IInv, TypeOK
<1>2. mu' = mu /\ usr' = usr /\ out' = out /\ direct' = direct
  BY DEF ReadInbounds, ReadLinks, ReadUsers, ReadOutbounds
<1>3. \A q \in Req \ {r} : pc'[q] = pc[q] /\ snap'[q] = snap[q]
  BY <1>1 DEF ReadInbounds, ReadLinks, ReadUsers, ReadOutbounds
<1>4. pc'[r] \in {"outbounds", "apply"} =>
        /\ snap'[r].usr \in Users /\ Direct(snap'[r].usr) \subseteq direct
        /\ pc'[r] = "outbounds" => Served(snap'[r].usr, out)
        /\ pc'[r] = "apply" => Served(snap'[r].usr, snap'[r].out)
  <2>1. CASE ReadUsers(r)
    <3>1. pc'[r] = "outbounds" /\ snap'[r].usr = usr
      BY <1>1, <2>1 DEF ReadUsers, Reads
    <3>2. usr \in Users /\ Served(usr, out) /\ Direct(usr) \subseteq Unassigned(usr) /\ mu = r
      BY <2>1 DEF ReadUsers, IInv, TypeOK, ReferencesExist, Served, Direct, Unassigned, Regenerating
    <3> QED
      BY <3>1, <3>2, PanelAssumption DEF EgressInv, PanelAssumption
  <2>2. CASE ReadOutbounds(r)
    <3>1. pc[r] = "outbounds" /\ pc'[r] = "apply" /\ snap'[r].usr = snap[r].usr /\ snap'[r].out = out
      BY <1>1, <2>2 DEF ReadOutbounds, Reads
    <3> QED
      BY <3>1 DEF EgressInv
  <2>3. CASE ReadInbounds(r) \/ ReadLinks(r)
    BY <1>1, <2>3 DEF ReadInbounds, ReadLinks
  <2> QED
    BY <2>1, <2>2, <2>3
<1>5. \A q \in Req : q # r /\ pc'[q] \in {"outbounds", "apply"} =>
        /\ snap'[q].usr \in Users /\ Direct(snap'[q].usr) \subseteq direct
        /\ pc'[q] = "outbounds" => Served(snap'[q].usr, out)
        /\ pc'[q] = "apply" => Served(snap'[q].usr, snap'[q].out)
  BY <1>3 DEF EgressInv
<1>6. mu # NoReq => Unassigned(usr) \subseteq direct
  BY DEF EgressInv
<1> QED
  BY <1>2, <1>4, <1>5, <1>6 DEF EgressInv

LEMMA EgressStep ==
  IInv /\ EgressInv /\ [Next]_vars
  /\ [(\E r \in Req : DeletesOutbound(r)) => \A q \in Req : pc[q] # "outbounds"]_vars
  => EgressInv'
<1> SUFFICES ASSUME IInv, EgressInv, [Next]_vars,
                    [(\E r \in Req : DeletesOutbound(r)) => \A q \in Req : pc[q] # "outbounds"]_vars
             PROVE  EgressInv'
  OBVIOUS
<1> USE DEF db
<1>1. pc \in [Req -> {"idle", "tx", "queue"} \cup Regenerating] /\ \A r \in Req : mu = r <=> pc[r] \in Regenerating
  BY DEF IInv, TypeOK
<1>2. ASSUME UNCHANGED <<usr, out, mu, direct, snap>>,
             \A q \in Req : pc'[q] \in {"outbounds", "apply"} => pc'[q] = pc[q]
      PROVE  EgressInv'
  BY <1>2 DEF EgressInv
<1>3. ASSUME NEW r \in Req, Commit(r) PROVE EgressInv'
  <2>1. DeletesOutbound(r) => \A q \in Req : pc[q] # "outbounds"
    <3>1. pc[r] = "tx" /\ pc' = [pc EXCEPT ![r] = "queue"]
      BY <1>3 DEF Commit
    <3>2. vars' # vars
      BY <1>1, <3>1 DEF vars
    <3> QED
      BY <3>2
  <2> QED
    BY <1>3, <2>1, EgressCommit
<1>4. ASSUME NEW r \in Req, Lock(r) PROVE EgressInv'
  <2>1. mu = NoReq /\ pc' = [pc EXCEPT ![r] = "inbounds"] /\ direct' = Unassigned(usr) /\ usr' = usr
    BY <1>4 DEF Lock
  <2>2. \A q \in Req : pc'[q] \notin {"outbounds", "apply"}
    BY <1>1, <2>1, PanelAssumption DEF PanelAssumption, Regenerating
  <2> QED
    BY <2>1, <2>2 DEF EgressInv
<1>5. ASSUME NEW r \in Req, Apply(r) \/ ApplyError(r) PROVE EgressInv'
  <2>1. mu' = NoReq /\ pc' = [pc EXCEPT ![r] = "idle"] /\ pc[r] \in Regenerating
    BY <1>5 DEF Apply, ApplyError, Unlock, Regenerating
  <2>2. \A q \in Req : pc'[q] \notin {"outbounds", "apply"}
    BY <1>1, <2>1 DEF Regenerating
  <2> QED
    BY <2>1, <2>2 DEF EgressInv
<1>6. ASSUME PanelRestart PROVE EgressInv'
  BY <1>6 DEF PanelRestart, EgressInv
<1>7. ASSUME NEW r \in Req, NEW w, Open(r, w) PROVE EgressInv'
  BY <1>1, <1>2, <1>7 DEF Open
<1>8. ASSUME NEW r \in Req, Request(r) PROVE EgressInv'
  <2>1. CASE ApplyRequest(r)
    BY <1>1, <1>2, <2>1 DEF ApplyRequest
  <2> QED
    BY <1>7, <1>8, <2>1 DEF Request, CreateInbound, UpdateInbound, ResetInboundKeys, DeleteInbound,
       CreateUser, UpdateUser, ResetUserCreds, DeleteUser, CreateOutbound, UpdateOutbound, DeleteOutbound
<1>9. ASSUME NEW r \in Req, Rollback(r) PROVE EgressInv'
  BY <1>1, <1>2, <1>9 DEF Rollback
<1>10. CASE PutConfig \/ UNCHANGED vars
  BY <1>2, <1>10 DEF PutConfig, vars
<1> QED
  BY <1>3, <1>4, <1>5, <1>6, <1>8, <1>9, <1>10, EgressRead DEF Next, Work

(* Unless an outbound is deleted between the queries of users and of       *)
(* outbounds, no regeneration sends out directly who was assigned an       *)
(* outbound all the while, whatever else is committed as it reads.         *)
THEOREM EgressKeptThm == Spec /\ OutboundsHeld => []EgressKept
<1>1. Init => EgressInv
  BY DEF Init, EgressInv
<1>2. IInv /\ EgressInv => EgressKept
  <2> SUFFICES ASSUME IInv, EgressInv, NEW r \in Req, pc[r] = "apply",
                      NEW u \in DOMAIN Generated(r).route, Generated(r).route[u] = "direct"
               PROVE  u \in direct
    BY DEF EgressKept
  <2> DEFINE us == snap[r].usr
             os == snap[r].out
  <2>1. us \in Users /\ Direct(us) \subseteq direct /\ Served(us, os)
    BY DEF EgressInv
  <2>2. u \in Uid /\ us[u] # Absent /\ Egress(u, us, os) = "direct"
    BY DEF Generated, Generate, Attached
  <2> HIDE DEF us, os
  <2>3. us[u].out \in Oid \cup {NoOut}
    BY <2>1, <2>2 DEF Users, UserRow
  <2>4. us[u].out = NoOut \/ (us[u].out \in Oid /\ os[us[u].out] # Absent)
    BY <2>1, <2>2, <2>3 DEF Served
  <2>5. us[u].out # NoOut => us[u].out = "direct"
    BY <2>2, <2>4 DEF Egress
  <2> QED
    BY <2>1, <2>2, <2>4, <2>5, PanelAssumption DEF Direct, PanelAssumption
<1> QED
  BY <1>1, <1>2, Invariance, EgressStep, PTL DEF Spec, OutboundsHeld

-----------------------------------------------------------------------------
(* EventuallyInSync rests on requests that end.  The steps a goroutine has *)
(* left: 1 to 5 inside the mutex, one to take it, one to commit.           *)
ToDo(r) == CASE pc[r] = "tx"        -> 7 [] pc[r] = "queue" -> 6 [] pc[r] = "inbounds" -> 5
             [] pc[r] = "links"     -> 4 [] pc[r] = "users" -> 3
             [] pc[r] = "outbounds" -> 2 [] pc[r] = "apply" -> 1 [] OTHER -> 0

(* Every step of a request brings it nearer to its end, and nothing that   *)
(* others do sets it back: neither a commit during its regeneration nor    *)
(* an error nor a restart makes a goroutine do anything again.             *)
RequestsCountDown ==
  [][\A r \in Req : /\ ToDo(r)' <= ToDo(r) \/ Request(r)
                    /\ Lock(r) \/ Work(r) => ToDo(r)' < ToDo(r)]_vars

LEMMA CountDownStep ==
  ASSUME TypeOK, [Next]_vars, NEW r \in Req
  PROVE  /\ ToDo(r)' <= ToDo(r) \/ Request(r)
         /\ Lock(r) \/ Work(r) => ToDo(r)' < ToDo(r)
<1>1. pc \in [Req -> {"idle", "tx", "queue"} \cup Regenerating]
  BY DEF TypeOK
<1> USE DEF ToDo
<1>2. Commit(r) => ToDo(r)' < ToDo(r)
  BY <1>1 DEF Commit
<1>3. Rollback(r) => ToDo(r)' < ToDo(r)
  BY <1>1 DEF Rollback
<1>4. Lock(r) => ToDo(r)' < ToDo(r)
  BY <1>1 DEF Lock
<1>5. ReadInbounds(r) \/ ReadLinks(r) => ToDo(r)' < ToDo(r)
  BY <1>1 DEF ReadInbounds, ReadLinks, Read
<1>6. ReadUsers(r) \/ ReadOutbounds(r) => ToDo(r)' < ToDo(r)
  BY <1>1 DEF ReadUsers, ReadOutbounds, Read
<1>7. Apply(r) \/ ApplyError(r) => ToDo(r)' < ToDo(r)
  BY <1>1 DEF Apply, ApplyError, Unlock, Regenerating
<1>8. Lock(r) \/ Work(r) => ToDo(r)' < ToDo(r)
  BY <1>2, <1>3, <1>4, <1>5, <1>6, <1>7 DEF Work
<1>9. ToDo(r) \in 0..7
  BY <1>1 DEF Regenerating
<1>10. pc'[r] \in {pc[r], "idle"} => ToDo(r)' <= ToDo(r)
  BY <1>1 DEF Regenerating
<1>11. ASSUME NEW q \in Req, q # r, Request(q) \/ Lock(q) \/ Work(q) PROVE pc'[r] = pc[r]
  <2>1. ASSUME NEW l, pc' = [pc EXCEPT ![q] = l] PROVE pc'[r] = pc[r]
    BY <1>1, <1>11, <2>1
  <2>2. Request(q) => \E l : pc' = [pc EXCEPT ![q] = l]
    BY DEF Request, CreateInbound, UpdateInbound, ResetInboundKeys, DeleteInbound, CreateUser,
       UpdateUser, ResetUserCreds, DeleteUser, CreateOutbound, UpdateOutbound, DeleteOutbound,
       ApplyRequest, Open
  <2>3. Lock(q) \/ Work(q) => \E l : pc' = [pc EXCEPT ![q] = l]
    BY DEF Lock, Work, Commit, Rollback, ReadInbounds, ReadLinks, ReadUsers, ReadOutbounds, Read,
       Apply, ApplyError, Unlock
  <2> QED
    BY <1>11, <2>1, <2>2, <2>3
<1>12. PutConfig \/ PanelRestart \/ UNCHANGED vars => pc'[r] \in {pc[r], "idle"}
  BY DEF PutConfig, PanelRestart, vars
<1>13. ToDo(r)' <= ToDo(r) \/ Request(r)
  <2> HIDE DEF ToDo
  <2>1. CASE \E q \in Req : q # r /\ (Request(q) \/ Lock(q) \/ Work(q))
    BY <1>10, <1>11, <2>1
  <2>2. CASE Lock(r) \/ Work(r)
    <3>1. ToDo(r)' < ToDo(r) /\ ToDo(r) \in Nat /\ ToDo(r)' \in Nat
      <4>1. ToDo(r)' \in 0..7
        BY DEF ToDo
      <4> QED
        BY <1>8, <1>9, <2>2, <4>1
    <3> QED
      BY <3>1
  <2> QED
    BY <1>10, <1>12, <2>1, <2>2 DEF Next
<1> QED
  BY <1>8, <1>13

(* Requests end, up to the fairness of their steps: for any interleaving,  *)
(* a goroutine takes at most seven steps per request.                      *)
THEOREM RequestsCountDownThm == Spec => RequestsCountDown
<1>1. TypeOK /\ [Next]_vars =>
        [\A r \in Req : /\ ToDo(r)' <= ToDo(r) \/ Request(r)
                        /\ Lock(r) \/ Work(r) => ToDo(r)' < ToDo(r)]_vars
  BY CountDownStep
<1> QED
  BY <1>1, TypeCorrect, PTL DEF Spec, RequestsCountDown
=============================================================================
