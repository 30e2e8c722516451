--------------------------- MODULE Startup_proofs ---------------------------
(***************************************************************************)
(* Theorems about Startup for any number of goroutines, ports, starts and  *)
(* requests.  The inductive invariant says which address the stages of     *)
(* main know (AddrInv), where goroutines can be in a call and what they    *)
(* hold (CallInv), who will bring the file and the process in step with    *)
(* the database (SyncInv), what is free of server-side rules (MarkInv),    *)
(* and how far the seeding is (SeedInv).                                   *)
(***************************************************************************)
EXTENDS Startup, TLAPS

Early     == {"off", "panelPort", "setAddr", "apiConfig"}
Reserving == {"ensure", "reserveAPI"}
Seeding   == {"count", "seed1", "seed2"}
Seeded    == {"backfill", "migrate", "mark", "autoStart", "serving", "draining"}

AddrInv ==
  /\ stage \notin Early => exp = meta /\ meta \in Addr
  /\ stage \in Seeding \cup Seeded => exp \in reserved
  /\ stage \notin {"off", "panelPort"} => PanelPort \in reserved
  /\ meta = NoAddr => behind

CallInv ==
  /\ call[Main] # "idle" => stage \in {"seed1", "seed2", "migrate"}
  /\ call[Main] # "restart" /\ op[Main] = "none"
  /\ \A r \in Req : call[r] # "idle" => stage \in {"serving", "draining"}
  /\ \A t \in Thread : call[t] = "gate" => imu = t
  /\ \A t \in Thread : call[t] = "save" => gen[t] \in Config
  /\ \A t \in Thread : call[t] = "launch" => up = NoConfig
  /\ \A t \in Thread : imu = t => call[t] \in {"save", "gate", "stop", "launch"}

Pending == \E t \in Thread : call[t] = "regen"

SyncInv ==
  /\ \A t \in Thread : call[t] \in {"save", "gate", "stop", "launch"} /\ imu = t =>
       gen[t] = Generated \/ Pending
  /\ \A t \in Thread : call[t] \in {"gate", "stop", "launch"} /\ imu = t => file = gen[t]
  /\ behind \/ file = Generated \/ Pending \/ \E t \in Thread : call[t] = "save"
  /\ \/ behind \/ skipped \/ up \in {NoConfig, file}
     \/ \E t \in Thread : call[t] \in {"gate", "stop"} /\ imu = t

Clean(c) == c \in Generation => ~c.legacy

MarkInv ==
  /\ \A t \in Thread : Clean(gen[t])
  /\ call[Main] \in {"gate", "stop", "launch"} => Clean(file)
  /\ mark \/ stage = "mark" => Clean(file) /\ (Clean(up) \/ skipped)

Whole == {FirstSeed, SecondSeed} \subseteq rows \/ origin # "seeds"

SeedInv ==
  /\ stage = "seed1" => rows = IF call[Main] = "idle" THEN {} ELSE {FirstSeed}
  /\ stage = "seed2" => rows = IF call[Main] = "idle" THEN {FirstSeed} ELSE {FirstSeed, SecondSeed}
  /\ stage \in Seeded => Whole
  /\ stage \notin {"seed1", "seed2"} => rows = {} \/ Whole

IInv == TypeOK /\ AddrInv /\ CallInv /\ SyncInv /\ MarkInv /\ SeedInv

-----------------------------------------------------------------------------
Stages == {"off", "panelPort", "setAddr", "apiConfig", "ensure", "reserveAPI", "count",
           "seed1", "seed2", "backfill", "migrate", "mark", "autoStart", "serving", "draining"}

LEMMA CleanConfigs ==
  /\ Clean(NoConfig) /\ Clean(Edited) /\ Clean(Generated)
  /\ TypeOK => Generated \in Config
BY EditedAssumption DEF EditedAssumption, Clean, Config, Generation, Generated, TypeOK

(* What a call that ends leaves behind, for the goroutine itself and for   *)
(* the others.                                                             *)
LEMMA ReturnEffect ==
  ASSUME IInv, NEW t \in Thread, NEW ok \in BOOLEAN, Return(t, ok),
         call[t] \in {"regen", "save", "gate", "stop", "launch"}
  PROVE  /\ imu' = Free(imu, t) /\ smu' = Free(smu, t)
         /\ call' \in [Thread -> {"idle", "regen", "save", "gate", "stop", "launch", "restart"}]
         /\ op' \in [Thread -> {"none", "apply"}] /\ gen' \in [Thread -> Config \cup {NoConfig}]
         /\ stage' \in Stages /\ origin' \in {"seeds", "cut", "admin"}
         /\ call'[t] \in {"idle", "restart"} /\ gen'[t] = NoConfig
         /\ \A u \in Thread \ {t} : call'[u] = call[u] /\ gen'[u] = gen[u]
         /\ t # Main => stage' = stage /\ origin' = origin
         /\ t = Main => stage' = NextStage(ok)
<1> USE DEF IInv, TypeOK, CallInv, Return
<1>1. op' \in [Thread -> {"none", "apply"}] /\ gen' \in [Thread -> Config \cup {NoConfig}]
  OBVIOUS
<1>2. call' \in [Thread -> {"idle", "regen", "save", "gate", "stop", "launch", "restart"}]
  OBVIOUS
<1>3. stage' \in Stages
  BY DEF NextStage, Stages
<1>4. origin' \in {"seeds", "cut", "admin"}
  OBVIOUS
<1>5. /\ call'[t] \in {"idle", "restart"} /\ gen'[t] = NoConfig
      /\ \A u \in Thread \ {t} : call'[u] = call[u] /\ gen'[u] = gen[u]
  OBVIOUS
<1>6. /\ t # Main => stage' = stage /\ origin' = origin
      /\ t = Main => stage' = NextStage(ok)
  OBVIOUS
<1> QED
  BY <1>1, <1>2, <1>3, <1>4, <1>5, <1>6

LEMMA ReturnTypeOK ==
  ASSUME IInv, NEW t \in Thread, NEW ok \in BOOLEAN, Return(t, ok),
         call[t] \in {"regen", "save", "gate", "stop", "launch"},
         UNCHANGED <<meta, rows, mark, foreign, exp, reserved, boots, left>>,
         file' \in Config \cup {NoConfig}, up' \in Config \cup {NoConfig}, behind' \in BOOLEAN,
         skipped' \in BOOLEAN
  PROVE  TypeOK'
<1> USE DEF IInv, TypeOK
<1>1. imu' \in Thread \cup {NoThread} /\ smu' \in Thread \cup {NoThread}
  BY ReturnEffect DEF Free
<1>2. \A u \in Thread : smu' = u <=> call'[u] \in {"gate", "stop", "launch"}
  BY ReturnEffect, StartupAssumption DEF StartupAssumption, Free
<1>3. \A u \in Thread : call'[u] = "save" => imu' = u
  BY ReturnEffect DEF Free
<1>4. /\ call' \in [Thread -> {"idle", "regen", "save", "gate", "stop", "launch", "restart"}]
      /\ op' \in [Thread -> {"none", "apply"}] /\ gen' \in [Thread -> Config \cup {NoConfig}]
  BY ReturnEffect
<1>5. stage' \in Stages /\ origin' \in {"seeds", "cut", "admin"}
  BY ReturnEffect
<1> QED
  BY <1>1, <1>2, <1>3, <1>4, <1>5 DEF Stages

(* A call that ends with inbound.Service.mu free leaves nobody half-way.   *)
LEMMA ReturnSync ==
  ASSUME IInv, NEW t \in Thread, NEW ok \in BOOLEAN, Return(t, ok),
         call[t] \in {"regen", "save", "gate", "stop", "launch"},
         imu \in {t, NoThread}, UNCHANGED <<meta, rows>>,
         \/ behind' = TRUE
         \/ (up' \in {NoConfig, file'} \/ skipped') /\ (file' = Generated \/ \E u \in Thread \ {t} : call[u] = "regen")
  PROVE  SyncInv'
<1> USE DEF IInv
<1>1. imu' = NoThread /\ NoThread \notin Thread
  BY ReturnEffect, StartupAssumption DEF StartupAssumption, Free
<1>2. Generated' = Generated
  BY DEF Generated
<1>3. \A u \in Thread \ {t} : call[u] = "regen" => call'[u] = "regen"
  BY ReturnEffect
<1> QED
  BY <1>1, <1>2, <1>3 DEF SyncInv, Pending

LEMMA InitInv == Init => IInv
<1> SUFFICES ASSUME Init PROVE IInv
  OBVIOUS
<1> USE StartupAssumption, EditedAssumption DEF StartupAssumption, EditedAssumption
<1>1. TypeOK
  <2>1. meta \in Addr \cup {NoAddr} /\ rows \subseteq Port
    BY DEF Init
  <2>2. mark \in BOOLEAN /\ behind \in BOOLEAN /\ skipped \in BOOLEAN
    BY Zenon DEF Init
  <2>7. origin \in {"seeds", "cut", "admin"}
    BY Zenon DEF Init
  <2>3. file \in Config \cup {NoConfig}
    <3>1. Generated \in Generation
      BY <2>1 DEF Generation, Generated
    <3>2. Generated \in Config /\ (Generation \subseteq Config)
      BY <3>1 DEF Config
    <3>3. [Generated EXCEPT !.legacy = TRUE] \in Generation
      BY <3>1 DEF Generation
    <3>4. file \in {NoConfig, Generated, [Generated EXCEPT !.legacy = TRUE]}
      BY Zenon DEF Init
    <3> QED
      BY <3>2, <3>3, <3>4
  <2>4. up \in Config \cup {NoConfig}
    BY <2>3 DEF Init
  <2>5. /\ foreign \subseteq Addr /\ exp = NoAddr /\ reserved = {} /\ stage = "off"
        /\ boots \in 0..MaxBoots /\ left \in 0..MaxRequests
    BY DEF Init
  <2>6. /\ call = [t \in Thread |-> "idle"] /\ op = [t \in Thread |-> "none"]
        /\ gen = [t \in Thread |-> NoConfig] /\ imu = NoThread /\ smu = NoThread
    BY DEF Init
  <2> QED
    BY <2>1, <2>2, <2>3, <2>4, <2>5, <2>6, <2>7 DEF TypeOK, Thread
<1>2. AddrInv /\ CallInv
  BY DEF Init, AddrInv, CallInv, Early, Seeding, Seeded, Thread
<1>3. SyncInv
  BY DEF Init, SyncInv, Generated, Thread
<1>4. MarkInv
  BY DEF Init, MarkInv, Clean, Generated, Generation, Config, Thread
<1>5. SeedInv
  BY DEF Init, SeedInv, Whole, Seeded
<1> QED
  BY <1>1, <1>2, <1>3, <1>4, <1>5 DEF IInv

(* A step of the seeding keeps the state well formed.                      *)
LEMMA SeedTypeOK ==
  ASSUME TypeOK, NEW s, NEW port \in Port, Seed(s, port)
  PROVE  TypeOK'
<1>1. rows' \subseteq Port /\ origin' \in {"seeds", "cut", "admin"}
  BY DEF TypeOK, Seed
<1>2. stage' \in Stages
  BY DEF TypeOK, Seed, Stages
<1>3. \/ call' = call
      \/ call[Main] = "idle" /\ call' = [call EXCEPT ![Main] = "regen"]
  BY DEF Seed, Regenerating
<1>4. call' \in [Thread -> {"idle", "regen", "save", "gate", "stop", "launch", "restart"}]
  BY <1>3 DEF TypeOK
<1>5. /\ \A t \in Thread : smu = t <=> call'[t] \in {"gate", "stop", "launch"}
      /\ \A t \in Thread : call'[t] = "save" => imu = t
  BY <1>3 DEF TypeOK
<1>6. UNCHANGED <<meta, mark, file, up, skipped, foreign, exp, reserved, op, gen, imu, smu, behind,
                  boots, left>>
  BY DEF Seed, host, local, bounds
<1> QED
  BY <1>1, <1>2, <1>4, <1>5, <1>6 DEF TypeOK, Stages

LEMMA StartingInv ==
  ASSUME IInv, Starting
  PROVE  IInv'
<1> USE StartupAssumption, EditedAssumption DEF StartupAssumption, EditedAssumption, IInv,
    Thread, db, host, local, calls, bounds, Down
<1>1. CASE ReservePanelPort
  BY <1>1 DEF ReservePanelPort, TypeOK, AddrInv, CallInv, SyncInv, MarkInv, SeedInv,
     Pending, Generated, Clean, Whole, Early, Seeding, Seeded
<1>2. CASE SetClashAPIAddr
  <2>1. TypeOK'
    BY <1>2 DEF SetClashAPIAddr, TypeOK
  <2>2. AddrInv'
    BY <1>2 DEF SetClashAPIAddr, TypeOK, AddrInv, CallInv, Early, Seeding, Seeded
  <2>3. CallInv'
    BY <1>2 DEF SetClashAPIAddr, TypeOK, CallInv
  <2>4. SyncInv'
    BY <1>2 DEF SetClashAPIAddr, TypeOK, AddrInv, CallInv, SyncInv, Pending, Generated,
       Early
  <2>5. MarkInv'
    BY <1>2 DEF SetClashAPIAddr, TypeOK, CallInv, MarkInv, Clean
  <2>6. SeedInv'
    BY <1>2 DEF SetClashAPIAddr, TypeOK, CallInv, SeedInv, Whole, Seeded
  <2> QED
    BY <2>1, <2>2, <2>3, <2>4, <2>5, <2>6
<1>3. CASE APIConfig
  BY <1>3 DEF APIConfig, TypeOK, AddrInv, CallInv, SyncInv, MarkInv, SeedInv, Pending,
     Generated, Clean, Whole, Early, Seeding, Seeded
<1>4. CASE EnsureClashAPIAvailable
  <2>1. TypeOK'
    <3>1. meta' \in Addr \cup {NoAddr} /\ exp' \in Addr \cup {NoAddr} /\ reserved' \subseteq Port
      BY <1>4, StartupAssumption DEF EnsureClashAPIAvailable, Gone, StartupAssumption, TypeOK
    <3>2. stage' \in {"reserveAPI", "off"}
      BY <1>4 DEF EnsureClashAPIAvailable, Gone
    <3>3. behind' \in BOOLEAN
      BY <1>4 DEF EnsureClashAPIAvailable, TypeOK
    <3>4. UNCHANGED <<rows, mark, file, up, skipped, foreign, call, op, gen, imu, smu, origin,
                      boots, left>>
      BY <1>4 DEF EnsureClashAPIAvailable, host, calls, bounds
    <3> QED
      BY <3>1, <3>2, <3>3, <3>4 DEF TypeOK
  <2>2. AddrInv'
    BY <1>4 DEF EnsureClashAPIAvailable, Gone, TypeOK, AddrInv, CallInv, Early, Seeding,
       Seeded
  <2>3. CallInv'
    BY <1>4 DEF EnsureClashAPIAvailable, Gone, TypeOK, CallInv
  <2>4. SyncInv'
    BY <1>4 DEF EnsureClashAPIAvailable, Gone, TypeOK, AddrInv, CallInv, SyncInv,
       Pending, Generated, Early
  <2>5. MarkInv'
    BY <1>4 DEF EnsureClashAPIAvailable, Gone, TypeOK, CallInv, MarkInv, Clean
  <2>6. SeedInv'
    BY <1>4 DEF EnsureClashAPIAvailable, Gone, TypeOK, CallInv, SeedInv, Whole, Seeded
  <2> QED
    BY <2>1, <2>2, <2>3, <2>4, <2>5, <2>6
<1>5. CASE ReserveAPIPort
  BY <1>5 DEF ReserveAPIPort, TypeOK, AddrInv, CallInv, SyncInv, MarkInv, SeedInv,
     Pending, Generated, Clean, Whole, Early, Seeding, Seeded
<1>6. CASE SeedCount
  <2>1. TypeOK'
    <3>1. origin' \in {"seeds", "cut", "admin"}
      BY <1>6 DEF SeedCount, TypeOK
    <3>2. stage' \in {"seed1", "backfill"}
      BY <1>6 DEF SeedCount
    <3> QED
      BY <1>6, <3>1, <3>2 DEF SeedCount, TypeOK
  <2>2. AddrInv'
    BY <1>6 DEF SeedCount, TypeOK, AddrInv, CallInv, Early, Seeding, Seeded
  <2>3. CallInv'
    BY <1>6 DEF SeedCount, TypeOK, CallInv
  <2>4. SyncInv'
    BY <1>6 DEF SeedCount, TypeOK, AddrInv, CallInv, SyncInv, Pending, Generated, Early
  <2>5. MarkInv'
    BY <1>6 DEF SeedCount, TypeOK, CallInv, MarkInv, Clean
  <2>6. SeedInv'
    BY <1>6 DEF SeedCount, TypeOK, CallInv, SeedInv, Whole, Seeded
  <2> QED
    BY <2>1, <2>2, <2>3, <2>4, <2>5, <2>6
<1>7. CASE SeedFirst
  <2>1. TypeOK'
    BY <1>7, SeedTypeOK DEF SeedFirst, StartupAssumption
  <2>2. AddrInv'
    BY <1>7 DEF SeedFirst, Seed, Regenerating, TypeOK, AddrInv, CallInv, Early, Seeding,
       Seeded
  <2>3. CallInv'
    BY <1>7 DEF SeedFirst, Seed, Regenerating, TypeOK, CallInv
  <2>4. SyncInv'
    BY <1>7 DEF SeedFirst, Seed, Regenerating, TypeOK, AddrInv, CallInv, SyncInv,
       Pending, Generated, Early
  <2>5. MarkInv'
    BY <1>7 DEF SeedFirst, Seed, Regenerating, TypeOK, CallInv, MarkInv, Clean
  <2>6. SeedInv'
    BY <1>7 DEF SeedFirst, Seed, Regenerating, TypeOK, CallInv, SeedInv, Whole, Seeded
  <2> QED
    BY <2>1, <2>2, <2>3, <2>4, <2>5, <2>6
<1>8. CASE SeedSecond
  <2>1. TypeOK'
    BY <1>8, SeedTypeOK DEF SeedSecond, StartupAssumption
  <2>2. AddrInv'
    BY <1>8 DEF SeedSecond, Seed, Regenerating, TypeOK, AddrInv, CallInv, Early,
       Seeding, Seeded
  <2>3. CallInv'
    BY <1>8 DEF SeedSecond, Seed, Regenerating, TypeOK, CallInv
  <2>4. SyncInv'
    BY <1>8 DEF SeedSecond, Seed, Regenerating, TypeOK, AddrInv, CallInv, SyncInv,
       Pending, Generated, Early
  <2>5. MarkInv'
    BY <1>8 DEF SeedSecond, Seed, Regenerating, TypeOK, CallInv, MarkInv, Clean
  <2>6. SeedInv'
    BY <1>8 DEF SeedSecond, Seed, Regenerating, TypeOK, CallInv, SeedInv, Whole, Seeded
  <2> QED
    BY <2>1, <2>2, <2>3, <2>4, <2>5, <2>6
<1>9. CASE BackfillUserTokens
  BY <1>9 DEF BackfillUserTokens, TypeOK, AddrInv, CallInv, SyncInv, MarkInv, SeedInv,
     Pending, Generated, Clean, Whole, Early, Seeding, Seeded
<1>10. CASE MigrateClientRouting
  BY <1>10 DEF MigrateClientRouting, Regenerating, TypeOK, AddrInv, CallInv, SyncInv,
     MarkInv, SeedInv, Pending, Generated, Clean, Whole, Early, Seeding, Seeded
<1>11. CASE SaveMark
  <2>1. TypeOK'
    <3>1. mark' \in BOOLEAN
      BY <1>11 DEF SaveMark, TypeOK
    <3> QED
      BY <1>11, <3>1 DEF SaveMark, TypeOK
  <2>2. AddrInv'
    BY <1>11 DEF SaveMark, TypeOK, AddrInv, CallInv, Early, Seeding, Seeded
  <2>3. CallInv'
    BY <1>11 DEF SaveMark, TypeOK, CallInv
  <2>4. SyncInv'
    BY <1>11 DEF SaveMark, TypeOK, AddrInv, CallInv, SyncInv, Pending, Generated, Early
  <2>5. MarkInv'
    BY <1>11, CleanConfigs DEF SaveMark, TypeOK, CallInv, MarkInv, Clean
  <2>6. SeedInv'
    BY <1>11 DEF SaveMark, TypeOK, CallInv, SeedInv, Whole, Seeded
  <2> QED
    BY <2>1, <2>2, <2>3, <2>4, <2>5, <2>6
<1>12. CASE StartManagedSingbox
  BY <1>12 DEF StartManagedSingbox, TypeOK, AddrInv, CallInv, SyncInv, MarkInv, SeedInv,
     Pending, Generated, Clean, Whole, Early, Seeding, Seeded
<1> QED
  BY <1>1, <1>2, <1>3, <1>4, <1>5, <1>6, <1>7, <1>8, <1>9, <1>10, <1>11, <1>12 DEF
     Starting

LEMMA ServeInv ==
  ASSUME IInv, NEW r \in Req, Serve(r)
  PROVE  IInv'
<1> USE StartupAssumption, EditedAssumption DEF StartupAssumption, EditedAssumption, IInv,
    Thread, db, host, local, calls, bounds, Down
<1>1. CASE CreateInbound(r)
  BY <1>1 DEF CreateInbound, Request, Regenerating, TypeOK, AddrInv, CallInv, SyncInv,
     MarkInv, SeedInv, Pending, Generated, Clean, Whole, Early, Seeding, Seeded
<1>2. CASE DeleteInbound(r)
  BY <1>2 DEF DeleteInbound, Request, Regenerating, TypeOK, AddrInv, CallInv, SyncInv,
     MarkInv, SeedInv, Pending, Generated, Clean, Whole, Early, Seeding, Seeded
<1>3. CASE ApplyButton(r)
  BY <1>3 DEF ApplyButton, Request, Regenerating, TypeOK, AddrInv, CallInv, SyncInv,
     MarkInv, SeedInv, Pending, Generated, Clean, Whole, Early, Seeding, Seeded
<1>4. CASE StartButton(r)
  <2>1. TypeOK'
    BY <1>4 DEF StartButton, Request, TypeOK
  <2>2. AddrInv'
    BY <1>4 DEF StartButton, Request, TypeOK, AddrInv, CallInv, Early, Seeding, Seeded
  <2>3. CallInv'
    BY <1>4 DEF StartButton, Request, TypeOK, CallInv
  <2>4. SyncInv'
    BY <1>4 DEF StartButton, Request, TypeOK, AddrInv, CallInv, SyncInv, Pending,
       Generated, Early
  <2>5. MarkInv'
    BY <1>4 DEF StartButton, Request, TypeOK, CallInv, MarkInv, Clean
  <2>6. SeedInv'
    BY <1>4 DEF StartButton, Request, TypeOK, CallInv, SeedInv, Whole, Seeded
  <2> QED
    BY <2>1, <2>2, <2>3, <2>4, <2>5, <2>6
<1>5. CASE StopButton(r)
  <2>1. TypeOK'
    <3>1. up' \in Config \cup {NoConfig} /\ skipped' \in BOOLEAN
      BY <1>5 DEF StopButton
    <3>3. UNCHANGED <<meta, rows, mark, file, foreign, exp, reserved, stage, call, op, gen,
                      imu, smu, behind, origin>>
      BY <1>5 DEF StopButton
    <3>2. boots' \in 0..MaxBoots /\ left' \in 0..MaxRequests
      BY <1>5 DEF StopButton, Request, TypeOK
    <3> QED
      BY <3>1, <3>2, <3>3 DEF TypeOK
  <2>2. AddrInv'
    BY <1>5 DEF StopButton, Request, TypeOK, AddrInv, CallInv, Early, Seeding, Seeded
  <2>3. CallInv'
    BY <1>5 DEF StopButton, Request, TypeOK, CallInv
  <2>4. SyncInv'
    BY <1>5 DEF StopButton, Request, TypeOK, AddrInv, CallInv, SyncInv, Pending,
       Generated, Early
  <2>5. MarkInv'
    BY <1>5, CleanConfigs DEF StopButton, Request, TypeOK, CallInv, MarkInv, Clean
  <2>6. SeedInv'
    BY <1>5 DEF StopButton, Request, TypeOK, CallInv, SeedInv, Whole, Seeded
  <2> QED
    BY <2>1, <2>2, <2>3, <2>4, <2>5, <2>6
<1>6. CASE PutConfig(r)
  <2>1. TypeOK'
    <3>1. file' \in Config
      BY <1>6 DEF PutConfig, Config
    <3>2. left' \in 0..MaxRequests
      BY <1>6 DEF PutConfig, Request, TypeOK
    <3> QED
      BY <1>6, <3>1, <3>2 DEF PutConfig, Request, TypeOK
  <2>2. AddrInv'
    BY <1>6 DEF PutConfig, Request, TypeOK, AddrInv, CallInv, Early, Seeding, Seeded
  <2>3. CallInv'
    BY <1>6 DEF PutConfig, Request, TypeOK, CallInv
  <2>4. SyncInv'
    BY <1>6 DEF PutConfig, Request, TypeOK, AddrInv, CallInv, SyncInv, Pending,
       Generated, Early
  <2>5. MarkInv'
    BY <1>6 DEF PutConfig, Request, TypeOK, CallInv, MarkInv, Clean
  <2>6. SeedInv'
    BY <1>6 DEF PutConfig, Request, TypeOK, CallInv, SeedInv, Whole, Seeded
  <2> QED
    BY <2>1, <2>2, <2>3, <2>4, <2>5, <2>6
<1> QED
  BY <1>1, <1>2, <1>3, <1>4, <1>5, <1>6 DEF Serve

LEMMA WorkInv ==
  ASSUME IInv, NEW t \in Thread, Locking(t) \/ Working(t)
  PROVE  IInv'
<1> USE StartupAssumption, EditedAssumption DEF StartupAssumption, EditedAssumption, IInv,
    Thread, db, host, local, calls, bounds, Down
<1>1. CASE ReadTables(t)
  <2>1. TypeOK'
    <3>1. CASE /\ imu' = t /\ gen' = [gen EXCEPT ![t] = Generated]
               /\ call' = [call EXCEPT ![t] = "save"]
               /\ UNCHANGED <<op, smu, stage, origin, behind>>
      <4>1. Generated \in Config
        BY CleanConfigs
      <4> QED
        BY <1>1, <3>1, <4>1 DEF ReadTables, TypeOK
    <3>2. CASE Return(t, FALSE) /\ behind' = TRUE
      BY <1>1, <3>2, ReturnTypeOK DEF ReadTables, TypeOK
    <3> QED
      BY <1>1, <3>1, <3>2 DEF ReadTables
  <2>2. AddrInv'
    BY <1>1 DEF ReadTables, Return, Free, NextStage, TypeOK, AddrInv, CallInv, Early,
       Seeding, Seeded
  <2>3. CallInv'
    BY <1>1, CleanConfigs DEF ReadTables, Return, Free, NextStage, TypeOK, CallInv
  <2>4. SyncInv'
    <3>1. CASE /\ imu' = t /\ gen' = [gen EXCEPT ![t] = Generated]
               /\ call' = [call EXCEPT ![t] = "save"] /\ UNCHANGED behind
      BY <1>1, <3>1 DEF ReadTables, TypeOK, SyncInv, Pending, Generated
    <3>2. CASE Return(t, FALSE) /\ behind' = TRUE
      BY <1>1, <3>2, ReturnSync DEF ReadTables
    <3> QED
      BY <1>1, <3>1, <3>2 DEF ReadTables
  <2>5. MarkInv'
    BY <1>1, CleanConfigs DEF ReadTables, Return, Free, NextStage, TypeOK, CallInv,
       MarkInv, Clean
  <2>6. SeedInv'
    BY <1>1 DEF ReadTables, Return, Free, NextStage, TypeOK, CallInv, SeedInv, Whole,
       Seeded
  <2> QED
    BY <2>1, <2>2, <2>3, <2>4, <2>5, <2>6
<1>2. CASE Save(t)
  <2>1. TypeOK'
    <3>1. CASE /\ smu' = t /\ file' = gen[t] /\ call' = [call EXCEPT ![t] = "gate"]
               /\ UNCHANGED <<op, gen, imu, stage, origin, behind>>
      BY <1>2, <3>1 DEF Save, TypeOK
    <3>2. CASE Return(t, FALSE) /\ behind' = TRUE /\ UNCHANGED file
      BY <1>2, <3>2, ReturnTypeOK DEF Save, TypeOK
    <3> QED
      BY <1>2, <3>1, <3>2 DEF Save
  <2>2. AddrInv'
    BY <1>2 DEF Save, Return, Free, NextStage, TypeOK, AddrInv, CallInv, Early, Seeding,
       Seeded
  <2>3. CallInv'
    BY <1>2 DEF Save, Return, Free, NextStage, TypeOK, CallInv
  <2>4. SyncInv'
    <3>1. CASE /\ smu' = t /\ file' = gen[t] /\ call' = [call EXCEPT ![t] = "gate"]
               /\ UNCHANGED <<op, gen, imu, stage, origin, behind>>
      BY <1>2, <3>1 DEF Save, TypeOK, CallInv, SyncInv, Pending, Generated
    <3>2. CASE Return(t, FALSE) /\ behind' = TRUE /\ UNCHANGED file
      BY <1>2, <3>2, ReturnSync DEF Save, TypeOK
    <3> QED
      BY <1>2, <3>1, <3>2 DEF Save
  <2>5. MarkInv'
    BY <1>2, CleanConfigs DEF Save, Return, Free, NextStage, TypeOK, CallInv, MarkInv,
       Clean
  <2>6. SeedInv'
    BY <1>2 DEF Save, Return, Free, NextStage, TypeOK, CallInv, SeedInv, Whole, Seeded
  <2> QED
    BY <2>1, <2>2, <2>3, <2>4, <2>5, <2>6
<1>3. CASE Restart(t)
  <2>1. TypeOK'
    BY <1>3 DEF Restart, TypeOK
  <2>2. AddrInv'
    BY <1>3 DEF Restart, TypeOK, AddrInv, CallInv, Early, Seeding, Seeded
  <2>3. CallInv'
    BY <1>3 DEF Restart, TypeOK, CallInv
  <2>4. SyncInv'
    BY <1>3 DEF Restart, TypeOK, AddrInv, CallInv, SyncInv, Pending, Generated, Early
  <2>5. MarkInv'
    BY <1>3 DEF Restart, TypeOK, CallInv, MarkInv, Clean
  <2>6. SeedInv'
    BY <1>3 DEF Restart, TypeOK, CallInv, SeedInv, Whole, Seeded
  <2> QED
    BY <2>1, <2>2, <2>3, <2>4, <2>5, <2>6
<1>4. CASE Gate(t)
  <2>1. TypeOK'
    <3>1. CASE /\ call' = [call EXCEPT ![t] = "stop"]
               /\ UNCHANGED <<op, gen, imu, smu, stage, origin, behind, skipped>>
      BY <1>4, <3>1 DEF Gate, TypeOK
    <3>2. ASSUME NEW ok \in BOOLEAN, Return(t, ok), behind' \in BOOLEAN, skipped' \in BOOLEAN
          PROVE  TypeOK'
      BY <1>4, <3>2, ReturnTypeOK DEF Gate, TypeOK
    <3> QED
      BY <1>4, <3>1, <3>2 DEF Gate, TypeOK
  <2>2. AddrInv'
    BY <1>4 DEF Gate, Return, Free, NextStage, TypeOK, AddrInv, CallInv, Early, Seeding,
       Seeded
  <2>3. CallInv'
    BY <1>4 DEF Gate, Return, Free, NextStage, TypeOK, CallInv
  <2>4. SyncInv'
    <3>1. imu = t /\ file = gen[t] /\ (gen[t] = Generated \/ \E u \in Thread \ {t} : call[u] = "regen")
      BY <1>4 DEF Gate, CallInv, SyncInv, Pending
    <3>2. CASE up = NoConfig /\ Return(t, TRUE)
      BY <1>4, <3>1, <3>2, ReturnSync DEF Gate
    <3>3. CASE Return(t, FALSE) /\ behind' = TRUE
      BY <1>4, <3>1, <3>3, ReturnSync DEF Gate
    <3>4. CASE call' = [call EXCEPT ![t] = "stop"] /\ UNCHANGED <<gen, imu, behind, skipped>>
      BY <1>4, <3>4 DEF Gate, TypeOK, SyncInv, Pending, Generated
    <3>5. CASE Return(t, TRUE) /\ skipped' = (up # file)
      <4>1. up' = up /\ file' = file /\ call[t] = "gate" /\ UNCHANGED <<meta, rows>>
        BY <1>4 DEF Gate
      <4>2. (up' \in {NoConfig, file'} \/ skipped') /\ Generated' = Generated
        BY <3>5, <4>1 DEF Generated
      <4> QED
        BY <3>1, <3>5, <4>1, <4>2, ReturnSync
    <3> QED
      BY <1>4, <3>2, <3>3, <3>4, <3>5 DEF Gate
  <2>5. MarkInv'
    <3>1. /\ UNCHANGED <<file, up, mark>> /\ call[t] = "gate"
          /\ UNCHANGED skipped \/ skipped' = (up # file)
      BY <1>4 DEF Gate
    <3>2. CASE call' = [call EXCEPT ![t] = "stop"] /\ UNCHANGED <<gen, stage, skipped>>
      BY <3>1, <3>2 DEF TypeOK, CallInv, MarkInv, Clean
    <3>3. CASE \E ok \in BOOLEAN : Return(t, ok)
      <4>1. PICK ok \in BOOLEAN : Return(t, ok)
        BY <3>3
      <4>2. /\ \A u \in Thread : Clean(gen'[u])
            /\ call'[Main] \in {"gate", "stop", "launch"} => Clean(file')
        BY <3>1, <4>1, ReturnEffect, CleanConfigs DEF MarkInv
      <4>3. stage' = "mark" => stage = "mark" \/ Clean(file)
        BY <3>1, <4>1 DEF Return, NextStage, MarkInv
      <4>4. stage' = "mark" => stage = "mark" \/ up = NoConfig \/ skipped' = (up # file)
        BY <1>4, <4>1 DEF Gate, Return, NextStage, TypeOK, CallInv
      <4> QED
        BY <3>1, <4>2, <4>3, <4>4, CleanConfigs DEF MarkInv
    <3> QED
      BY <1>4, <3>2, <3>3 DEF Gate
  <2>6. SeedInv'
    BY <1>4 DEF Gate, Return, Free, NextStage, TypeOK, CallInv, SeedInv, Whole, Seeded
  <2> QED
    BY <2>1, <2>2, <2>3, <2>4, <2>5, <2>6
<1>5. CASE StopSingbox(t)
  <2>1. TypeOK'
    <3>1. behind' \in BOOLEAN /\ skipped' \in BOOLEAN
      BY <1>5 DEF StopSingbox
    <3>2. CASE /\ call' = [call EXCEPT ![t] = "launch"]
               /\ UNCHANGED <<op, gen, imu, smu, stage, origin>>
      BY <1>5, <3>1, <3>2 DEF StopSingbox, TypeOK
    <3>3. CASE Return(t, FALSE)
      BY <1>5, <3>1, <3>3, ReturnTypeOK DEF StopSingbox, TypeOK
    <3> QED
      BY <1>5, <3>2, <3>3 DEF StopSingbox
  <2>2. AddrInv'
    BY <1>5 DEF StopSingbox, Return, Free, NextStage, TypeOK, AddrInv, CallInv, Early,
       Seeding, Seeded
  <2>3. CallInv'
    BY <1>5 DEF StopSingbox, Return, Free, NextStage, TypeOK, CallInv
  <2>4. SyncInv'
    <3>1. imu = t => file = gen[t] /\ (gen[t] = Generated \/ \E u \in Thread \ {t} : call[u] = "regen")
      BY <1>5 DEF StopSingbox, SyncInv, Pending
    <3>2. up' = NoConfig /\ file' = file /\ call[t] = "stop" /\ UNCHANGED <<meta, rows>>
      BY <1>5 DEF StopSingbox
    <3>3. Generated' = Generated
      BY <3>2 DEF Generated
    <3>4. CASE imu = t /\ Return(t, FALSE)
      BY <3>1, <3>2, <3>4, ReturnSync
    <3>5. CASE imu # t /\ Return(t, FALSE)
      <4>1. behind' <=> behind
        BY <1>5, <3>5 DEF StopSingbox, TypeOK
      <4>2. imu' = imu /\ \A u \in Thread \ {t} : call'[u] = call[u] /\ gen'[u] = gen[u]
        BY <3>2, <3>5, ReturnEffect DEF Free
      <4> QED
        BY <3>2, <3>3, <3>5, <4>1, <4>2 DEF SyncInv, Pending
    <3>6. CASE call' = [call EXCEPT ![t] = "launch"] /\ UNCHANGED <<gen, imu>>
      <4>1. \A u \in Thread : call[u] = "regen" <=> call'[u] = "regen"
        BY <3>2, <3>6 DEF TypeOK
      <4>2. \A u \in Thread : call[u] = "save" <=> call'[u] = "save"
        BY <3>2, <3>6 DEF TypeOK
      <4>3. imu = t => behind' = FALSE
        BY <1>5 DEF StopSingbox
      <4>4. imu # t => (behind' <=> behind)
        BY <1>5 DEF StopSingbox, TypeOK
      <4>5. \A u \in Thread : u # t => call'[u] = call[u]
        BY <3>6 DEF TypeOK
      <4>6. call'[t] = "launch"
        BY <3>6 DEF TypeOK
      <4> QED
        BY <3>1, <3>2, <3>3, <3>6, <4>1, <4>2, <4>3, <4>4, <4>5, <4>6 DEF SyncInv, Pending
    <3> QED
      BY <1>5, <3>4, <3>5, <3>6 DEF StopSingbox
  <2>5. MarkInv'
    BY <1>5, CleanConfigs DEF StopSingbox, Return, Free, NextStage, TypeOK, CallInv,
       MarkInv, Clean
  <2>6. SeedInv'
    BY <1>5 DEF StopSingbox, Return, Free, NextStage, TypeOK, CallInv, SeedInv, Whole,
       Seeded
  <2> QED
    BY <2>1, <2>2, <2>3, <2>4, <2>5, <2>6
<1>6. CASE LaunchSingbox(t)
  <2>1. TypeOK'
    <3>1. PICK ok \in BOOLEAN : Return(t, ok)
      BY <1>6 DEF LaunchSingbox
    <3>2. up' \in Config \cup {NoConfig}
      BY <1>6 DEF LaunchSingbox, TypeOK
    <3> QED
      BY <1>6, <3>1, <3>2, ReturnTypeOK DEF LaunchSingbox, TypeOK
  <2>2. AddrInv'
    BY <1>6 DEF LaunchSingbox, Return, Free, NextStage, TypeOK, AddrInv, CallInv, Early,
       Seeding, Seeded
  <2>3. CallInv'
    BY <1>6 DEF LaunchSingbox, Return, Free, NextStage, TypeOK, CallInv
  <2>4. SyncInv'
    <3>1. PICK ok \in BOOLEAN : Return(t, ok)
      BY <1>6 DEF LaunchSingbox
    <3>2. up' \in {NoConfig, file} /\ call[t] = "launch" /\ UNCHANGED <<meta, rows, file, behind, skipped>>
      BY <1>6 DEF LaunchSingbox, CallInv
    <3>3. Generated' = Generated
      BY <3>2 DEF Generated
    <3>4. /\ imu' = Free(imu, t) /\ call'[t] \notin {"save", "gate", "stop", "launch"}
          /\ \A u \in Thread \ {t} : call'[u] = call[u] /\ gen'[u] = gen[u]
      BY <3>1, <3>2, ReturnEffect
    <3> QED
      BY <3>2, <3>3, <3>4 DEF SyncInv, Pending, Free
  <2>5. MarkInv'
    BY <1>6, CleanConfigs DEF LaunchSingbox, Return, Free, NextStage, TypeOK, CallInv,
       MarkInv, Clean
  <2>6. SeedInv'
    BY <1>6 DEF LaunchSingbox, Return, Free, NextStage, TypeOK, CallInv, SeedInv, Whole,
       Seeded
  <2> QED
    BY <2>1, <2>2, <2>3, <2>4, <2>5, <2>6
<1> QED
  BY <1>1, <1>2, <1>3, <1>4, <1>5, <1>6 DEF Locking, Working

LEMMA OtherInv ==
  ASSUME IInv, Boot \/ Drain \/ Exit \/ Environment \/ UNCHANGED vars
  PROVE  IInv'
<1> USE StartupAssumption, EditedAssumption DEF StartupAssumption, EditedAssumption, IInv,
    Thread, db, host, local, calls, bounds, Down
<1>1. CASE Boot
  BY <1>1 DEF Boot, TypeOK, AddrInv, CallInv, SyncInv, MarkInv, SeedInv, Pending,
     Generated, Clean, Whole, Early, Seeding, Seeded
<1>2. CASE Drain
  <2>1. TypeOK'
    BY <1>2 DEF Drain, TypeOK
  <2>2. AddrInv'
    BY <1>2 DEF Drain, TypeOK, AddrInv, CallInv, Early, Seeding, Seeded
  <2>3. CallInv'
    BY <1>2 DEF Drain, TypeOK, CallInv
  <2>4. SyncInv'
    BY <1>2 DEF Drain, TypeOK, AddrInv, CallInv, SyncInv, Pending, Generated, Early
  <2>5. MarkInv'
    BY <1>2 DEF Drain, TypeOK, CallInv, MarkInv, Clean
  <2>6. SeedInv'
    BY <1>2 DEF Drain, TypeOK, CallInv, SeedInv, Whole, Seeded
  <2> QED
    BY <2>1, <2>2, <2>3, <2>4, <2>5, <2>6
<1>3. CASE Exit
  BY <1>3 DEF Exit, Gone, TypeOK, AddrInv, CallInv, SyncInv, MarkInv, SeedInv, Pending,
     Generated, Clean, Whole, Early, Seeding, Seeded
<1>4. CASE Crash
  <2>1. TypeOK'
    BY <1>4 DEF Crash, Gone, TypeOK
  <2>2. AddrInv'
    BY <1>4 DEF Crash, Gone, TypeOK, AddrInv, CallInv, Early, Seeding, Seeded
  <2>3. CallInv'
    BY <1>4 DEF Crash, Gone, TypeOK, CallInv
  <2>4. SyncInv'
    BY <1>4 DEF Crash, Gone, TypeOK, AddrInv, CallInv, SyncInv, Pending, Generated, Early
  <2>5. MarkInv'
    BY <1>4, CleanConfigs DEF Crash, Gone, TypeOK, CallInv, MarkInv, Clean
  <2>6. SeedInv'
    BY <1>4 DEF Crash, Gone, TypeOK, CallInv, SeedInv, Whole, Seeded
  <2> QED
    BY <2>1, <2>2, <2>3, <2>4, <2>5, <2>6
<1>5. CASE SingboxExits
  <2>1. TypeOK'
    <3>1. up' \in Config \cup {NoConfig} /\ skipped' \in BOOLEAN
      BY <1>5 DEF SingboxExits
    <3>3. UNCHANGED <<meta, rows, mark, file, foreign, exp, reserved, stage, call, op, gen,
                      imu, smu, behind, origin>>
      BY <1>5 DEF SingboxExits
    <3>2. boots' \in 0..MaxBoots /\ left' \in 0..MaxRequests
      BY <1>5 DEF SingboxExits, TypeOK
    <3> QED
      BY <3>1, <3>2, <3>3 DEF TypeOK
  <2>2. AddrInv'
    BY <1>5 DEF SingboxExits, TypeOK, AddrInv, CallInv, Early, Seeding, Seeded
  <2>3. CallInv'
    BY <1>5 DEF SingboxExits, TypeOK, CallInv
  <2>4. SyncInv'
    BY <1>5 DEF SingboxExits, TypeOK, AddrInv, CallInv, SyncInv, Pending, Generated, Early
  <2>5. MarkInv'
    BY <1>5, CleanConfigs DEF SingboxExits, TypeOK, CallInv, MarkInv, Clean
  <2>6. SeedInv'
    BY <1>5 DEF SingboxExits, TypeOK, CallInv, SeedInv, Whole, Seeded
  <2> QED
    BY <2>1, <2>2, <2>3, <2>4, <2>5, <2>6
<1>6. CASE PortTaken
  <2>1. TypeOK'
    BY <1>6 DEF PortTaken, TypeOK
  <2>2. AddrInv'
    BY <1>6 DEF PortTaken, TypeOK, AddrInv, CallInv, Early, Seeding, Seeded
  <2>3. CallInv'
    BY <1>6 DEF PortTaken, TypeOK, CallInv
  <2>4. SyncInv'
    <3>1. UNCHANGED <<meta, rows, file, up, skipped, call, gen, imu, behind>>
      BY <1>6 DEF PortTaken
    <3> QED
      BY <3>1 DEF SyncInv, Pending, Generated
  <2>5. MarkInv'
    BY <1>6 DEF PortTaken, TypeOK, CallInv, MarkInv, Clean
  <2>6. SeedInv'
    BY <1>6 DEF PortTaken, TypeOK, CallInv, SeedInv, Whole, Seeded
  <2> QED
    BY <2>1, <2>2, <2>3, <2>4, <2>5, <2>6
<1>7. CASE PortReleased
  <2>1. TypeOK'
    BY <1>7 DEF PortReleased, TypeOK
  <2>2. AddrInv'
    BY <1>7 DEF PortReleased, TypeOK, AddrInv, CallInv, Early, Seeding, Seeded
  <2>3. CallInv'
    BY <1>7 DEF PortReleased, TypeOK, CallInv
  <2>4. SyncInv'
    BY <1>7 DEF PortReleased, TypeOK, AddrInv, CallInv, SyncInv, Pending, Generated, Early
  <2>5. MarkInv'
    BY <1>7 DEF PortReleased, TypeOK, CallInv, MarkInv, Clean
  <2>6. SeedInv'
    BY <1>7 DEF PortReleased, TypeOK, CallInv, SeedInv, Whole, Seeded
  <2> QED
    BY <2>1, <2>2, <2>3, <2>4, <2>5, <2>6
<1>8. CASE UNCHANGED vars
  <2>1. TypeOK'
    BY <1>8 DEF vars, TypeOK
  <2>2. AddrInv'
    BY <1>8 DEF vars, TypeOK, AddrInv, CallInv, Early, Seeding, Seeded
  <2>3. CallInv'
    BY <1>8 DEF vars, TypeOK, CallInv
  <2>4. SyncInv'
    BY <1>8 DEF vars, TypeOK, AddrInv, CallInv, SyncInv, Pending, Generated, Early
  <2>5. MarkInv'
    BY <1>8 DEF vars, TypeOK, CallInv, MarkInv, Clean
  <2>6. SeedInv'
    BY <1>8 DEF vars, TypeOK, CallInv, SeedInv, Whole, Seeded
  <2> QED
    BY <2>1, <2>2, <2>3, <2>4, <2>5, <2>6
<1> QED
  BY <1>1, <1>2, <1>3, <1>4, <1>5, <1>6, <1>7, <1>8 DEF Environment

LEMMA StepInv == IInv /\ [Next]_vars => IInv'
BY StartingInv, ServeInv, WorkInv, OtherInv DEF Next

-----------------------------------------------------------------------------
(* The inductive invariant holds throughout.                               *)
THEOREM Invariance == Spec => []IInv
BY InitInv, StepInv, PTL DEF Spec

(* The state stays well formed and each mutex is held exactly by the       *)
(* goroutine inside what it guards.                                        *)
THEOREM TypeCorrect == Spec => []TypeOK
<1>1. IInv => TypeOK
  BY DEF IInv
<1> QED
  BY <1>1, Invariance, PTL

(* Between calls the panel asks sing-box at the address of the database,   *)
(* and what sing-box was given is what the database says, unless something *)
(* was left behind.                                                        *)
THEOREM InStepThm == Spec => []InStep
<1>1. IInv => InStep
  BY DEF IInv, AddrInv, SyncInv, Pending, InStep, Idle, Early, Seeding, Seeded
<1> QED
  BY <1>1, Invariance, PTL

(* Once marked as migrated, no server-side destination rule is left.       *)
THEOREM MigratedForGoodThm == Spec => []MigratedForGood
<1>1. IInv => MigratedForGood
  BY DEF IInv, MarkInv, Clean, Legacy, MigratedForGood
<1> QED
  BY <1>1, Invariance, PTL

(* Seeding is whole, or an administrator or a failure explains why not.    *)
THEOREM SeedsWholeThm == Spec => []SeedsWhole
<1>1. IInv => SeedsWhole
  BY DEF IInv, SeedInv, Whole, Seeded, SeedsWhole
<1> QED
  BY <1>1, Invariance, PTL

(* What SeedingIdempotent needs: as long as no seeding fails or is cut      *)
(* short, a later start never finds one default inbound without the other. *)
THEOREM SeedingIdempotentThm == Spec /\ [][origin' # "cut"]_vars => []SeedingIdempotent
<1> DEFINE NotCut == origin # "cut"
<1>1. Init => NotCut
  BY DEF Init
<1>2. NotCut /\ [origin' # "cut"]_vars => NotCut'
  BY DEF vars
<1>3. IInv /\ NotCut => SeedingIdempotent
  BY DEF IInv, TypeOK, SeedInv, Whole, SeedingIdempotent
<1> HIDE DEF NotCut
<1> QED
  BY <1>1, <1>2, <1>3, Invariance, PTL DEF Spec

\* Every config generated, on file or about to be, has the address of the database.
AgreeInv ==
  /\ file \in Generation => file.addr = meta
  /\ \A t \in Thread : call[t] = "save" => gen[t] \in Generation /\ gen[t].addr = meta

(* What AddressAgrees needs: as long as the address never changes under a   *)
(* generated config, by the setting or by a move, every panel that serves  *)
(* asks, reserves and has generated the same one.                          *)
THEOREM AddressAgreesThm ==
  Spec /\ [][(file \in Generation) => meta' = meta]_vars => []AddressAgrees
<1> USE DEF db, host, local, calls, bounds
<1>1. Init => AgreeInv
  <2> SUFFICES ASSUME Init PROVE AgreeInv
    OBVIOUS
  <2>1. file \in {NoConfig, Generated, [Generated EXCEPT !.legacy = TRUE]}
    BY Zenon DEF Init
  <2>2. NoConfig \notin Generation /\ \A t \in Thread : call[t] = "idle"
    BY EditedAssumption DEF EditedAssumption, Config, Init
  <2> QED
    BY <2>1, <2>2 DEF AgreeInv, Generated
<1>2. IInv /\ AgreeInv /\ [Next]_vars /\ [(file \in Generation) => meta' = meta]_vars => AgreeInv'
  <2> SUFFICES ASSUME IInv, AgreeInv, Next, file \in Generation => meta' = meta
               PROVE  AgreeInv'
    BY DEF AgreeInv, vars
  <2>1. ASSUME NEW t \in Thread, ReadTables(t) PROVE AgreeInv'
    <3>1. Generated \in Generation /\ Generated.addr = meta
      BY DEF IInv, TypeOK, Generation, Generated
    <3>2. UNCHANGED <<meta, file>>
      BY <2>1 DEF ReadTables
    <3>3. CASE gen' = [gen EXCEPT ![t] = Generated] /\ call' = [call EXCEPT ![t] = "save"]
      BY <3>1, <3>2, <3>3 DEF AgreeInv, IInv, TypeOK
    <3>4. CASE Return(t, FALSE)
      BY <2>1, <3>2, <3>4, ReturnEffect DEF ReadTables, AgreeInv
    <3> QED
      BY <2>1, <3>3, <3>4 DEF ReadTables
  <2>2. ASSUME NEW t \in Thread, Save(t) PROVE AgreeInv'
    <3>1. call[t] = "save" /\ gen[t] \in Generation /\ gen[t].addr = meta /\ UNCHANGED meta
      BY <2>2 DEF Save, AgreeInv
    <3>2. CASE file' = gen[t] /\ call' = [call EXCEPT ![t] = "gate"] /\ UNCHANGED gen
      BY <3>1, <3>2 DEF AgreeInv, IInv, TypeOK
    <3>3. CASE Return(t, FALSE) /\ UNCHANGED file
      BY <3>1, <3>3, ReturnEffect DEF AgreeInv
    <3> QED
      BY <2>2, <3>2, <3>3 DEF Save
  <2>3. ASSUME NEW t \in Thread, Restart(t) \/ Working(t) PROVE AgreeInv'
    <3>1. UNCHANGED <<meta, file>> /\ call[t] \in {"gate", "stop", "launch", "restart"}
      BY <2>3 DEF Restart, Working, Gate, StopSingbox, LaunchSingbox
    <3>2. CASE UNCHANGED gen /\ \E l \in {"stop", "launch"} : call' = [call EXCEPT ![t] = l]
      BY <3>1, <3>2 DEF AgreeInv, IInv, TypeOK
    <3>3. CASE ~Restart(t) /\ \E ok \in BOOLEAN : Return(t, ok)
      <4>1. call[t] \in {"gate", "stop", "launch"}
        BY <2>3, <3>3 DEF Working, Gate, StopSingbox, LaunchSingbox
      <4> QED
        BY <3>1, <3>3, <4>1, ReturnEffect DEF AgreeInv
    <3>4. \/ UNCHANGED gen /\ \E l \in {"stop", "launch"} : call' = [call EXCEPT ![t] = l]
          \/ ~Restart(t) /\ \E ok \in BOOLEAN : Return(t, ok)
      BY <2>3 DEF Restart, Working, Gate, StopSingbox, LaunchSingbox
    <3> QED
      BY <3>2, <3>3, <3>4
  <2>4. ASSUME NEW r \in Req, Serve(r) PROVE AgreeInv'
    <3>1. UNCHANGED <<meta, gen>> /\ file' \in {file, Edited}
      BY <2>4 DEF Serve, CreateInbound, DeleteInbound, ApplyButton, StartButton, StopButton,
         PutConfig
    <3>2. \A t \in Thread : call'[t] = "save" => call[t] = "save"
      BY <2>4 DEF Serve, CreateInbound, DeleteInbound, ApplyButton, StartButton, StopButton,
         PutConfig, Request, Regenerating, IInv, TypeOK
    <3> QED
      BY <3>1, <3>2, EditedAssumption DEF EditedAssumption, AgreeInv
  <2>5. CASE SetClashAPIAddr \/ APIConfig \/ EnsureClashAPIAvailable
    <3>1. \A t \in Thread : call[t] = "idle"
      BY <2>5 DEF SetClashAPIAddr, APIConfig, EnsureClashAPIAvailable, IInv, CallInv, TypeOK, Thread
    <3>2. UNCHANGED <<file, call>>
      BY <2>5 DEF SetClashAPIAddr, APIConfig, EnsureClashAPIAvailable
    <3> QED
      BY <3>1, <3>2 DEF AgreeInv
  <2>6. CASE ~(SetClashAPIAddr \/ APIConfig \/ EnsureClashAPIAvailable)
             /\ (Boot \/ Starting \/ Drain \/ Exit \/ Environment)
    <3>1. UNCHANGED <<meta, file>> /\ gen' \in {gen, [t \in Thread |-> NoConfig]}
      BY <2>6 DEF Boot, Starting, Drain, Exit, Environment, ReservePanelPort, ReserveAPIPort,
         SeedCount, SeedFirst, SeedSecond, Seed, BackfillUserTokens, MigrateClientRouting,
         SaveMark, StartManagedSingbox, Crash, SingboxExits, PortTaken, PortReleased, Down
    <3>2. \A t \in Thread : call'[t] = "save" => call[t] = "save" /\ gen' = gen
      BY <2>6 DEF Boot, Starting, Drain, Exit, Environment, ReservePanelPort, ReserveAPIPort,
         SeedCount, SeedFirst, SeedSecond, Seed, BackfillUserTokens, MigrateClientRouting,
         SaveMark, StartManagedSingbox, Crash, SingboxExits, PortTaken, PortReleased, Down,
         Regenerating, IInv, TypeOK
    <3> QED
      BY <3>1, <3>2 DEF AgreeInv
  <2> QED
    BY <2>1, <2>2, <2>3, <2>4, <2>5, <2>6 DEF Next, Locking
<1>3. IInv /\ AgreeInv => AddressAgrees
  BY DEF IInv, AddrInv, AgreeInv, AddressAgrees, Early, Seeding, Seeded
<1> QED
  BY <1>1, <1>2, <1>3, Invariance, PTL DEF Spec

(* The mutexes never jam the panel, for any number of requests: whoever    *)
(* holds sing-box's goes on to release it, and whoever holds the service's *)
(* waits for that one at most.                                             *)
THEOREM UnjammedThm == Spec => []Unjammed
<1>1. IInv => Unjammed
  <2> SUFFICES ASSUME IInv, ~Idle PROVE \E t \in Thread : CanGoOn(t)
    BY DEF Unjammed
  <2> USE DEF IInv, TypeOK, CallInv, CanGoOn
  <2>1. PICK t \in Thread : call[t] # "idle"
    BY DEF Idle
  <2>2. CASE smu # NoThread
    BY <2>2
  <2>3. CASE smu = NoThread /\ imu # NoThread
    <3>1. imu \in Thread /\ call[imu] \in {"save", "gate", "stop", "launch"}
      BY <2>3
    <3> QED
      BY <2>3, <3>1
  <2>4. CASE smu = NoThread /\ imu = NoThread
    BY <2>1, <2>4
  <2> QED
    BY <2>2, <2>3, <2>4
<1> QED
  BY <1>1, Invariance, PTL

(* No inbound is ever created on a port the panel uses.                    *)
THEOREM PanelPortsKeptThm == Spec => PanelPortsKept
<1>1. IInv /\ [Next]_vars => [(rows' \ rows) \cap {PanelPort, exp} = {}]_vars
  <2> SUFFICES ASSUME IInv, Next PROVE (rows' \ rows) \cap {PanelPort, exp} = {}
    OBVIOUS
  <2> USE DEF db
  <2>1. CASE Boot \/ Starting \/ Drain \/ Exit \/ Environment
    <3>1. CASE SeedFirst \/ SeedSecond
      BY <3>1 DEF SeedFirst, SeedSecond, Seed, IInv, AddrInv, Seeding, Seeded
    <3>2. CASE ~(SeedFirst \/ SeedSecond)
      BY <2>1, <3>2 DEF Boot, Starting, Drain, Exit, Environment, ReservePanelPort,
         SetClashAPIAddr, APIConfig, EnsureClashAPIAvailable, ReserveAPIPort, SeedCount,
         BackfillUserTokens, MigrateClientRouting, SaveMark, StartManagedSingbox, Crash,
         SingboxExits, PortTaken, PortReleased
    <3> QED
      BY <3>1, <3>2
  <2>2. CASE \E t \in Thread : Locking(t) \/ Working(t)
    BY <2>2 DEF Locking, Working, ReadTables, Save, Restart, Gate, StopSingbox,
       LaunchSingbox
  <2>3. CASE \E r \in Req : Serve(r)
    BY <2>3 DEF Serve, CreateInbound, DeleteInbound, ApplyButton, StartButton, StopButton,
       PutConfig, Request, IInv, AddrInv, Seeding, Seeded
  <2> QED
    BY <2>1, <2>2, <2>3 DEF Next
<1> QED
  BY <1>1, Invariance, PTL DEF Spec, PanelPortsKept

(* Startup, applies and restarts together keep to the contract of process  *)
(* control.                                                                *)
THEOREM WithinContractThm == Spec => WithinContract
<1>1. IInv /\ [Next]_vars => [Sb!Next]_<<file, up>>
  <2> SUFFICES ASSUME IInv, Next PROVE [Sb!Next]_<<file, up>>
    BY DEF vars, host
  <2> USE DEF Sb!Next, Sb!Write, Sb!Launch, Sb!Down, host, CanRun, Down
  <2>0. up \in Config \cup {NoConfig} /\ file \in Config \cup {NoConfig}
    BY DEF IInv, TypeOK
  <2>1. CASE Boot \/ Starting \/ Drain \/ Exit \/ Environment
    BY <2>0, <2>1 DEF Boot, Starting, Drain, Exit, Environment, ReservePanelPort,
       SetClashAPIAddr, APIConfig, EnsureClashAPIAvailable, ReserveAPIPort, SeedCount,
       SeedFirst, SeedSecond, Seed, BackfillUserTokens, MigrateClientRouting, SaveMark,
       StartManagedSingbox, Crash, SingboxExits, PortTaken, PortReleased
  <2>2. ASSUME NEW t \in Thread, Locking(t) \/ Working(t) PROVE [Sb!Next]_<<file, up>>
    <3>1. CASE Save(t)
      <4>1. gen[t] \in Config \/ file' = file
        BY <3>1 DEF Save, IInv, CallInv
      <4> QED
        BY <3>1, <4>1 DEF Save
    <3>2. CASE LaunchSingbox(t)
      <4>1. up = NoConfig
        BY <3>2 DEF LaunchSingbox, IInv, CallInv
      <4> QED
        BY <2>0, <3>2, <4>1 DEF LaunchSingbox
    <3> QED
      BY <2>0, <2>2, <3>1, <3>2 DEF Locking, Working, ReadTables, Restart, Gate,
         StopSingbox
  <2>3. CASE \E r \in Req : Serve(r)
    BY <2>0, <2>3 DEF Serve, CreateInbound, DeleteInbound, ApplyButton, StartButton,
       StopButton, PutConfig, Config
  <2> QED
    BY <2>1, <2>2, <2>3 DEF Next
<1> QED
  BY <1>1, Invariance, PTL DEF Spec, WithinContract

-----------------------------------------------------------------------------
(* Startup ends, up to the fairness of main's steps.                       *)

StagesLeft ==
  CASE stage = "panelPort" -> 12 [] stage = "setAddr"    -> 11 [] stage = "apiConfig" -> 10
    [] stage = "ensure"    -> 9  [] stage = "reserveAPI" -> 8  [] stage = "count"     -> 7
    [] stage = "seed1"     -> 6  [] stage = "seed2"      -> 5  [] stage = "backfill"  -> 4
    [] stage = "migrate"   -> 3  [] stage = "mark"       -> 2  [] stage = "autoStart" -> 1
    [] OTHER -> 0

CallLeft ==
  CASE call[Main] = "idle" -> 6 [] call[Main] = "regen" -> 5 [] call[Main] = "save"   -> 4
    [] call[Main] = "gate" -> 3 [] call[Main] = "stop"  -> 2 [] call[Main] = "launch" -> 1
    [] OTHER -> 0

\* A stage is left by a step of its own or by the end of the one call it makes.
MainLeft == IF StagesLeft = 0 THEN 0 ELSE 6 * StagesLeft + CallLeft

(* Until main serves it never waits for a mutex, and each of its steps     *)
(* brings it nearer to serving, an error like a success: no stage is tried *)
(* twice, and nothing but the start of a new process sets it back.         *)
StartupCountsDown ==
  /\ [](StagesLeft > 0 => call[Main] = "idle" \/ CanGoOn(Main))
  /\ [][/\ MainLeft' <= MainLeft \/ Boot
        /\ Starting \/ Locking(Main) \/ Working(Main) => MainLeft' < MainLeft]_vars

LEMMA Lexicographic ==
  ASSUME NEW m \in 0..12, NEW n \in 0..12, NEW c \in 0..6, NEW d \in 0..6
  PROVE  /\ 6 * m + c \in 0..78
         /\ n < m /\ c >= 1 => 6 * n + d < 6 * m + c
         /\ d < c => 6 * m + d < 6 * m + c
OBVIOUS

LEMMA LeftType ==
  /\ StagesLeft \in 0..12 /\ CallLeft \in 0..6 /\ MainLeft \in 0..78
  /\ StagesLeft' \in 0..12 /\ CallLeft' \in 0..6 /\ MainLeft' \in 0..78
<1>1. StagesLeft \in 0..12 /\ StagesLeft' \in 0..12
  BY DEF StagesLeft
<1>2. CallLeft \in 0..6 /\ CallLeft' \in 0..6
  BY DEF CallLeft
<1>3. 6 * StagesLeft + CallLeft \in 0..78
  BY <1>1, <1>2, Lexicographic
<1>4. 6 * StagesLeft' + CallLeft' \in 0..78
  BY <1>1, <1>2, Lexicographic
<1>5. MainLeft \in 0..78 /\ MainLeft' \in 0..78
  <2> HIDE DEF StagesLeft, CallLeft
  <2> QED
    BY <1>3, <1>4 DEF MainLeft
<1> QED
  BY <1>1, <1>2, <1>5

(* How MainLeft falls: with the stage, or within it with the call.         *)
LEMMA LeftFalls ==
  /\ StagesLeft' < StagesLeft /\ CallLeft >= 1 => MainLeft' < MainLeft
  /\ StagesLeft' = StagesLeft /\ StagesLeft > 0 /\ CallLeft' < CallLeft => MainLeft' < MainLeft
  /\ StagesLeft' = 0 \/ (StagesLeft' = StagesLeft /\ CallLeft' = CallLeft) => MainLeft' <= MainLeft
<1>1. ASSUME StagesLeft' < StagesLeft, CallLeft >= 1 PROVE MainLeft' < MainLeft
  <2>1. StagesLeft > 0 /\ MainLeft > 0
    BY <1>1, LeftType, Lexicographic DEF MainLeft
  <2>2. 6 * StagesLeft' + CallLeft' < 6 * StagesLeft + CallLeft
    BY <1>1, LeftType, Lexicographic
  <2> QED
    BY <2>1, <2>2 DEF MainLeft
<1>2. ASSUME StagesLeft' = StagesLeft, StagesLeft > 0, CallLeft' < CallLeft PROVE MainLeft' < MainLeft
  <2>1. 6 * StagesLeft + CallLeft' < 6 * StagesLeft + CallLeft
    BY <1>2, LeftType, Lexicographic
  <2> QED
    BY <1>2, <2>1 DEF MainLeft
<1>3. StagesLeft' = 0 => MainLeft' <= MainLeft
  <2>1. StagesLeft' = 0 => MainLeft' = 0
    BY DEF MainLeft
  <2> QED
    BY <2>1, LeftType
<1>4. StagesLeft' = StagesLeft /\ CallLeft' = CallLeft => MainLeft' <= MainLeft
  <2>1. StagesLeft' = StagesLeft /\ CallLeft' = CallLeft => MainLeft' = MainLeft
    BY DEF MainLeft
  <2> QED
    BY <2>1, LeftType
<1> QED
  BY <1>1, <1>2, <1>3, <1>4

LEMMA StartingCounts == ASSUME IInv, Starting PROVE MainLeft' < MainLeft
<1>1. stage \in Stages /\ stage \notin {"off", "serving", "draining"}
  BY DEF Starting, ReservePanelPort, SetClashAPIAddr, APIConfig, EnsureClashAPIAvailable,
     ReserveAPIPort, SeedCount, SeedFirst, SeedSecond, Seed, BackfillUserTokens,
     MigrateClientRouting, SaveMark, StartManagedSingbox, Stages
<1>2. StagesLeft > 0
  BY <1>1 DEF Stages, StagesLeft
<1>3. CallLeft >= 1
  BY DEF IInv, TypeOK, CallInv, Thread, CallLeft
<1>4. CASE SeedFirst \/ SeedSecond \/ MigrateClientRouting
  <2>1. CASE UNCHANGED stage
    <3>1. call[Main] = "idle" /\ call'[Main] = "regen"
      BY <1>4, <2>1 DEF SeedFirst, SeedSecond, Seed, MigrateClientRouting, Regenerating,
         IInv, TypeOK, Thread
    <3>2. StagesLeft' = StagesLeft /\ CallLeft' < CallLeft
      BY <2>1, <3>1 DEF StagesLeft, CallLeft
    <3> QED
      BY <1>2, <3>2, LeftFalls
  <2>2. CASE stage' # stage
    <3>1. StagesLeft' < StagesLeft
      BY <1>4, <2>2 DEF SeedFirst, SeedSecond, Seed, MigrateClientRouting, StagesLeft
    <3> QED
      BY <1>3, <3>1, LeftFalls
  <2> QED
    BY <2>1, <2>2
<1>5. CASE ~(SeedFirst \/ SeedSecond \/ MigrateClientRouting)
  <2>1. <<stage, stage'>> \in
          {<<"panelPort", "setAddr">>, <<"setAddr", "apiConfig">>, <<"apiConfig", "ensure">>,
           <<"apiConfig", "reserveAPI">>, <<"ensure", "reserveAPI">>, <<"ensure", "off">>,
           <<"reserveAPI", "count">>, <<"count", "seed1">>, <<"count", "backfill">>,
           <<"backfill", "migrate">>, <<"mark", "autoStart">>, <<"autoStart", "serving">>}
    BY <1>5 DEF Starting, ReservePanelPort, SetClashAPIAddr, APIConfig,
       EnsureClashAPIAvailable, Gone, ReserveAPIPort, SeedCount, BackfillUserTokens, SaveMark,
       StartManagedSingbox
  <2>2. StagesLeft' < StagesLeft
    BY <2>1 DEF StagesLeft
  <2> QED
    BY <1>3, <2>2, LeftFalls
<1> QED
  BY <1>4, <1>5

LEMMA CallCounts ==
  ASSUME IInv, Locking(Main) \/ Working(Main) PROVE MainLeft' < MainLeft
<1> USE DEF IInv, TypeOK, CallInv, Thread
<1>1. /\ stage \in {"seed1", "seed2", "migrate"}
      /\ call[Main] \in {"regen", "save", "gate", "stop", "launch"}
  BY DEF Locking, Working, ReadTables, Save, Restart, Gate, StopSingbox, LaunchSingbox
<1>2. StagesLeft > 0 /\ CallLeft >= 1
  BY <1>1 DEF StagesLeft, CallLeft
<1>3. ASSUME NEW ok \in BOOLEAN, Return(Main, ok) PROVE MainLeft' < MainLeft
  <2>1. stage' = NextStage(ok)
    BY <1>3 DEF Return
  <2>2. StagesLeft' < StagesLeft
    BY <1>1, <2>1 DEF NextStage, StagesLeft
  <2> QED
    BY <1>2, <2>2, LeftFalls
<1>4. ASSUME UNCHANGED stage, NEW l \in {"save", "gate", "stop", "launch"},
             call' = [call EXCEPT ![Main] = l],
             <<call[Main], l>> \in {<<"regen", "save">>, <<"save", "gate">>,
                                    <<"gate", "stop">>, <<"stop", "launch">>}
      PROVE  MainLeft' < MainLeft
  <2>1. call'[Main] = l
    BY <1>4
  <2>2. StagesLeft' = StagesLeft /\ CallLeft' < CallLeft
    BY <1>4, <2>1 DEF StagesLeft, CallLeft
  <2> QED
    BY <1>2, <2>2, LeftFalls
<1> QED
  BY <1>3, <1>4 DEF Locking, Working, ReadTables, Save, Restart, Gate, StopSingbox,
     LaunchSingbox

LEMMA OthersCount ==
  ASSUME IInv, [Next]_vars, ~Boot, ~Starting, ~(Locking(Main) \/ Working(Main))
  PROVE  MainLeft' <= MainLeft
<1>1. ASSUME stage' \in {"off", "serving", "draining"} PROVE MainLeft' <= MainLeft
  <2>1. StagesLeft' = 0
    BY <1>1 DEF StagesLeft
  <2> QED
    BY <2>1, LeftFalls
<1>2. ASSUME UNCHANGED stage, call'[Main] = call[Main] PROVE MainLeft' <= MainLeft
  <2>1. StagesLeft' = StagesLeft /\ CallLeft' = CallLeft
    BY <1>2 DEF StagesLeft, CallLeft
  <2> QED
    BY <2>1, LeftFalls
<1>3. CASE Drain \/ Exit \/ Crash
  BY <1>1, <1>3 DEF Drain, Exit, Crash, Gone
<1>4. CASE SingboxExits \/ PortTaken \/ PortReleased \/ UNCHANGED vars
  BY <1>2, <1>4 DEF SingboxExits, PortTaken, PortReleased, vars, calls
<1>5. ASSUME NEW r \in Req, Serve(r) PROVE MainLeft' <= MainLeft
  BY <1>1, <1>5 DEF Serve, CreateInbound, DeleteInbound, ApplyButton, StartButton, StopButton,
     PutConfig, Request
\* A request works only once main serves.
<1>6. ASSUME NEW r \in Req, Locking(r) \/ Working(r) PROVE MainLeft' <= MainLeft
  <2>1. call[r] # "idle" /\ r # Main
    BY <1>6, StartupAssumption DEF StartupAssumption, Locking, Working, ReadTables, Save, Restart,
       Gate, StopSingbox, LaunchSingbox
  <2>2. stage \in {"serving", "draining"}
    BY <2>1 DEF IInv, CallInv
  <2>3. stage' = stage
    BY <1>6, <2>1 DEF Locking, Working, ReadTables, Save, Restart, Gate, StopSingbox,
       LaunchSingbox, Return
  <2> QED
    BY <1>1, <2>2, <2>3
<1> QED
  BY <1>3, <1>4, <1>5, <1>6 DEF Next, Environment, Thread

(* main takes at most 78 steps from its start to serving, for any state of *)
(* the host and whatever fails on the way.                                 *)
THEOREM StartupCountsDownThm == Spec => StartupCountsDown
<1>1. IInv => (StagesLeft > 0 => call[Main] = "idle" \/ CanGoOn(Main))
  <2> SUFFICES ASSUME IInv, StagesLeft > 0, call[Main] # "idle" PROVE CanGoOn(Main)
    OBVIOUS
  <2> USE DEF IInv, TypeOK, CallInv, Thread
  <2>1. \A r \in Req : call[r] = "idle"
    BY DEF StagesLeft
  <2>2. \A t \in Thread : imu = t \/ smu = t => t = Main
    BY <2>1
  <2> QED
    BY <2>2 DEF CanGoOn
<1>2. IInv /\ [Next]_vars =>
        [/\ MainLeft' <= MainLeft \/ Boot
         /\ Starting \/ Locking(Main) \/ Working(Main) => MainLeft' < MainLeft]_vars
  <2> SUFFICES ASSUME IInv, [Next]_vars
               PROVE  /\ MainLeft' <= MainLeft \/ Boot
                      /\ Starting \/ Locking(Main) \/ Working(Main) => MainLeft' < MainLeft
    OBVIOUS
  <2>1. Starting \/ Locking(Main) \/ Working(Main) => MainLeft' < MainLeft
    BY StartingCounts, CallCounts
  <2> HIDE DEF MainLeft
  <2>2. MainLeft' < MainLeft => MainLeft' <= MainLeft
    BY LeftType
  <2> QED
    BY <2>1, <2>2, OthersCount
<1> QED
  BY <1>1, <1>2, Invariance, PTL DEF Spec, StartupCountsDown
=============================================================================
