------------------------------ MODULE Startup ------------------------------
(***************************************************************************)
(* The life of the panel process: main's startup sequence, the requests it *)
(* then serves, its shutdown and its death, over what outlives it: the     *)
(* database, config.json, sing-box and the ports of the host               *)
(* (backend/cmd/server/main.go, internal/inbound/seed.go and service.go,   *)
(* handlers/inbound.go and singbox.go).                                    *)
(*                                                                         *)
(* An inbound is identified by the port it listens on, a loopback address  *)
(* of the Clash API by its TCP port.  Process control is used through its  *)
(* contract: file and up are the variables of ManagedSingbox.              *)
(***************************************************************************)
EXTENDS Naturals

CONSTANTS Req, Main,      \* goroutines serving requests, and the one of main
          Port,           \* listen ports, each with its network
          Addr,           \* those a Clash API may be given
          Ephemeral,      \* those the kernel hands out for port 0
          Default, PanelPort, FirstSeed, SecondSeed,
          NoAddr, NoConfig, Edited, NoThread,
          MaxBoots, MaxRequests \* bounds

Thread == Req \cup {Main}

ASSUME StartupAssumption ==
  /\ Addr \subseteq Port /\ Ephemeral \subseteq Addr /\ Default \in Addr
  /\ {PanelPort, FirstSeed, SecondSeed} \subseteq Port /\ FirstSeed # SecondSeed
  /\ Main \notin Req /\ NoThread \notin Thread /\ NoAddr \notin Port
  /\ MaxBoots \in Nat /\ MaxRequests \in Nat

\* legacy: generated by a version that still put destination rules on the server.
Generation == [addr : Addr \cup {NoAddr}, rows : SUBSET Port, legacy : BOOLEAN]
Config == Generation \cup {Edited}

ASSUME EditedAssumption == Edited \notin Generation /\ NoConfig \notin Config

VARIABLES
  meta, rows, mark,    \* database: clash_api_addr, the inbounds, client_routing_v1
  file, up,            \* config.json, and what the managed sing-box runs
  foreign,             \* ports other processes listen on
  exp, reserved,       \* of this process: main's exp and Service.reserved
  stage,               \* where main is, "off" without a panel process
  call, op, gen,       \* per goroutine: step, request, the config it generated
  imu, smu,            \* holders of inbound.Service.mu and singbox.Service.mu
  behind,              \* history: file and process may lag the database, see InStep
  skipped,             \* history: an apply has left the running sing-box with an old config
  origin,              \* history: what made the inbounds: the seeding, a seeding cut
                       \* short, or an administrator
  boots, left          \* bounds: starts and requests still to come

db     == <<meta, rows, mark>>
host   == <<file, up, skipped, foreign>>
local  == <<exp, reserved>>
calls  == <<call, op, gen, imu, smu>>
bounds == <<boots, left>>
vars == <<db, host, local, stage, calls, behind, origin, bounds>>

Generated == [addr |-> meta, rows |-> rows, legacy |-> FALSE]

Listens(c) == IF c = Edited THEN {} ELSE {c.addr} \cup c.rows

\* Can sing-box bind what c asks for?  (It may fail for other reasons too.)
CanRun(c) ==
  /\ c # NoConfig
  /\ c # Edited => c.addr \notin c.rows /\ Listens(c) \cap foreign = {}

\* A fresh host, one last run by a version that still routed on the server, or
\* one this version has run.
Init ==
  /\ \/ meta = NoAddr /\ rows = {} /\ mark = FALSE /\ file = NoConfig
        /\ behind = TRUE /\ origin = "seeds"
     \/ meta = Default /\ rows = {FirstSeed, SecondSeed} /\ mark = FALSE
        /\ file = [Generated EXCEPT !.legacy = TRUE] /\ behind = TRUE /\ origin = "seeds"
     \/ meta = Default /\ rows \in SUBSET {FirstSeed, SecondSeed} /\ mark = TRUE
        /\ file = Generated /\ behind = FALSE /\ origin = "admin"
  /\ up \in {NoConfig, file} /\ foreign = {} /\ (up # NoConfig => CanRun(up)) /\ skipped = FALSE
  /\ exp = NoAddr /\ reserved = {} /\ stage = "off"
  /\ call = [t \in Thread |-> "idle"] /\ op = [t \in Thread |-> "none"]
  /\ gen = [t \in Thread |-> NoConfig] /\ imu = NoThread /\ smu = NoThread
  /\ boots = MaxBoots /\ left = MaxRequests

-----------------------------------------------------------------------------
(* main, up to the moment it serves requests.                              *)

Boot ==
  /\ stage = "off" /\ boots > 0 /\ boots' = boots - 1 /\ stage' = "panelPort"
  /\ UNCHANGED <<db, host, local, calls, behind, origin, left>>

ReservePanelPort ==
  /\ stage = "panelPort" /\ stage' = "setAddr" /\ reserved' = {PanelPort}
  /\ UNCHANGED <<db, host, exp, calls, behind, origin, bounds>>

\* CLASH_API_ADDR, if set; config.Load ignores one that is not loopback.
SetClashAPIAddr ==
  /\ stage = "setAddr" /\ stage' = "apiConfig"
  /\ meta' \in Addr \cup {meta}
  /\ behind' = (behind \/ meta' # meta)
  /\ UNCHANGED <<rows, mark, host, local, calls, origin, bounds>>

\* APIConfig, and main's question whether the managed sing-box is running.
APIConfig ==
  /\ stage = "apiConfig"
  /\ meta' = IF meta = NoAddr THEN Default ELSE meta
  /\ exp' = meta'
  /\ stage' = IF up = NoConfig THEN "ensure" ELSE "reserveAPI"
  /\ UNCHANGED <<rows, mark, host, reserved, calls, behind, origin, bounds>>

Gone == stage' = "off" /\ exp' = NoAddr /\ reserved' = {}

\* Definitions named Faulty... are plausible bugs for the mutation runs.
\* exp keeps the address that was taken
FaultyEnsureClashAPIAvailable ==
  /\ stage = "ensure" /\ stage' = "reserveAPI" /\ UNCHANGED exp
  /\ \/ exp \notin foreign /\ UNCHANGED <<meta, behind>>
     \/ exp \in foreign /\ meta' \in Ephemeral \ foreign /\ behind' = TRUE
  /\ UNCHANGED <<rows, mark, host, reserved, calls, origin, bounds>>

\* The probe releases the port it found before sing-box binds it: see PortTaken.
EnsureClashAPIAvailable ==
  /\ stage = "ensure"
  /\ \/ exp \notin foreign /\ stage' = "reserveAPI" /\ UNCHANGED <<meta, local, behind>>
     \/ /\ exp \in foreign /\ meta' \in Ephemeral \ foreign /\ stage' = "reserveAPI"
        /\ exp' = meta' /\ behind' = TRUE /\ UNCHANGED reserved
     \/ exp \in foreign /\ Gone /\ UNCHANGED <<meta, behind>> \* log.Fatalf
  /\ UNCHANGED <<rows, mark, host, calls, origin, bounds>>

\* the API's port is not claimed
FaultyReserveAPIPort ==
  /\ stage = "reserveAPI" /\ stage' = "count"
  /\ UNCHANGED <<db, host, local, calls, behind, origin, bounds>>

ReserveAPIPort ==
  /\ stage = "reserveAPI" /\ stage' = "count" /\ reserved' = reserved \cup {exp}
  /\ UNCHANGED <<db, host, exp, calls, behind, origin, bounds>>

\* SeedDefaults: nothing to do once there is an inbound, or if the query fails.
SeedCount ==
  /\ stage = "count"
  /\ \/ rows = {} /\ stage' = "seed1" /\ origin' = "seeds"
     \/ rows # {} /\ stage' = "backfill" /\ UNCHANGED origin
     \/ rows = {} /\ stage' = "backfill" /\ origin' = "cut"
  /\ UNCHANGED <<db, host, local, calls, behind, bounds>>

Regenerating(t) == call' = [call EXCEPT ![t] = "regen"]

\* CreateInbound and then Regenerate, or the first error, which ends the seeding.
Seed(s, port) ==
  /\ stage = s /\ call[Main] = "idle"
  /\ \/ port \notin reserved \cup rows /\ rows' = rows \cup {port}
        /\ Regenerating(Main) /\ UNCHANGED <<stage, origin>>
     \/ stage' = "backfill" /\ origin' = "cut" /\ UNCHANGED <<rows, call>>
  /\ UNCHANGED <<meta, mark, host, local, op, gen, imu, smu, behind, bounds>>

SeedFirst  == Seed("seed1", FirstSeed)
SeedSecond == Seed("seed2", SecondSeed)

\* Tokens of users are not part of this model; nothing is regenerated.
BackfillUserTokens ==
  /\ stage = "backfill" /\ stage' = "migrate"
  /\ UNCHANGED <<db, host, local, calls, behind, origin, bounds>>

MigrateClientRouting ==
  /\ stage = "migrate" /\ call[Main] = "idle"
  /\ \/ ~mark /\ Regenerating(Main) /\ UNCHANGED stage
     \/ stage' = "autoStart" /\ UNCHANGED call \* done before, or the query fails
  /\ UNCHANGED <<db, host, local, op, gen, imu, smu, behind, origin, bounds>>

SaveMark ==
  /\ stage = "mark" /\ stage' = "autoStart"
  /\ mark' \in {mark, TRUE} \* FALSE: the write fails
  /\ UNCHANGED <<meta, rows, host, local, calls, behind, origin, bounds>>

\* Only if installed, with a config, and not running; Start may fail.
StartManagedSingbox ==
  /\ stage = "autoStart" /\ stage' = "serving"
  /\ \/ up = NoConfig /\ CanRun(file) /\ up' = file
     \/ UNCHANGED up
  /\ UNCHANGED <<db, file, skipped, foreign, local, calls, behind, origin, bounds>>

Starting ==
  \/ ReservePanelPort \/ SetClashAPIAddr \/ APIConfig \/ EnsureClashAPIAvailable
  \/ ReserveAPIPort \/ SeedCount \/ SeedFirst \/ SeedSecond \/ BackfillUserTokens
  \/ MigrateClientRouting \/ SaveMark \/ StartManagedSingbox

-----------------------------------------------------------------------------
(* Regenerate, by main or by a request, and Restart.                       *)

\* the mark is saved whatever Regenerate returned
FaultyNextStage(ok) ==
  CASE stage = "seed1" /\ ok -> "seed2"
    [] stage = "migrate"     -> "mark"
    [] OTHER                 -> "backfill"

\* seeding ends with the first inbound
FaultyNextStageSeed(ok) ==
  CASE stage = "migrate" /\ ok  -> "mark"
    [] stage = "migrate" /\ ~ok -> "autoStart"
    [] OTHER                    -> "backfill"

\* the migration is tried until it succeeds
FaultyNextStageRetry(ok) ==
  CASE stage = "seed1" /\ ok    -> "seed2"
    [] stage = "migrate" /\ ok  -> "mark"
    [] stage = "migrate" /\ ~ok -> "migrate"
    [] OTHER                    -> "backfill"

\* What main does after a Regenerate that returned nil or an error.
NextStage(ok) ==
  CASE stage = "seed1" /\ ok    -> "seed2"
    [] stage = "migrate" /\ ok  -> "mark"
    [] stage = "migrate" /\ ~ok -> "autoStart"
    [] OTHER                    -> "backfill"

Free(mu, t) == IF mu = t THEN NoThread ELSE mu

\* one mutex stays locked after an error
FaultyReturn(t, ok) ==
  /\ imu' = Free(imu, t) /\ smu' = IF ok THEN Free(smu, t) ELSE smu
  /\ gen' = [gen EXCEPT ![t] = NoConfig]
  /\ IF t = Main
     THEN stage' = NextStage(ok) /\ origin' = IF stage = "seed1" /\ ~ok THEN "cut" ELSE origin
     ELSE UNCHANGED <<stage, origin>>
  /\ IF op[t] = "apply" /\ ok /\ imu = t
     THEN call' = [call EXCEPT ![t] = "restart"] /\ UNCHANGED op
     ELSE call' = [call EXCEPT ![t] = "idle"] /\ op' = [op EXCEPT ![t] = "none"]

\* Both mutexes are released; the apply button goes on to Restart if nothing failed.
Return(t, ok) ==
  /\ imu' = Free(imu, t) /\ smu' = Free(smu, t)
  /\ gen' = [gen EXCEPT ![t] = NoConfig]
  /\ IF t = Main
     THEN stage' = NextStage(ok) /\ origin' = IF stage = "seed1" /\ ~ok THEN "cut" ELSE origin
     ELSE UNCHANGED <<stage, origin>>
  /\ IF op[t] = "apply" /\ ok /\ imu = t
     THEN call' = [call EXCEPT ![t] = "restart"] /\ UNCHANGED op
     ELSE call' = [call EXCEPT ![t] = "idle"] /\ op' = [op EXCEPT ![t] = "none"]

\* regenerate: the queries and Generate, under inbound.Service.mu.
ReadTables(t) ==
  /\ call[t] = "regen" /\ imu = NoThread
  /\ \/ imu' = t /\ gen' = [gen EXCEPT ![t] = Generated]
        /\ call' = [call EXCEPT ![t] = "save"]
        /\ UNCHANGED <<op, smu, stage, origin, behind>>
     \/ Return(t, FALSE) /\ behind' = TRUE
  /\ UNCHANGED <<db, host, local, bounds>>

\* the save happens outside the service lock
FaultySave(t) ==
  /\ call[t] = "save"
  /\ \/ file' = gen[t] /\ call' = [call EXCEPT ![t] = "gate"]
        /\ UNCHANGED <<op, gen, imu, smu, stage, origin, behind>>
     \/ Return(t, FALSE) /\ behind' = TRUE /\ UNCHANGED file
  /\ UNCHANGED <<db, up, skipped, foreign, local, bounds>>

\* ApplyConfig: the save, which may fail,
Save(t) ==
  /\ call[t] = "save" /\ smu = NoThread
  /\ \/ smu' = t /\ file' = gen[t] /\ call' = [call EXCEPT ![t] = "gate"]
        /\ UNCHANGED <<op, gen, imu, stage, origin, behind>>
     \/ Return(t, FALSE) /\ behind' = TRUE /\ UNCHANGED file
  /\ UNCHANGED <<db, up, skipped, foreign, local, bounds>>

\* the end if sing-box is down, if it runs but its binary is gone (nil all the same),
\* or if `sing-box check` refuses,
Gate(t) ==
  /\ call[t] = "gate"
  /\ \/ up = NoConfig /\ Return(t, TRUE) /\ behind' = FALSE /\ UNCHANGED skipped
     \/ up # NoConfig /\ Return(t, TRUE) /\ behind' = FALSE /\ skipped' = (up # file)
     \/ up # NoConfig /\ Return(t, FALSE) /\ behind' = TRUE /\ UNCHANGED skipped
     \/ up # NoConfig /\ call' = [call EXCEPT ![t] = "stop"]
        /\ UNCHANGED <<op, gen, imu, smu, stage, origin, behind, skipped>>
  /\ UNCHANGED <<db, file, up, foreign, local, bounds>>

Down == up' = NoConfig /\ skipped' = FALSE

\* the second sing-box is started beside the first
FaultyStopSingbox(t) ==
  /\ call[t] = "stop" /\ call' = [call EXCEPT ![t] = "launch"]
  /\ UNCHANGED <<db, host, local, op, gen, imu, smu, stage, behind, origin, bounds>>

\* else Stop, which may still fail to remove the pid file,
StopSingbox(t) ==
  /\ call[t] = "stop" /\ Down
  /\ \/ call' = [call EXCEPT ![t] = "launch"] /\ UNCHANGED <<op, gen, imu, smu, stage, origin>>
     \/ Return(t, FALSE)
  /\ behind' = (behind /\ imu # t)
  /\ UNCHANGED <<db, file, foreign, local, bounds>>

\* and Start.
LaunchSingbox(t) ==
  /\ call[t] = "launch"
  /\ \/ CanRun(file) /\ up' = file /\ Return(t, TRUE)
     \/ UNCHANGED up /\ Return(t, FALSE)
  /\ UNCHANGED <<db, file, skipped, foreign, local, behind, bounds>>

Restart(t) ==
  /\ call[t] = "restart" /\ smu = NoThread /\ smu' = t
  /\ call' = [call EXCEPT ![t] = "stop"]
  /\ UNCHANGED <<db, host, local, op, gen, imu, stage, behind, origin, bounds>>

Locking(t) == ReadTables(t) \/ Save(t) \/ Restart(t)
Working(t) == Gate(t) \/ StopSingbox(t) \/ LaunchSingbox(t)

-----------------------------------------------------------------------------
(* Requests, while main waits for a signal.                                *)

Request(r) == stage = "serving" /\ call[r] = "idle" /\ left > 0 /\ left' = left - 1

CreateInbound(r) == \E port \in Port \ rows :
  /\ Request(r) /\ port \notin reserved
  /\ rows' = rows \cup {port} /\ Regenerating(r) /\ origin' = "admin"
  /\ UNCHANGED <<meta, mark, host, local, stage, op, gen, imu, smu, behind, boots>>

DeleteInbound(r) == \E port \in rows :
  /\ Request(r) /\ rows' = rows \ {port} /\ Regenerating(r) /\ origin' = "admin"
  /\ UNCHANGED <<meta, mark, host, local, stage, op, gen, imu, smu, behind, boots>>

\* POST /api/singbox/apply: Regenerate, then Restart.
ApplyButton(r) ==
  /\ Request(r) /\ Regenerating(r) /\ op' = [op EXCEPT ![r] = "apply"]
  /\ UNCHANGED <<db, host, local, stage, gen, imu, smu, behind, origin, boots>>

StartButton(r) ==
  /\ Request(r) /\ smu = NoThread /\ up = NoConfig /\ CanRun(file) /\ up' = file
  /\ UNCHANGED <<db, file, skipped, foreign, local, stage, calls, behind, origin, boots>>

StopButton(r) ==
  /\ Request(r) /\ smu = NoThread /\ up # NoConfig /\ Down
  /\ UNCHANGED <<db, file, foreign, local, stage, calls, behind, origin, boots>>

\* PUT /api/singbox/config saves whatever JSON it is given and applies nothing.
PutConfig(r) ==
  /\ Request(r) /\ smu = NoThread /\ file' = Edited /\ behind' = TRUE
  /\ UNCHANGED <<db, up, skipped, foreign, local, stage, calls, origin, boots>>

Serve(r) ==
  \/ CreateInbound(r) \/ DeleteInbound(r) \/ ApplyButton(r)
  \/ StartButton(r) \/ StopButton(r) \/ PutConfig(r)

-----------------------------------------------------------------------------
(* The end of the process, and what happens around it.                     *)

\* SIGTERM or SIGINT: the listener closes, requests under way are waited for.
Drain ==
  /\ stage = "serving" /\ stage' = "draining"
  /\ UNCHANGED <<db, host, local, calls, behind, origin, bounds>>

\* Shutdown returns once every request has.
Exit ==
  /\ stage = "draining" /\ \A r \in Req : call[r] = "idle"
  /\ Gone /\ UNCHANGED <<db, host, calls, behind, origin, bounds>>

\* A kill, log.Fatal, a signal before main waits for it, or the end of the grace
\* period while a request is still applying.
Crash ==
  /\ stage # "off" /\ Gone
  /\ behind' = (behind \/ \E t \in Thread : call[t] # "idle")
  /\ origin' = IF stage \in {"seed1", "seed2"} /\ rows = {FirstSeed} THEN "cut" ELSE origin
  /\ call' = [t \in Thread |-> "idle"] /\ op' = [t \in Thread |-> "none"]
  /\ gen' = [t \in Thread |-> NoConfig] /\ imu' = NoThread /\ smu' = NoThread
  /\ UNCHANGED <<db, host, bounds>>

SingboxExits ==
  /\ up # NoConfig /\ Down
  /\ UNCHANGED <<db, file, foreign, local, stage, calls, behind, origin, bounds>>

\* Another process binds a port sing-box does not hold, or lets it go; bound: one
\* port at a time.
PortTaken == foreign = {} /\ \E a \in Addr :
  /\ up # NoConfig => a \notin Listens(up)
  /\ foreign' = {a}
  /\ UNCHANGED <<db, file, up, skipped, local, stage, calls, behind, origin, bounds>>

PortReleased ==
  /\ foreign # {} /\ foreign' = {}
  /\ UNCHANGED <<db, file, up, skipped, local, stage, calls, behind, origin, bounds>>

Environment == Crash \/ SingboxExits \/ PortTaken \/ PortReleased

Next ==
  \/ Boot \/ Starting \/ Drain \/ Exit \/ Environment
  \/ \E t \in Thread : Locking(t) \/ Working(t)
  \/ \E r \in Req : Serve(r)

Spec == Init /\ [][Next]_vars

\* main keeps running: its system calls return, and nobody else has a mutex yet.
FairSpec == Spec /\ WF_vars(Starting) /\ WF_vars(Locking(Main) \/ Working(Main))

-----------------------------------------------------------------------------
Idle == \A t \in Thread : call[t] = "idle"

(* The state is well formed, each mutex is held exactly by the goroutine   *)
(* in the part of a call it guards, and requests run only after startup.   *)
TypeOK ==
  /\ meta \in Addr \cup {NoAddr} /\ rows \subseteq Port /\ mark \in BOOLEAN
  /\ file \in Config \cup {NoConfig} /\ up \in Config \cup {NoConfig}
  /\ foreign \subseteq Addr
  /\ exp \in Addr \cup {NoAddr} /\ reserved \subseteq Port
  /\ stage \in {"off", "panelPort", "setAddr", "apiConfig", "ensure", "reserveAPI", "count",
                "seed1", "seed2", "backfill", "migrate", "mark", "autoStart", "serving", "draining"}
  /\ call \in [Thread -> {"idle", "regen", "save", "gate", "stop", "launch", "restart"}]
  /\ op \in [Thread -> {"none", "apply"}]
  /\ gen \in [Thread -> Config \cup {NoConfig}]
  /\ imu \in Thread \cup {NoThread} /\ smu \in Thread \cup {NoThread}
  /\ behind \in BOOLEAN /\ skipped \in BOOLEAN /\ origin \in {"seeds", "cut", "admin"}
  /\ boots \in 0..MaxBoots /\ left \in 0..MaxRequests
  /\ \A t \in Thread : smu = t <=> call[t] \in {"gate", "stop", "launch"}
  /\ \A t \in Thread : call[t] = "save" => imu = t

(* While no call is under way, the poller, the live monitor and the        *)
(* reservation use the address the database has; and unless something was  *)
(* left behind, that is also the address in config.json and the one        *)
(* sing-box serves, as are the inbounds, unless sing-box runs without its  *)
(* binary and was skipped.  What may be left behind: the address was       *)
(* changed at startup and nothing has regenerated since, an apply failed   *)
(* or was cut short by the end of the panel, or the file was edited by     *)
(* hand.                                                                   *)
InStep ==
  stage = "serving" /\ Idle =>
    /\ exp = meta /\ exp \in reserved
    /\ behind \/ (file = Generated /\ (up \in {NoConfig, file} \/ skipped))

(* Once the migration of client routing is marked as done, the config on   *)
(* file has no server-side destination rules, and none that has is in      *)
(* force but in a sing-box that an apply has skipped, however often the    *)
(* migration failed or was cut short before.                               *)
Legacy(c) == c \in Generation /\ c.legacy
MigratedForGood == mark => ~Legacy(file) /\ (Legacy(up) => skipped)

(* A panel that serves has both default inbounds, or those an              *)
(* administrator chose, or its seeding ended with an error or the process. *)
SeedsWhole == stage = "serving" => {FirstSeed, SecondSeed} \subseteq rows \/ origin # "seeds"

(* What the comment of SeedDefaults promises by "idempotent": called again, *)
(* it finds no inbound, or both, or those an administrator wanted.         *)
SeedingIdempotent ==
  stage = "count" /\ rows # {} => {FirstSeed, SecondSeed} \subseteq rows \/ origin = "admin"

(* What the comment of SetClashAPIAddr promises: a panel that serves has   *)
(* one API address in the generated config, in its monitors and among its  *)
(* reserved ports.                                                         *)
AddressAgrees ==
  stage = "serving" /\ Idle /\ file \in Generation => file.addr = exp /\ exp \in reserved

(* No inbound is created on a port the panel uses: neither by a request    *)
(* nor by the seeding, whatever address was set or moved to at startup.    *)
PanelPortsKept == [][(rows' \ rows) \cap {PanelPort, exp} = {}]_vars

\* A goroutine in a call waits for nothing but the mutex its next step takes.
CanGoOn(t) ==
  \/ call[t] = "regen" /\ imu = NoThread
  \/ call[t] \in {"save", "restart"} /\ smu = NoThread
  \/ call[t] \in {"gate", "stop", "launch"}

Unjammed == Idle \/ \E t \in Thread : CanGoOn(t)

(* Nobody waits for ever: while calls are under way, one of them can go on, *)
(* though an apply holds one mutex while it waits for the other, and       *)
(* restarts and edits take the second one alone.                           *)
SomebodyMoves ==
  Unjammed /\ \A t \in Thread : CanGoOn(t) <=> ENABLED (Locking(t) \/ Working(t))

Sb == INSTANCE ManagedSingbox WITH Valid <- Config

(* The panel as a whole uses process control within its contract: startup, *)
(* applies and restarts of several requests never launch a second          *)
(* sing-box beside a running one, or one with another config than the      *)
(* file's.                                                                 *)
WithinContract == [][Sb!Next]_<<file, up>>

(* main gets to serving requests, or the process ends, whatever fails on   *)
(* the way.                                                                *)
StartupEnds == stage = "panelPort" ~> stage \in {"serving", "off"}
=============================================================================
