--------------------------- MODULE SingboxProcess ---------------------------
(***************************************************************************)
(* How the panel controls the one sing-box it manages                      *)
(* (backend/internal/singbox: process.go, service.go, config_store.go and  *)
(* the operating system behind env.go).                                    *)
(*                                                                         *)
(* Goroutines (Req) call singbox.Service; each call holds the service      *)
(* mutex s.mu from entry to return and moves through the steps below, one  *)
(* per interaction with the file system or the process table.  Between any *)
(* two of them a process may exit, be reaped, its pid may be recycled, and *)
(* the panel itself may be killed and started again.                       *)
(*                                                                         *)
(* procs abstracts the process table: "run" is a sing-box started by some  *)
(* incarnation of the panel, "dying" one that has been sent SIGKILL and is *)
(* not gone yet, "zombie" an exited child whose Wait has not returned,     *)
(* "other" any process that is not the panel's.                            *)
(***************************************************************************)
EXTENDS FiniteSets

CONSTANTS Req,           \* goroutines serving requests
          Pid,           \* process ids of the host
          Config,        \* syntactically valid contents of config.json
          Valid,         \* the contents `sing-box check` accepts
          NoReq, NoPid, NoConfig,
          PidReuseInCall, \* may the kernel recycle a pid while Stop holds it?
          BinMayVanish    \* may the binary be removed under a running sing-box?

ASSUME ConstantsAssumption ==
  /\ Valid \subseteq Config
  /\ NoReq \notin Req /\ NoPid \notin Pid /\ NoConfig \notin Config
  /\ PidReuseInCall \in BOOLEAN /\ BinMayVanish \in BOOLEAN

VARIABLES
  procs,      \* process table
  loaded,     \* the config a live sing-box read when it started
  child,      \* children of the present panel process that it has not reaped
  exited,     \* osEnv.exited
  orphans,    \* history: sing-boxes whose pid was never recorded
  pidFile,    \* contents of sing-box.pid
  ownPid,     \* ProcessManager.ownPid
  configFile, \* contents of config.json
  mu,         \* holder of Service.mu
  pc, op, arg, rpid, ret \* per goroutine: control point, method, argument,
                         \* the pid it last read or spawned, its result

osVars   == <<procs, loaded, child, orphans>>
pmVars   == <<exited, pidFile, ownPid>>
callVars == <<mu, op, arg>>
vars == <<procs, loaded, child, exited, orphans, pidFile, ownPid, configFile,
          mu, pc, op, arg, rpid, ret>>

Op == {"start", "stop", "restart", "save", "apply"}
Loc == {"idle", "lock", "save", "gate", "precheck", "stopGate", "term", "poll",
        "kill", "clear", "resolve", "startGate", "check", "spawn", "record",
        "settle", "done"}
Result == {"none", "ok", "notInstalled", "noConfig", "notRunning",
           "alreadyRunning", "invalid", "startFailed", "ioErr"}

Init ==
  /\ procs = [p \in Pid |-> "free"] /\ loaded = [p \in Pid |-> NoConfig]
  /\ child = {} /\ exited = {} /\ orphans = {}
  /\ pidFile = NoPid /\ ownPid = NoPid /\ configFile = NoConfig
  /\ mu = NoReq
  /\ pc = [r \in Req |-> "idle"] /\ op = [r \in Req |-> "none"]
  /\ arg = [r \in Req |-> NoConfig] /\ rpid = [r \in Req |-> NoPid]
  /\ ret = [r \in Req |-> "none"]

-----------------------------------------------------------------------------
\* Definitions named Faulty... are no part of the specification: each is the form
\* a definition below would take after a plausible bug, for the mutation runs.
FaultyAlive(p) == procs[p] # "free" \* Spawn's reaper records nothing

\* osEnv.Alive: signal 0 reaches zombies too, but never a child already reaped.
Alive(p) == p \notin exited /\ procs[p] # "free"

\* A zombie has an empty command line; "other" never names this config path.
CommandLineIsOurs(p) == procs[p] \in {"run", "dying"}

\* no command line check
FaultyManagedRunning == pidFile \in Pid /\ Alive(pidFile)

ManagedRunning ==
  /\ pidFile \in Pid /\ Alive(pidFile)
  /\ ownPid = pidFile \/ CommandLineIsOurs(pidFile)

Goto(r, l) == pc' = [pc EXCEPT ![r] = l] /\ UNCHANGED ret
Return(r, e) == /\ pc' = [pc EXCEPT ![r] = "done"]
                /\ ret' = [ret EXCEPT ![r] = e]

\* ProcessManager.forget: the error of os.Remove is ignored.
Forget == pidFile' \in {pidFile, NoPid} /\ ownPid' = NoPid

\* The first step of a method.
Entry(o) == IF o \in {"save", "apply"} THEN "save"
            ELSE IF o = "start" THEN "resolve" ELSE "stopGate"
AfterStop(r) == IF op[r] = "restart" THEN "resolve" ELSE "startGate"

Call(r) ==
  /\ pc[r] = "idle" /\ Goto(r, "lock")
  /\ UNCHANGED <<osVars, pmVars, configFile, callVars, rpid>>

\* no mutex
FaultyAcquire(r) ==
  /\ pc[r] = "lock" /\ mu' = r
  /\ \E o \in Op : \E c \in IF o \in {"save", "apply"} THEN Config ELSE {NoConfig} :
       /\ op' = [op EXCEPT ![r] = o] /\ arg' = [arg EXCEPT ![r] = c]
       /\ Goto(r, Entry(o))
  /\ UNCHANGED <<osVars, pmVars, configFile, rpid>>

Acquire(r) ==
  /\ pc[r] = "lock" /\ mu = NoReq /\ mu' = r
  /\ \E o \in Op : \E c \in IF o \in {"save", "apply"} THEN Config ELSE {NoConfig} :
       /\ op' = [op EXCEPT ![r] = o] /\ arg' = [arg EXCEPT ![r] = c]
       /\ Goto(r, Entry(o))
  /\ UNCHANGED <<osVars, pmVars, configFile, rpid>>

\* ConfigStore.Save: write a temporary file, rename it over config.json.
Save(r) ==
  /\ pc[r] = "save"
  /\ \/ /\ configFile' = arg[r]
        /\ IF op[r] = "save" THEN Return(r, "ok") ELSE Goto(r, "gate")
     \/ UNCHANGED configFile /\ Return(r, "ioErr")
  /\ UNCHANGED <<osVars, pmVars, callVars, rpid>>

\* ApplyConfig stops here, successfully, when sing-box is down or no binary is found.
ApplyGate(r) ==
  /\ pc[r] = "gate"
  /\ \/ ManagedRunning /\ Goto(r, "precheck")
     \/ (~ManagedRunning \/ BinMayVanish) /\ Return(r, "ok")
  /\ UNCHANGED <<osVars, pmVars, configFile, callVars, rpid>>

\* stop first, validate in Start
FaultyApplyCheck(r) ==
  /\ pc[r] = "precheck" /\ Goto(r, "stopGate")
  /\ UNCHANGED <<osVars, pmVars, configFile, callVars, rpid>>

ApplyCheck(r) ==
  /\ pc[r] = "precheck"
  /\ IF configFile \in Valid THEN Goto(r, "stopGate") ELSE Return(r, "invalid")
  /\ UNCHANGED <<osVars, pmVars, configFile, callVars, rpid>>

StopGate(r) ==
  /\ pc[r] = "stopGate"
  /\ IF ManagedRunning
     THEN /\ rpid' = [rpid EXCEPT ![r] = pidFile] /\ Goto(r, "term")
          /\ UNCHANGED <<pidFile, ownPid>>
     ELSE /\ Forget /\ UNCHANGED rpid
          /\ IF op[r] = "stop" THEN Return(r, "notRunning") ELSE Goto(r, AfterStop(r))
  /\ UNCHANGED <<osVars, exited, configFile, callVars>>

\* SIGTERM only asks: the target exits, if it does, in a step of its own.
StopTerm(r) ==
  /\ pc[r] = "term" /\ Goto(r, "poll")
  /\ UNCHANGED <<osVars, pmVars, configFile, callVars, rpid>>

\* wait for SIGTERM to work, without a limit
FaultyStopPoll(r) ==
  /\ pc[r] = "poll" /\ ~Alive(rpid[r]) /\ Goto(r, "clear")
  /\ UNCHANGED <<osVars, pmVars, configFile, callVars, rpid>>

\* no SIGKILL
FaultyStopNoKill(r) ==
  /\ pc[r] = "poll" /\ Goto(r, "clear")
  /\ UNCHANGED <<osVars, pmVars, configFile, callVars, rpid>>

\* The last look after the wait of at most 30 polls: still alive means SIGKILL.
StopPoll(r) ==
  /\ pc[r] = "poll"
  /\ Goto(r, IF Alive(rpid[r]) THEN "kill" ELSE "clear")
  /\ UNCHANGED <<osVars, pmVars, configFile, callVars, rpid>>

StopKill(r) ==
  /\ pc[r] = "kill" /\ Goto(r, "clear")
  /\ procs' = [p \in Pid |-> IF p = rpid[r] /\ procs[p] = "run" THEN "dying" ELSE procs[p]]
  /\ UNCHANGED <<loaded, child, orphans, pmVars, configFile, callVars, rpid>>

StopClear(r) ==
  /\ pc[r] = "clear" /\ ownPid' = NoPid
  /\ \/ /\ pidFile' = NoPid
        /\ IF op[r] = "stop" THEN Return(r, "ok") ELSE Goto(r, AfterStop(r))
     \/ UNCHANGED pidFile /\ Return(r, "ioErr")
  /\ UNCHANGED <<osVars, exited, configFile, callVars, rpid>>

StartResolve(r) ==
  /\ pc[r] = "resolve"
  /\ \/ Return(r, "notInstalled")
     \/ IF configFile = NoConfig THEN Return(r, "noConfig") ELSE Goto(r, "startGate")
  /\ UNCHANGED <<osVars, pmVars, configFile, callVars, rpid>>

\* no refusal while running
FaultyStartGate(r) ==
  /\ pc[r] = "startGate" /\ Goto(r, "check")
  /\ UNCHANGED <<osVars, pmVars, configFile, callVars, rpid>>

StartGate(r) ==
  /\ pc[r] = "startGate"
  /\ IF ManagedRunning THEN Return(r, "alreadyRunning") ELSE Goto(r, "check")
  /\ UNCHANGED <<osVars, pmVars, configFile, callVars, rpid>>

\* no validation before the launch
FaultyStartCheck(r) ==
  /\ pc[r] = "check" /\ Goto(r, "spawn")
  /\ UNCHANGED <<osVars, pmVars, configFile, callVars, rpid>>

StartCheck(r) ==
  /\ pc[r] = "check"
  /\ IF configFile \in Valid THEN Goto(r, "spawn") ELSE Return(r, "invalid")
  /\ UNCHANGED <<osVars, pmVars, configFile, callVars, rpid>>

\* Spawn does not clear the exited mark of a recycled pid
FaultyStartSpawn(r) ==
  /\ pc[r] = "spawn"
  /\ \/ /\ Return(r, "ioErr") /\ UNCHANGED <<osVars, pmVars, rpid>>
     \/ \E p \in {q \in Pid : procs[q] = "free"} :
          /\ procs' = [procs EXCEPT ![p] = "run"]
          /\ loaded' = [loaded EXCEPT ![p] = configFile]
          /\ child' = child \cup {p} /\ ownPid' = p
          /\ rpid' = [rpid EXCEPT ![r] = p] /\ Goto(r, "record")
          /\ UNCHANGED <<exited, orphans, pidFile>>
  /\ UNCHANGED <<configFile, callVars>>

StartSpawn(r) ==
  /\ pc[r] = "spawn"
  /\ \/ /\ Return(r, "ioErr") /\ UNCHANGED <<osVars, pmVars, rpid>>
     \/ \E p \in {q \in Pid : procs[q] = "free"} :
          /\ procs' = [procs EXCEPT ![p] = "run"]
          /\ loaded' = [loaded EXCEPT ![p] = configFile]
          /\ child' = child \cup {p} /\ exited' = exited \ {p}
          /\ ownPid' = p /\ rpid' = [rpid EXCEPT ![r] = p]
          /\ Goto(r, "record")
          /\ UNCHANGED <<orphans, pidFile>>
  /\ UNCHANGED <<configFile, callVars>>

\* Lost(p, file): the sing-box p stays up and the pid file does not name it.
Lost(p, file) == IF procs[p] = "run" /\ file # p THEN {p} ELSE {}

\* writePid may fail before or after it truncated the file; the child stays.
StartRecord(r) ==
  /\ pc[r] = "record"
  /\ \/ pidFile' = rpid[r] /\ UNCHANGED orphans /\ Goto(r, "settle")
     \/ /\ pidFile' \in {pidFile, NoPid} /\ Return(r, "ioErr")
        /\ orphans' = orphans \cup Lost(rpid[r], pidFile')
  /\ UNCHANGED <<procs, loaded, child, exited, ownPid, configFile, callVars, rpid>>

StartSettle(r) ==
  /\ pc[r] = "settle"
  /\ IF Alive(rpid[r])
     THEN Return(r, "ok") /\ UNCHANGED <<pidFile, ownPid>>
     ELSE Return(r, "startFailed") /\ Forget
  /\ UNCHANGED <<osVars, exited, configFile, callVars, rpid>>

\* The deferred Unlock.
Release(r) ==
  /\ pc[r] = "done" /\ mu' = NoReq
  /\ pc' = [pc EXCEPT ![r] = "idle"] /\ ret' = [ret EXCEPT ![r] = "none"]
  /\ op' = [op EXCEPT ![r] = "none"] /\ arg' = [arg EXCEPT ![r] = NoConfig]
  /\ rpid' = [rpid EXCEPT ![r] = NoPid]
  /\ UNCHANGED <<osVars, pmVars, configFile>>

-----------------------------------------------------------------------------
\* sing-box exits: killed, crashed, refused its port, or ended by SIGTERM.
SingboxExit(p) ==
  /\ procs[p] \in {"run", "dying"}
  /\ procs' = [procs EXCEPT ![p] = IF p \in child THEN "zombie" ELSE "free"]
  /\ loaded' = [loaded EXCEPT ![p] = NoConfig]
  /\ orphans' = orphans \ {p}
  /\ UNCHANGED <<child, pmVars, configFile, callVars, pc, rpid, ret>>

\* Spawn starts no goroutine to Wait for the child
FaultyReap(p) == procs[p] = "zombie" /\ UNCHANGED vars

\* The goroutine Spawn left behind: Wait returns and the pid is marked exited.
Reap(p) ==
  /\ procs[p] = "zombie"
  /\ procs' = [procs EXCEPT ![p] = "free"]
  /\ child' = child \ {p} /\ exited' = exited \cup {p}
  /\ UNCHANGED <<loaded, orphans, pidFile, ownPid, configFile, callVars, pc, rpid, ret>>

InUse(p) == \E r \in Req : rpid[r] = p /\ pc[r] \in {"term", "poll", "kill"}

OtherStart(p) ==
  /\ procs[p] = "free" /\ (PidReuseInCall \/ ~InUse(p))
  /\ procs' = [procs EXCEPT ![p] = "other"]
  /\ UNCHANGED <<loaded, child, orphans, pmVars, configFile, callVars, pc, rpid, ret>>

OtherExit(p) ==
  /\ procs[p] = "other"
  /\ procs' = [procs EXCEPT ![p] = "free"]
  /\ UNCHANGED <<loaded, child, orphans, pmVars, configFile, callVars, pc, rpid, ret>>

\* The panel is killed at any point and started again: everything in memory is
\* lost, its children are re-parented (zombies vanish), the files stay.
PanelRestart ==
  /\ procs' = [p \in Pid |-> IF procs[p] = "zombie" THEN "free" ELSE procs[p]]
  /\ child' = {} /\ exited' = {} /\ ownPid' = NoPid /\ mu' = NoReq
  /\ \E r \in Req :
       IF pc[r] = "record"
       THEN /\ pidFile' \in {pidFile, NoPid}
            /\ orphans' = orphans \cup Lost(rpid[r], pidFile')
       ELSE /\ \A q \in Req : pc[q] # "record"
            /\ UNCHANGED <<pidFile, orphans>>
  /\ pc' = [r \in Req |-> "idle"] /\ op' = [r \in Req |-> "none"]
  /\ arg' = [r \in Req |-> NoConfig] /\ rpid' = [r \in Req |-> NoPid]
  /\ ret' = [r \in Req |-> "none"]
  /\ UNCHANGED <<loaded, configFile>>

-----------------------------------------------------------------------------
Work(r) ==
  \/ Save(r) \/ ApplyGate(r) \/ ApplyCheck(r)
  \/ StopGate(r) \/ StopTerm(r) \/ StopPoll(r) \/ StopKill(r) \/ StopClear(r)
  \/ StartResolve(r) \/ StartGate(r) \/ StartCheck(r) \/ StartSpawn(r)
  \/ StartRecord(r) \/ StartSettle(r) \/ Release(r)

OS(p) == SingboxExit(p) \/ Reap(p) \/ OtherStart(p) \/ OtherExit(p)

Next ==
  \/ \E r \in Req : Call(r) \/ Acquire(r) \/ Work(r)
  \/ \E p \in Pid : OS(p)
  \/ PanelRestart

Spec == Init /\ [][Next]_vars

\* Every call keeps running and sync.Mutex does not starve a waiter.  A
\* process sent SIGKILL dies and a dead child is reaped.
Fairness ==
  /\ \A r \in Req : WF_vars(Work(r)) /\ SF_vars(Acquire(r))
  /\ \A p \in Pid : WF_vars(procs[p] = "dying" /\ SingboxExit(p)) /\ WF_vars(Reap(p))

FairSpec == Spec /\ Fairness

-----------------------------------------------------------------------------
(* The state is well formed; a pid is never both an unreaped child and     *)
(* marked exited, or osEnv.Alive would call a live sing-box dead.          *)
TypeOK ==
  /\ procs \in [Pid -> {"free", "run", "dying", "zombie", "other"}]
  /\ loaded \in [Pid -> Config \cup {NoConfig}]
  /\ child \subseteq Pid /\ exited \subseteq Pid /\ orphans \subseteq Pid
  /\ pidFile \in Pid \cup {NoPid} /\ ownPid \in Pid \cup {NoPid}
  /\ configFile \in Config \cup {NoConfig}
  /\ mu \in Req \cup {NoReq}
  /\ pc \in [Req -> Loc] /\ op \in [Req -> Op \cup {"none"}]
  /\ arg \in [Req -> Config \cup {NoConfig}]
  /\ rpid \in [Req -> Pid \cup {NoPid}] /\ ret \in [Req -> Result]
  /\ child \cap exited = {}

(* A process reported as running really is the panel's sing-box (or its    *)
(* zombie, until it is reaped): ManagedRunning is never fooled by a pid    *)
(* file that outlived its process or by a recycled pid.                    *)
ManagedIsOurs ==
  ManagedRunning => procs[pidFile] \in {"run", "dying", "zombie"}

(* When Stop is about to signal a pid, no unrelated process has that pid.  *)
SignalsOnlyOurs ==
  \A r \in Req : pc[r] \in {"term", "kill"} => procs[rpid[r]] # "other"

(* Two sing-boxes never run at once, one still dying of SIGKILL and one    *)
(* whose pid could not be recorded excepted: Start refuses while one runs, *)
(* and no interleaving of two calls gets past that refusal.                *)
NoSecondSingbox ==
  \A p, q \in Pid : procs[p] = "run" /\ procs[q] = "run" /\ p # q => {p, q} \cap orphans # {}

(* What the comment of startManagedSingbox claims of ProcessManager: it     *)
(* rejects every duplicate start, so the panel never runs two sing-boxes,  *)
(* whatever became of the record of the first.                             *)
NoDuplicateStart ==
  \A p, q \in Pid : procs[p] = "run" /\ procs[q] = "run" => p = q

(* Between calls a running sing-box is one the panel can see and stop,     *)
(* across crashes, panel restarts and failed removals of the pid file,     *)
(* unless its pid could never be recorded.                                 *)
NoLostSingbox ==
  mu = NoReq => \A p \in Pid : procs[p] = "run" /\ p \notin orphans => pidFile = p /\ ManagedRunning

(* A start, restart or apply that returns success leaves sing-box, if it   *)
(* is running, with the config that is on file.                            *)
SuccessMeansInForce ==
  \A r \in Req :
    pc[r] = "done" /\ ret[r] = "ok" /\ op[r] \in {"start", "restart", "apply"}
    /\ pidFile \in Pid /\ procs[pidFile] = "run" => loaded[pidFile] = configFile

(* ApplyConfig of a config sing-box refuses never reaches the stop: the    *)
(* running process is left alone.                                          *)
RefusedConfigLeavesProcess ==
  \A r \in Req : op[r] = "apply" /\ arg[r] \notin Valid =>
    pc[r] \in {"save", "gate", "precheck", "done"}

(* A call that has begun returns, whatever sing-box, the disk or the other *)
(* callers do (or the panel is killed).                                    *)
CallsReturn == \A r \in Req : pc[r] # "idle" ~> pc[r] = "idle"

(* A recorded sing-box that crashed, or was killed and is still recorded,  *)
(* does not stay "running" for ever: its exit reaches ManagedRunning.      *)
CrashNoticed ==
  \A p \in Pid : pidFile = p /\ procs[p] \in {"dying", "zombie"} ~> ~ManagedRunning

\* The sing-box under control, as ManagedSingbox sees it.
Up == IF pidFile \in Pid /\ procs[pidFile] = "run" THEN loaded[pidFile] ELSE NoConfig

Contract == INSTANCE ManagedSingbox WITH file <- configFile, up <- Up

(* Every step of the process control is a step of the contract or leaves   *)
(* it alone: sing-box is only launched from down, with the valid config on *)
(* file, and never swapped or taken over in one step.                      *)
ImplementsContract == Contract!Spec
=============================================================================
