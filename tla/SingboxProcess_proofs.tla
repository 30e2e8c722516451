----------------------- MODULE SingboxProcess_proofs -----------------------
(***************************************************************************)
(* Proofs about SingboxProcess for any number of goroutines, pids and      *)
(* configs.  The inductive invariant IInv says who is in the critical      *)
(* section (MutexInv), how the process table and osEnv.exited agree        *)
(* (ProcInv), that a running sing-box is named by the pid file or in the   *)
(* hands of the call that just spawned it (TrackInv), and what each        *)
(* control point of a call knows (StopInv, StartInv, ApplyInv, DoneInv).   *)
(***************************************************************************)
EXTENDS SingboxProcess, Naturals, TLAPS

Running(p) == p \in Pid /\ procs[p] = "run"

MutexInv ==
  \A r \in Req : /\ pc[r] \in {"idle", "lock"} <=> mu # r
                 /\ pc[r] \in {"idle", "lock"} => op[r] = "none"

ProcInv ==
  /\ \A p \in child : procs[p] \in {"run", "dying", "zombie"}
  /\ \A p \in Pid : procs[p] = "zombie" => p \in child
  /\ \A p \in exited : procs[p] \in {"free", "other"}
  /\ \A p \in Pid : procs[p] = "run" => loaded[p] \in Config
  /\ ownPid \in Pid => ownPid \in child \cup exited

TrackInv ==
  \A p \in Pid : procs[p] = "run" /\ p \notin orphans =>
    pidFile = p \/ \E r \in Req : pc[r] = "record" /\ rpid[r] = p

StopInv ==
  \A r \in Req :
    /\ pc[r] \in {"term", "poll", "kill", "clear"} => rpid[r] = pidFile /\ rpid[r] \in Pid
    /\ pc[r] = "clear" => procs[rpid[r]] # "run"
    /\ ~PidReuseInCall /\ pc[r] \in {"term", "poll", "kill"} => procs[rpid[r]] # "other"

StartInv ==
  \A r \in Req :
    /\ pc[r] \in {"check", "spawn"} => ~Running(pidFile)
    /\ pc[r] \in {"spawn", "record"} => configFile \in Valid
    /\ pc[r] \in {"record", "settle"} =>
         rpid[r] \in Pid /\ (Running(rpid[r]) => loaded[rpid[r]] = configFile)
    /\ pc[r] = "record" /\ Running(pidFile) => pidFile = rpid[r]
    /\ pc[r] = "settle" => pidFile = rpid[r]

ApplyInv ==
  \A r \in Req :
    /\ pc[r] = "save" => arg[r] \in Config
    /\ op[r] = "apply" => /\ pc[r] \notin {"save", "done"} => configFile = arg[r]
                          /\ pc[r] \notin {"save", "gate", "precheck", "done"} => arg[r] \in Valid

DoneInv ==
  ~BinMayVanish =>
    \A r \in Req :
      pc[r] = "done" /\ ret[r] = "ok" /\ op[r] \in {"start", "restart", "apply"}
      /\ Running(pidFile) => loaded[pidFile] = configFile

IInv == TypeOK /\ MutexInv /\ ProcInv /\ TrackInv /\ StopInv /\ StartInv /\ ApplyInv /\ DoneInv

-----------------------------------------------------------------------------
(* A sing-box that runs under the recorded pid is seen by ManagedRunning,  *)
(* and only the panel's processes are: the reason the gates of Start and   *)
(* Stop can be trusted.                                                    *)
LEMMA ManagedExact ==
  ASSUME TypeOK, ProcInv
  PROVE  /\ Running(pidFile) => ManagedRunning
         /\ ManagedRunning => procs[pidFile] \in {"run", "dying", "zombie"}
<1>1. Running(pidFile) => ManagedRunning
  BY DEF ProcInv, Running, ManagedRunning, Alive, CommandLineIsOurs
<1>2. ASSUME ManagedRunning, ownPid = pidFile
      PROVE  procs[pidFile] \in {"run", "dying", "zombie"}
  <2>1. pidFile \in Pid /\ pidFile \notin exited
    BY <1>2 DEF ManagedRunning, Alive
  <2>2. pidFile \in child
    BY <1>2, <2>1 DEF ProcInv
  <2> QED
    BY <2>2 DEF ProcInv
<1>3. ASSUME ManagedRunning, ownPid # pidFile
      PROVE  procs[pidFile] \in {"run", "dying", "zombie"}
  BY <1>3 DEF ManagedRunning, CommandLineIsOurs
<1> QED
  BY <1>1, <1>2, <1>3

LEMMA InitInv == Init => IInv
BY ConstantsAssumption DEF ConstantsAssumption, Init, IInv, TypeOK, MutexInv,
   ProcInv, TrackInv, StopInv, StartInv, ApplyInv, DoneInv, Running, Op, Loc, Result

(* One step per action.  Only the holder of the mutex is past "lock", so   *)
(* what a call knows at its control point is disturbed by no other call,   *)
(* only by the operating system and by a panel restart.                    *)
LEMMA StepInv == IInv /\ [Next]_vars => IInv'
<1> SUFFICES ASSUME IInv, [Next]_vars PROVE IInv'
  OBVIOUS
<1> USE ConstantsAssumption DEF ConstantsAssumption, Op, Loc, Result, osVars, pmVars,
    callVars, IInv, TypeOK, MutexInv, ProcInv, TrackInv, StopInv, StartInv, ApplyInv,
    DoneInv, Running
<1> USE ManagedExact
<1>1. ASSUME NEW r \in Req, Call(r) PROVE IInv'
  BY <1>1 DEF Call, Goto
<1>2. ASSUME NEW r \in Req, Acquire(r) PROVE IInv'
  BY <1>2 DEF Acquire, Goto, Entry
<1>3. ASSUME NEW r \in Req, Save(r) PROVE IInv'
  BY <1>3 DEF Save, Goto, Return
<1>4. ASSUME NEW r \in Req, ApplyGate(r) PROVE IInv'
  BY <1>4 DEF ApplyGate, Goto, Return
<1>5. ASSUME NEW r \in Req, ApplyCheck(r) PROVE IInv'
  BY <1>5 DEF ApplyCheck, Goto, Return
<1>6. ASSUME NEW r \in Req, StopGate(r) PROVE IInv'
  \* Forgetting the pid file loses nothing: what it names is not running.
  <2>1. CASE ManagedRunning
    <3>1. pidFile \in Pid
      BY <2>1 DEF ManagedRunning
    <3> QED
      BY <1>6, <2>1, <3>1 DEF StopGate, Goto
  <2>2. CASE ~ManagedRunning
    <3>1. ~Running(pidFile)
      BY <2>2
    <3> QED
      BY <1>6, <2>2, <3>1 DEF StopGate, Forget, AfterStop, Goto, Return
  <2> QED
    BY <2>1, <2>2
<1>7. ASSUME NEW r \in Req, StopTerm(r) PROVE IInv'
  BY <1>7 DEF StopTerm, Goto
<1>8. ASSUME NEW r \in Req, StopPoll(r) PROVE IInv'
  <2>1. ~Alive(rpid[r]) => procs[rpid[r]] # "run"
    BY DEF Alive
  <2> QED
    BY <1>8, <2>1 DEF StopPoll, Goto
<1>9. ASSUME NEW r \in Req, StopKill(r) PROVE IInv'
  BY <1>9 DEF StopKill, Goto
<1>10. ASSUME NEW r \in Req, StopClear(r) PROVE IInv'
  \* The pid file still names the pid that was stopped, which is not running.
  <2>1. ~Running(pidFile)
    BY <1>10 DEF StopClear
  <2> QED
    BY <1>10, <2>1 DEF StopClear, AfterStop, Goto, Return
<1>11. ASSUME NEW r \in Req, StartResolve(r) PROVE IInv'
  BY <1>11 DEF StartResolve, Goto, Return
<1>12. ASSUME NEW r \in Req, StartGate(r) PROVE IInv'
  BY <1>12 DEF StartGate, Goto, Return
<1>13. ASSUME NEW r \in Req, StartCheck(r) PROVE IInv'
  BY <1>13 DEF StartCheck, Goto, Return
<1>14. ASSUME NEW r \in Req, StartSpawn(r) PROVE IInv'
  BY <1>14 DEF StartSpawn, Goto, Return
<1>15. ASSUME NEW r \in Req, StartRecord(r) PROVE IInv'
  \* If the old pid file names a running process, it is the one just spawned.
  <2>1. Running(pidFile) => pidFile = rpid[r]
    BY <1>15 DEF StartRecord
  <2> QED
    BY <1>15, <2>1 DEF StartRecord, Lost, Goto, Return
<1>16. ASSUME NEW r \in Req, StartSettle(r) PROVE IInv'
  <2>1. ~Alive(rpid[r]) => ~Running(rpid[r])
    BY DEF Alive
  <2> QED
    BY <1>16, <2>1 DEF StartSettle, Forget, Return
<1>17. ASSUME NEW r \in Req, Release(r) PROVE IInv'
  BY <1>17 DEF Release
<1>18. ASSUME NEW p \in Pid, SingboxExit(p) PROVE IInv'
  BY <1>18 DEF SingboxExit
<1>19. ASSUME NEW p \in Pid, Reap(p) PROVE IInv'
  BY <1>19 DEF Reap
<1>20. ASSUME NEW p \in Pid, OtherStart(p) PROVE IInv'
  BY <1>20 DEF OtherStart, InUse
<1>21. ASSUME NEW p \in Pid, OtherExit(p) PROVE IInv'
  BY <1>21 DEF OtherExit
<1>22. ASSUME PanelRestart PROVE IInv'
  BY <1>22 DEF PanelRestart, Lost
<1>23. CASE UNCHANGED vars
  BY <1>23 DEF vars
<1> QED
  BY <1>1, <1>2, <1>3, <1>4, <1>5, <1>6, <1>7, <1>8, <1>9, <1>10, <1>11, <1>12,
     <1>13, <1>14, <1>15, <1>16, <1>17, <1>18, <1>19, <1>20, <1>21, <1>22, <1>23
     DEF Next, Work, OS

LEMMA Invariance == Spec => []IInv
BY InitInv, StepInv, PTL DEF Spec

-----------------------------------------------------------------------------
(* The state stays well formed, and no unreaped child of the panel is ever *)
(* taken for dead.                                                         *)
THEOREM TypeCorrect == Spec => []TypeOK
<1>1. IInv => TypeOK
  BY DEF IInv
<1> QED
  BY <1>1, Invariance, PTL

(* ManagedRunning is true of the panel's own processes only, however pids  *)
(* are recycled and whenever the panel is restarted.                       *)
THEOREM ManagedIsOursThm == Spec => []ManagedIsOurs
<1>1. IInv => ManagedIsOurs
  BY ManagedExact DEF IInv, ManagedIsOurs
<1> QED
  BY <1>1, Invariance, PTL

(* At most one recorded sing-box runs, at every moment of every call.      *)
THEOREM NoSecondSingboxThm == Spec => []NoSecondSingbox
<1>1. IInv => NoSecondSingbox
  <2> SUFFICES ASSUME IInv, NEW p \in Pid, NEW q \in Pid,
                      procs[p] = "run", procs[q] = "run",
                      p \notin orphans, q \notin orphans
               PROVE  p = q
    BY DEF NoSecondSingbox
  <2> DEFINE InHand(x) == \E r \in Req : pc[r] = "record" /\ rpid[r] = x
  <2>1. (pidFile = p \/ InHand(p)) /\ (pidFile = q \/ InHand(q))
    BY DEF IInv, TrackInv
  <2>2. InHand(p) /\ InHand(q) => p = q
    \* Only the holder of the mutex is at "record".
    BY DEF IInv, MutexInv
  <2>3. InHand(p) /\ pidFile = q => p = q
    BY DEF IInv, StartInv, Running
  <2>4. InHand(q) /\ pidFile = p => p = q
    BY DEF IInv, StartInv, Running
  <2> QED
    BY <2>1, <2>2, <2>3, <2>4
<1> QED
  BY <1>1, Invariance, PTL

(* What NoDuplicateStart needs: the pid of every spawned sing-box is        *)
(* recorded, by writePid's success and a panel that lives to call it.      *)
THEOREM NoDuplicateStartThm == Spec /\ [][orphans' = {}]_vars => []NoDuplicateStart
<1> DEFINE Recorded == orphans = {}
<1>1. Init => Recorded
  BY DEF Init
<1>2. Recorded /\ [orphans' = {}]_vars => Recorded'
  BY DEF vars
<1>3. NoSecondSingbox /\ Recorded => NoDuplicateStart
  BY DEF NoSecondSingbox, NoDuplicateStart
<1> HIDE DEF Recorded
<1> QED
  BY <1>1, <1>2, <1>3, NoSecondSingboxThm, PTL DEF Spec

(* Between calls every recorded sing-box that runs is seen and can be      *)
(* stopped by the panel.                                                   *)
THEOREM NoLostSingboxThm == Spec => []NoLostSingbox
<1>1. IInv => NoLostSingbox
  <2> SUFFICES ASSUME IInv, mu = NoReq, NEW p \in Pid, procs[p] = "run", p \notin orphans
               PROVE  pidFile = p /\ ManagedRunning
    BY DEF NoLostSingbox
  <2>1. \A r \in Req : pc[r] # "record"
    BY ConstantsAssumption DEF ConstantsAssumption, IInv, MutexInv
  <2>2. pidFile = p
    BY <2>1 DEF IInv, TrackInv
  <2> QED
    BY <2>2, ManagedExact DEF IInv, Running
<1> QED
  BY <1>1, Invariance, PTL

(* With pids not recycled under a waiting Stop, it signals the panel's     *)
(* sing-box or nothing.                                                    *)
THEOREM SignalsOnlyOursThm ==
  ASSUME ~PidReuseInCall PROVE Spec => []SignalsOnlyOurs
<1>1. IInv => SignalsOnlyOurs
  BY DEF IInv, StopInv, SignalsOnlyOurs
<1> QED
  BY <1>1, Invariance, PTL

(* With the binary in place, success of start, restart or apply means that *)
(* the config on file is in force.                                         *)
THEOREM SuccessMeansInForceThm ==
  ASSUME ~BinMayVanish PROVE Spec => []SuccessMeansInForce
<1>1. IInv => SuccessMeansInForce
  BY DEF IInv, DoneInv, Running, SuccessMeansInForce
<1> QED
  BY <1>1, Invariance, PTL

(* A config the checker refuses never takes the running sing-box down.     *)
THEOREM RefusedConfigThm == Spec => []RefusedConfigLeavesProcess
<1>1. IInv => RefusedConfigLeavesProcess
  BY DEF IInv, ApplyInv, RefusedConfigLeavesProcess
<1> QED
  BY <1>1, Invariance, PTL

-----------------------------------------------------------------------------
(* Every step of the process control is Write, Launch or Down of           *)
(* ManagedSingbox, or leaves the config file and the controlled sing-box   *)
(* alone.                                                                  *)
LEMMA ContractStep == IInv /\ [Next]_vars => [Contract!Next]_<<configFile, Up>>
<1> SUFFICES ASSUME IInv, [Next]_vars
             PROVE  Contract!Next \/ UNCHANGED <<configFile, Up>>
  OBVIOUS
<1> DEFINE Allowed == Contract!Next \/ UNCHANGED <<configFile, Up>>
<1> USE ConstantsAssumption DEF ConstantsAssumption, IInv, TypeOK, osVars, pmVars, callVars
<1>1. ASSUME NEW r \in Req, Save(r) PROVE Allowed
  BY <1>1 DEF Save, ApplyInv, Up, Contract!Next, Contract!Write
<1>2. ASSUME UNCHANGED <<procs, loaded, pidFile, configFile>> PROVE Allowed
  BY <1>2 DEF Up
\* The pid file may be removed or rewritten when what it names is not running.
<1>3. ASSUME UNCHANGED <<procs, loaded, configFile>>, ~Running(pidFile), ~Running(pidFile')
      PROVE  Allowed
  BY <1>3 DEF Up, Running
<1>4. ASSUME NEW r \in Req, StopGate(r) PROVE Allowed
  BY <1>2, <1>3, <1>4, ManagedExact DEF StopGate, Forget, Running
<1>5. ASSUME NEW r \in Req, StopKill(r) PROVE Allowed
  BY <1>5 DEF StopKill, ProcInv, Up, Contract!Next, Contract!Down
<1>6. ASSUME NEW r \in Req, StopClear(r) PROVE Allowed
  BY <1>2, <1>3, <1>6 DEF StopClear, StopInv, Running
<1>7. ASSUME NEW r \in Req, StartSpawn(r) PROVE Allowed
  \* A launch already here when a stale pid file names the recycled pid.
  BY <1>7 DEF StartSpawn, StartInv, Running, Up, Contract!Next, Contract!Launch
<1>8. ASSUME NEW r \in Req, StartRecord(r) PROVE Allowed
  BY <1>8 DEF StartRecord, StartInv, ProcInv, Running, Up, Contract!Next,
     Contract!Launch, Contract!Down
<1>9. ASSUME NEW r \in Req, StartSettle(r) PROVE Allowed
  BY <1>2, <1>3, <1>9 DEF StartSettle, Forget, StartInv, ProcInv, Alive, Running
<1>10. ASSUME NEW p \in Pid, SingboxExit(p) PROVE Allowed
  BY <1>10 DEF SingboxExit, ProcInv, Up, Contract!Next, Contract!Down
<1>11. ASSUME NEW p \in Pid, Reap(p) \/ OtherStart(p) \/ OtherExit(p) PROVE Allowed
  BY <1>11 DEF Reap, OtherStart, OtherExit, Up
<1>12. ASSUME PanelRestart PROVE Allowed
  BY <1>12 DEF PanelRestart, StartInv, ProcInv, Running, Up, Contract!Next, Contract!Down
<1>13. ASSUME NEW r \in Req,
              \/ Call(r) \/ Acquire(r) \/ ApplyGate(r) \/ ApplyCheck(r) \/ StopTerm(r)
              \/ StopPoll(r) \/ StartResolve(r) \/ StartGate(r) \/ StartCheck(r) \/ Release(r)
       PROVE  Allowed
  BY <1>2, <1>13 DEF Call, Acquire, ApplyGate, ApplyCheck, StopTerm, StopPoll,
     StartResolve, StartGate, StartCheck, Release
<1>14. CASE UNCHANGED vars
  BY <1>2, <1>14 DEF vars
<1> QED
  BY <1>1, <1>4, <1>5, <1>6, <1>7, <1>8, <1>9, <1>10, <1>11, <1>12, <1>13, <1>14
     DEF Next, Work, OS

(* The detailed process control implements ManagedSingbox: seen from       *)
(* outside, sing-box is launched from down with the valid config on file.  *)
THEOREM ImplementsContractThm == Spec => ImplementsContract
<1>1. Init => Contract!Init
  BY ConstantsAssumption DEF ConstantsAssumption, Init, Contract!Init, Up
<1> QED
  BY <1>1, ContractStep, Invariance, PTL DEF Spec, Contract!Spec, ImplementsContract

-----------------------------------------------------------------------------
(* What a caller of Stop may rely on.                                      *)

(* Once Stop has answered, with success or that nothing ran, no sing-box   *)
(* the panel recorded is running, and none starts until it has returned.   *)
StopMeansStopped ==
  \A r \in Req :
    pc[r] = "done" /\ op[r] = "stop" /\ ret[r] \in {"ok", "notRunning"} =>
      \A p \in Pid : procs[p] = "run" => p \in orphans

StopDone ==
  \A r \in Req : op[r] = "stop" =>
    /\ pc[r] \in {"stopGate", "term", "poll", "kill", "clear", "done"}
    /\ pc[r] = "done" /\ ret[r] \in {"ok", "notRunning"} => ~Running(pidFile)

LEMMA StepStopDone == IInv /\ StopDone /\ [Next]_vars => StopDone'
<1> SUFFICES ASSUME IInv, StopDone, [Next]_vars PROVE StopDone'
  OBVIOUS
<1> USE ConstantsAssumption DEF ConstantsAssumption, IInv, TypeOK, StopDone, Running, osVars,
    pmVars, callVars
\* Only the holder is at work: every other call is idle or waits for the mutex.
<1>1. ASSUME NEW r \in Req, pc[r] \notin {"idle", "lock"}, NEW q \in Req, q # r
      PROVE  op[q] = "none"
  BY <1>1 DEF MutexInv
<1>2. ASSUME NEW r \in Req, StopGate(r) PROVE StopDone'
  <2>1. CASE ManagedRunning
    BY <1>1, <1>2, <2>1 DEF StopGate, Goto
  <2>2. CASE ~ManagedRunning
    BY <1>1, <1>2, <2>2, ManagedExact DEF StopGate, Forget, Goto, Return, AfterStop
  <2> QED
    BY <2>1, <2>2
<1>3. ASSUME NEW r \in Req, StopClear(r) PROVE StopDone'
  BY <1>1, <1>3 DEF StopClear, Goto, Return, AfterStop
\* A call that is no stop disturbs no other.
<1>4. ASSUME NEW r \in Req, pc[r] \notin {"idle", "lock"}, op[r] # "stop",
             UNCHANGED op
      PROVE  StopDone'
  BY <1>1, <1>4
<1>5. ASSUME NEW r \in Req,
             \/ ApplyGate(r) \/ ApplyCheck(r) \/ Save(r) \/ StartResolve(r) \/ StartGate(r)
             \/ StartCheck(r) \/ StartSpawn(r) \/ StartRecord(r) \/ StartSettle(r)
      PROVE  StopDone'
  <2>1. pc[r] \notin {"idle", "lock", "stopGate", "term", "poll", "kill", "clear", "done"}
        /\ UNCHANGED op
    BY <1>5 DEF ApplyGate, ApplyCheck, Save, StartResolve, StartGate, StartCheck, StartSpawn,
       StartRecord, StartSettle
  <2>2. op[r] # "stop"
    BY <2>1
  <2> QED
    BY <1>4, <2>1, <2>2
<1>6. ASSUME NEW r \in Req, StopTerm(r) \/ StopPoll(r) \/ StopKill(r) \/ Release(r)
      PROVE  StopDone'
  BY <1>1, <1>6 DEF StopTerm, StopPoll, StopKill, Release, Goto
<1>7. ASSUME NEW r \in Req, Call(r) \/ Acquire(r) PROVE StopDone'
  BY <1>7 DEF Call, Acquire, Goto, Entry, MutexInv
<1>8. ASSUME NEW p \in Pid, OS(p) PROVE StopDone'
  BY <1>8 DEF OS, SingboxExit, Reap, OtherStart, OtherExit
<1>9. CASE PanelRestart
  BY <1>9 DEF PanelRestart
<1>10. CASE UNCHANGED vars
  BY <1>10 DEF vars
<1> QED
  BY <1>2, <1>3, <1>5, <1>6, <1>7, <1>8, <1>9, <1>10 DEF Next, Work

(* A sing-box may be launched the moment Stop has returned, and none was   *)
(* left behind: no caller of Stop is told "stopped" too early.             *)
THEOREM StopMeansStoppedThm == Spec => []StopMeansStopped
<1>1. Init => StopDone
  BY DEF Init, StopDone
<1>2. IInv /\ StopDone => StopMeansStopped
  BY DEF IInv, TrackInv, MutexInv, StopDone, StopMeansStopped, Running
<1> QED
  BY <1>1, <1>2, Invariance, StepStopDone, PTL DEF Spec

-----------------------------------------------------------------------------
(* What the answer of ManagedRunning may change with.                      *)

(* Only a launch makes a sing-box managed: no exit, reaping, recycled pid, *)
(* restart of the panel or failed removal brings back one that was gone.   *)
OnlyLaunchesManage ==
  [][~ManagedRunning /\ ManagedRunning' => \E r \in Req : StartSpawn(r) \/ StartRecord(r)]_vars

LEMMA StepManaged ==
  ASSUME IInv, [Next]_vars, ~ManagedRunning, ~\E r \in Req : StartSpawn(r) \/ StartRecord(r)
  PROVE  ~ManagedRunning'
<1> USE ConstantsAssumption DEF ConstantsAssumption, IInv, TypeOK, osVars, pmVars
<1>1. ASSUME UNCHANGED <<procs, exited, pidFile, ownPid>> PROVE ~ManagedRunning'
  BY <1>1 DEF ManagedRunning, Alive, CommandLineIsOurs
<1>2. ASSUME ownPid' = NoPid, pidFile' \in {pidFile, NoPid}, UNCHANGED <<procs, exited>>
      PROVE  ~ManagedRunning'
  BY <1>2 DEF ManagedRunning, Alive, CommandLineIsOurs
<1>3. ASSUME NEW r \in Req, StopKill(r) PROVE ~ManagedRunning'
  BY <1>3 DEF StopKill, ManagedRunning, Alive, CommandLineIsOurs
<1>4. ASSUME NEW r \in Req, StopGate(r) \/ StopClear(r) \/ StartSettle(r) PROVE ~ManagedRunning'
  BY <1>1, <1>2, <1>4 DEF StopGate, StopClear, StartSettle, Forget
<1>5. ASSUME NEW r \in Req,
             \/ Call(r) \/ Acquire(r) \/ Save(r) \/ ApplyGate(r) \/ ApplyCheck(r) \/ StopTerm(r)
             \/ StopPoll(r) \/ StartResolve(r) \/ StartGate(r) \/ StartCheck(r) \/ Release(r)
      PROVE  ~ManagedRunning'
  BY <1>1, <1>5 DEF Call, Acquire, Save, ApplyGate, ApplyCheck, StopTerm, StopPoll,
     StartResolve, StartGate, StartCheck, Release
<1>6. ASSUME NEW p \in Pid, SingboxExit(p) \/ Reap(p) \/ OtherExit(p) PROVE ~ManagedRunning'
  BY <1>6 DEF SingboxExit, Reap, OtherExit, ManagedRunning, Alive, CommandLineIsOurs
<1>7. ASSUME NEW p \in Pid, OtherStart(p) PROVE ~ManagedRunning'
  \* A free pid that is the panel's own has been reaped, and is marked exited.
  <2>1. ownPid = p => p \in exited
    BY <1>7 DEF OtherStart, ProcInv
  <2> QED
    BY <1>7, <2>1 DEF OtherStart, ManagedRunning, Alive, CommandLineIsOurs
<1>8. CASE PanelRestart
  \* The marks of exited children are lost, but none of them is a sing-box.
  BY <1>8 DEF PanelRestart, ProcInv, ManagedRunning, Alive, CommandLineIsOurs
<1>9. CASE UNCHANGED vars
  BY <1>1, <1>9 DEF vars
<1> QED
  BY <1>3, <1>4, <1>5, <1>6, <1>7, <1>8, <1>9 DEF Next, Work, OS

(* A stale pid file never makes the panel see a sing-box that none of its  *)
(* calls launched.                                                         *)
THEOREM OnlyLaunchesManageThm == Spec => OnlyLaunchesManage
<1>1. IInv /\ [Next]_vars =>
        [~ManagedRunning /\ ManagedRunning' => \E r \in Req : StartSpawn(r) \/ StartRecord(r)]_vars
  BY StepManaged
<1> QED
  BY <1>1, Invariance, PTL DEF Spec, OnlyLaunchesManage

-----------------------------------------------------------------------------
(* Calls end, up to the fairness of their steps.                           *)

StepsLeft(r) ==
  CASE pc[r] = "lock"     -> 16 [] pc[r] = "save"      -> 15 [] pc[r] = "gate"   -> 14
    [] pc[r] = "precheck" -> 13 [] pc[r] = "stopGate"  -> 12 [] pc[r] = "term"   -> 11
    [] pc[r] = "poll"     -> 10 [] pc[r] = "kill"      -> 9  [] pc[r] = "clear"  -> 8
    [] pc[r] = "resolve"  -> 7  [] pc[r] = "startGate" -> 6  [] pc[r] = "check"  -> 5
    [] pc[r] = "spawn"    -> 4  [] pc[r] = "record"    -> 3  [] pc[r] = "settle" -> 2
    [] pc[r] = "done"     -> 1  [] OTHER -> 0

(* Every step of a call brings it nearer to its return, and nothing that   *)
(* sing-box, the system or the other callers do sets it back; who holds    *)
(* the mutex has a step to take, so that a waiter waits for no dead holder.*)
CallsCountDown ==
  /\ [](mu \in Req => StepsLeft(mu) \in 1..15)
  /\ [][\A r \in Req : /\ StepsLeft(r)' <= StepsLeft(r) \/ Call(r)
                       /\ Acquire(r) \/ Work(r) => StepsLeft(r)' < StepsLeft(r)]_vars

LEMMA CountDownStep ==
  ASSUME IInv, [Next]_vars, NEW r \in Req
  PROVE  /\ StepsLeft(r)' <= StepsLeft(r) \/ Call(r)
         /\ Acquire(r) \/ Work(r) => StepsLeft(r)' < StepsLeft(r)
<1>1. pc \in [Req -> Loc]
  BY DEF IInv, TypeOK
<1>2. StepsLeft(r) \in 0..16 /\ StepsLeft(r)' \in 0..16
  BY DEF StepsLeft
<1> USE DEF Goto, Return
<1>3. Acquire(r) => StepsLeft(r)' < StepsLeft(r)
  BY <1>1 DEF Acquire, Entry, StepsLeft
<1>4. Save(r) \/ ApplyGate(r) \/ ApplyCheck(r) => StepsLeft(r)' < StepsLeft(r)
  BY <1>1 DEF Save, ApplyGate, ApplyCheck, StepsLeft
<1>5. StopGate(r) \/ StopTerm(r) \/ StopPoll(r) => StepsLeft(r)' < StepsLeft(r)
  BY <1>1 DEF StopGate, StopTerm, StopPoll, AfterStop, StepsLeft
<1>6. StopKill(r) \/ StopClear(r) => StepsLeft(r)' < StepsLeft(r)
  BY <1>1 DEF StopKill, StopClear, AfterStop, StepsLeft
<1>7. StartResolve(r) \/ StartGate(r) \/ StartCheck(r) => StepsLeft(r)' < StepsLeft(r)
  BY <1>1 DEF StartResolve, StartGate, StartCheck, StepsLeft
<1>8. StartSpawn(r) \/ StartRecord(r) \/ StartSettle(r) \/ Release(r) => StepsLeft(r)' < StepsLeft(r)
  BY <1>1 DEF StartSpawn, StartRecord, StartSettle, Release, StepsLeft
<1>9. Acquire(r) \/ Work(r) => StepsLeft(r)' < StepsLeft(r)
  BY <1>3, <1>4, <1>5, <1>6, <1>7, <1>8 DEF Work
<1>10. ASSUME NEW q \in Req, q # r, Call(q) \/ Acquire(q) \/ Work(q) PROVE pc'[r] = pc[r]
  <2>1. \E l : pc' = [pc EXCEPT ![q] = l]
    BY <1>10 DEF Call, Acquire, Work, Save, ApplyGate, ApplyCheck, StopGate, StopTerm, StopPoll,
       StopKill, StopClear, StartResolve, StartGate, StartCheck, StartSpawn, StartRecord,
       StartSettle, Release
  <2> QED
    BY <1>1, <1>10, <2>1
<1>11. ASSUME NEW p \in Pid, OS(p) PROVE pc' = pc
  BY <1>11 DEF OS, SingboxExit, Reap, OtherStart, OtherExit
<1>12. PanelRestart \/ UNCHANGED vars => pc'[r] \in {pc[r], "idle"}
  BY DEF PanelRestart, vars
<1>13. pc'[r] \in {pc[r], "idle"} => StepsLeft(r)' <= StepsLeft(r)
  <2>1. pc'[r] = pc[r] => StepsLeft(r)' = StepsLeft(r)
    BY DEF StepsLeft
  <2>2. pc'[r] = "idle" => StepsLeft(r)' = 0
    BY DEF StepsLeft
  <2> QED
    BY <1>2, <2>1, <2>2
<1>14. Acquire(r) \/ Work(r) => StepsLeft(r)' <= StepsLeft(r)
  BY <1>2, <1>9
<1> QED
  BY <1>9, <1>10, <1>11, <1>12, <1>13, <1>14 DEF Next

(* For any number of callers and pids a call takes at most sixteen steps,  *)
(* and while one waits for the mutex another can go on.                    *)
THEOREM CallsCountDownThm == Spec => CallsCountDown
<1>1. IInv => (mu \in Req => StepsLeft(mu) \in 1..15)
  <2> SUFFICES ASSUME IInv, mu \in Req PROVE StepsLeft(mu) \in 1..15
    OBVIOUS
  <2>1. pc[mu] \in Loc \ {"idle", "lock"}
    BY DEF IInv, TypeOK, MutexInv
  <2> QED
    BY <2>1 DEF Loc, StepsLeft
<1>2. IInv /\ [Next]_vars =>
        [\A r \in Req : /\ StepsLeft(r)' <= StepsLeft(r) \/ Call(r)
                        /\ Acquire(r) \/ Work(r) => StepsLeft(r)' < StepsLeft(r)]_vars
  BY CountDownStep
<1> QED
  BY <1>1, <1>2, Invariance, PTL DEF Spec, CallsCountDown
=============================================================================
