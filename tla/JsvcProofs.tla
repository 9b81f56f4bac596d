----------------------------- MODULE JsvcProofs -----------------------------
(***************************************************************************)
(* The supervisor for any number of starts, stops and processes, and any   *)
(* number of crashes, signals and reused pids: what the pid file           *)
(* guarantees, and the one way in which the guarantee is lost.             *)
(***************************************************************************)
EXTENDS Jsvc, TLAPS

ConstantFacts == /\ NoInstance \notin Instances
                 /\ NoPid \notin Pids
                 /\ NoInode \notin Inodes
                 /\ MaxCrashes \in Nat /\ MaxSignals \in Nat /\ MaxStrangers \in Nat

LEMMA Constants == ConstantFacts
BY InstancesAssumption, PidsAssumption, InodesAssumption, BoundsAssumption DEF ConstantFacts

----------------------------------------------------------------------------
(* The inductive invariant.                                                *)

(* A process that has opened the pid file and not been waited for.         *)
Using(p) == pc[p] \in Checking \cup JvmUp

(* A process past check_pid: its pid may be in the file, and it will never *)
(* write it again.                                                         *)
Past(p) == pc[p] \in JvmUp \cup {"zombie", "gone", "stranger"}

(* A controller past fork has a child; past waitpid it has lost it.        *)
KidOK == \A i \in Instances :
  /\ cpc[i] \in {"arm", "wait", "unlink"} => kid[i] \in Pids
  /\ cpc[i] = "unlink" => pc[kid[i]] \in {"gone", "stranger"}
  /\ cpc[i] = "ended" /\ outcome[i] \in {"ok", "failed"}
       => kid[i] \in Pids /\ pc[kid[i]] \in {"gone", "stranger"} /\ Named # kid[i]

(* Users of the file have an inode, and the lock while they check it.      *)
LockOK == \A p \in Pids :
  /\ Using(p) => ino[p] \in Inodes
  /\ pc[p] \in {"read", "write"} => lock[ino[p]] = p

(* A running child's pid is what its inode holds; nobody is about to       *)
(* overwrite it.                                                           *)
DataOK == \A p \in Pids : Holds(p) =>
  /\ data[ino[p]] = p
  /\ \A q \in Pids : pc[q] = "write" => ino[q] # ino[p]

(* Until an unlink hits a file in use, the users all use the same one.     *)
PathOK == torn = {} => \A p \in Pids : Using(p) => ino[p] = file

(* Only pids of processes past check_pid are in a file or get a signal.    *)
PastOK == /\ \A n \in Inodes : data[n] # NoPid => Past(data[n])
          /\ \A s \in Stoppers : spc[s] \in {"kill", "poll", "stopped"}
                                   => victim[s] \in Pids /\ Past(victim[s])

IInv == TypeOK /\ KidOK /\ LockOK /\ DataOK /\ PathOK /\ PastOK /\ StoppedIsDead

(* The initial state satisfies it.                                         *)
LEMMA InitIInv == Init => IInv
BY Constants DEF ConstantFacts, Init, IInv, TypeOK, Statuses, KidOK, LockOK, DataOK, PathOK,
  PastOK, StoppedIsDead, Using, Past, Holds, Named, Children, JvmUp, PreVM, Checking

(* What the steps around an exit or a signal may do besides.               *)
Around == /\ UNCHANGED <<ctlVars, owner, prior, ino, file, data, up, waitVars, victim>>
          /\ UNCHANGED <<torn, strangers>>
          /\ crashes' \in 0..MaxCrashes /\ signals' \in 0..MaxSignals
          /\ spc' \in [Stoppers -> {"idle", "kill", "poll", "stopped", "failed"}]
          /\ \A s \in Stoppers : spc'[s] # spc[s] => spc[s] = "kill" /\ spc'[s] = "poll"

(* A child that ends keeps the invariant, whatever ends it.                *)
LEMMA ExitStep ==
  ASSUME IInv, NEW p \in Pids, NEW how \in Statuses, pc[p] \in Children, Exit(p, how),
         UNCHANGED asked, Around
  PROVE  IInv'
<1> USE Constants DEF IInv, KidOK, LockOK, DataOK, PathOK, PastOK, StoppedIsDead, Using,
      Past, Holds, Running, Named, Alive, TypeOK, Statuses, Children, JvmUp, PreVM,
      Checking, ConstantFacts
<1> USE DEF Exit, Around, ctlVars, waitVars
<1>1. TypeOK'
  OBVIOUS
<1>2. KidOK'
  OBVIOUS
<1>3. LockOK'
  OBVIOUS
<1>4. DataOK'
  OBVIOUS
<1>5. PathOK' /\ PastOK'
  OBVIOUS
<1>6. StoppedIsDead'
  OBVIOUS
<1>7. QED
  BY <1>1, <1>2, <1>3, <1>4, <1>5, <1>6

(* A signal, whatever it does to the process it reaches.                   *)
LEMMA DeliverStep ==
  ASSUME IInv, NEW p \in Pids \cup {NoPid}, NEW sig \in {"stop", "reload"},
         Deliver(p, sig), p \in Pids \/ UNCHANGED <<pc, asked, status, lock>>, Around
  PROVE  IInv'
<1> USE Constants DEF IInv, KidOK, LockOK, DataOK, PathOK, PastOK, StoppedIsDead, Using,
      Past, Holds, Running, Named, Alive, TypeOK, Statuses, Children, JvmUp, PreVM,
      Checking, ConstantFacts
<1>1. CASE UNCHANGED <<pc, asked, status, lock>>
  BY <1>1 DEF Around, ctlVars, waitVars
<1>2. CASE p \in Pids /\ pc[p] \in Children /\ UNCHANGED asked
           /\ \E how \in Statuses : Exit(p, how)
  <2>1. PICK how \in Statuses : Exit(p, how)
    BY <1>2
  <2> HIDE DEF IInv, Statuses
  <2>2. QED
    BY <1>2, <2>1, ExitStep
<1>3. CASE p \in Pids /\ pc[p] \in {"tmp", "run"} /\ UNCHANGED <<pc, status, lock>>
           /\ asked' = [asked EXCEPT ![p] = sig]
  BY <1>3 DEF Around, ctlVars, waitVars
<1>4. QED
  BY <1>1, <1>2, <1>3 DEF Deliver

(* Every step of a controller preserves the invariant.                     *)
LEMMA ControllerStep ==
  ASSUME IInv, NEW i \in Instances, Start(i) \/ Controller(i)
  PROVE  IInv'
<1> USE Constants DEF IInv, KidOK, LockOK, DataOK, PathOK, PastOK, StoppedIsDead, Using,
      Past, Holds, Running, Named, Alive, TypeOK, Statuses, Children, JvmUp, PreVM,
      Checking, ConstantFacts
<1>1. CASE Start(i)
  BY <1>1 DEF Start, envVars, fileVars, procVars, stopVars
<1>2. CASE Fork(i)
  BY <1>2 DEF Fork, envVars, fileVars, stopVars, waitVars
<1>3. CASE ForkFails(i)
  BY <1>3 DEF ForkFails, envVars, fileVars, procVars, stopVars, waitVars
<1>4. CASE Arm(i)
  BY <1>4 DEF Arm, envVars, fileVars, procVars, stopVars, waitVars
<1>5. CASE Reap(i)
  BY <1>5, SMTT(30) DEF Reap, envVars, fileVars, stopVars, waitVars
<1>6. CASE Unlink(i)
  <2> USE <1>6 DEF Unlink, envVars, procVars, stopVars, waitVars
  <2>1. TypeOK'
    OBVIOUS
  <2>2. KidOK'
    OBVIOUS
  <2>3. LockOK' /\ DataOK' /\ PastOK'
    OBVIOUS
  <2>4. PathOK'
    OBVIOUS
  <2>5. StoppedIsDead'
    OBVIOUS
  <2>6. QED
    BY <2>1, <2>2, <2>3, <2>4, <2>5
<1>7. QED
  BY <1>1, <1>2, <1>3, <1>4, <1>5, <1>6 DEF Controller

(* Waiting parents only read.                                              *)
LEMMA WaiterStep ==
  ASSUME IInv, NEW i \in Instances, Waiter(i)
  PROVE  IInv'
<1> USE Constants DEF IInv, KidOK, LockOK, DataOK, PathOK, PastOK, StoppedIsDead, Using,
      Past, Holds, Running, Named, Alive, TypeOK, Statuses, Children, JvmUp, PreVM,
      Checking, ConstantFacts
<1>1. CASE WaitLeft(i)
  BY <1>1 DEF WaitLeft, WaitFrame, ctlVars, envVars, fileVars, procVars,
    stopVars
<1>2. CASE WaitPoll(i) \/ WaitRead(i)
  BY <1>2 DEF WaitPoll, WaitRead, WaitFrame, ctlVars, envVars, fileVars, procVars,
    stopVars
<1>3. CASE WaitTmp(i)
  BY <1>3 DEF WaitTmp, WaitFrame, ctlVars, envVars, fileVars, procVars,
    stopVars
<1>4. CASE WaitReady(i)
  BY <1>4 DEF WaitReady, WaitFrame, ctlVars, envVars, fileVars, procVars,
    stopVars
<1>5. CASE WaitGiveUp(i)
  BY <1>5 DEF WaitGiveUp, WaitFrame, ctlVars, envVars, fileVars,
    procVars, stopVars
<1>6. QED
  BY <1>1, <1>2, <1>3, <1>4, <1>5 DEF Waiter

(* Every step of a child, from check_pid to its exit.                      *)
LEMMA ChildStep ==
  ASSUME IInv, NEW p \in Pids, Child(p)
  PROVE  IInv'
<1> USE Constants DEF IInv, KidOK, LockOK, DataOK, PathOK, PastOK, StoppedIsDead, Using,
      Past, Holds, Running, Named, Alive, TypeOK, Statuses, Children, JvmUp, PreVM,
      Checking, ConstantFacts
<1>1. CASE OpenPidFile(p)
  <2> USE <1>1 DEF OpenPidFile, ChildFrame, ctlVars, envVars, stopVars, waitVars
  <2>1. TypeOK'
    OBVIOUS
  <2>2. KidOK'
    OBVIOUS
  <2>3. LockOK'
    OBVIOUS
  <2>4. DataOK'
    OBVIOUS
  <2>5. PathOK'
    OBVIOUS
  <2>6. PastOK'
    OBVIOUS
  <2>7. StoppedIsDead'
    OBVIOUS
  <2>8. QED
    BY <2>1, <2>2, <2>3, <2>4, <2>5, <2>6, <2>7
<1>2. CASE LockPidFile(p)
  BY <1>2 DEF LockPidFile, ChildFrame, ctlVars, envVars, stopVars,
    waitVars
<1>3. CASE CheckPid(p)
  <2>1. CASE Exit(p, "running")
    BY <1>3, <2>1, ExitStep
    DEF CheckPid, Around, ChildFrame, ctlVars, envVars, stopVars, waitVars
  <2>2. CASE pc' = [pc EXCEPT ![p] = "write"] /\ ~Alive(data[ino[p]])
    BY <1>3, <2>2
    DEF CheckPid, Exit, ChildFrame, ctlVars, envVars, stopVars, waitVars
  <2>3. QED
    BY <1>3, <2>1, <2>2 DEF CheckPid
<1>4. CASE WritePid(p)
  BY <1>4 DEF WritePid, ChildFrame, ctlVars, envVars, stopVars, waitVars
<1>5. CASE InitJvm(p)
  BY <1>5 DEF InitJvm, ChildFrame, ctlVars, envVars, fileVars, stopVars,
    waitVars
<1>6. CASE StartService(p)
  BY <1>6 DEF StartService, ChildFrame, ctlVars, envVars, fileVars, stopVars,
    waitVars
<1>7. CASE FailStart(p)
  BY <1>7 DEF FailStart, Exit, ChildFrame, ctlVars, envVars, stopVars,
    waitVars
<1>8. CASE SetHandlers(p)
  BY <1>8 DEF SetHandlers, ChildFrame, ctlVars, envVars, fileVars,
    stopVars, waitVars
<1>9. CASE CreateTmpFile(p)
  BY <1>9 DEF CreateTmpFile, ChildFrame, ctlVars, envVars, stopVars,
    waitVars
<1>10. CASE LeaveLoop(p)
  BY <1>10 DEF LeaveLoop, ChildFrame, ctlVars, envVars, stopVars,
    waitVars
<1>11. CASE StopService(p)
  BY <1>11, SMTT(30) DEF StopService, Exit, ChildFrame, ctlVars, envVars, stopVars,
    waitVars
<1>12. CASE DestroyJvm(p)
  <2>1. PICK how \in {"reload", "ok", "failed"} : Exit(p, how)
    BY <1>12 DEF DestroyJvm
  <2>2. QED
    BY <1>12, <2>1, ExitStep
    DEF DestroyJvm, Around, ChildFrame, ctlVars, envVars, stopVars, waitVars
<1>13. QED
  BY <1>1, <1>2, <1>3, <1>4, <1>5, <1>6, <1>7, <1>8, <1>9, <1>10, <1>11, <1>12 DEF Child

(* jsvc -stop.                                                             *)
LEMMA StopperStep ==
  ASSUME IInv, NEW s \in Stoppers, Stopper(s)
  PROVE  IInv'
<1> USE Constants DEF IInv, KidOK, LockOK, DataOK, PathOK, PastOK, StoppedIsDead, Using,
      Past, Holds, Running, Named, Alive, TypeOK, Statuses, Children, JvmUp, PreVM,
      Checking, ConstantFacts
<1>1. CASE StopRead(s)
  BY <1>1 DEF StopRead, StopFrame, ctlVars, envVars, waitVars
<1>2. CASE StopKill(s)
  BY <1>2, DeliverStep, SMTT(30)
  DEF StopKill, Around, StopFrame, ctlVars, envVars, waitVars
<1>3. CASE StopDone(s)
  BY <1>3 DEF StopDone, StopFrame, ctlVars, envVars, waitVars
<1>4. CASE StopGiveUp(s)
  BY <1>4 DEF StopGiveUp, StopFrame, ctlVars, envVars, waitVars
<1>5. QED
  BY <1>1, <1>2, <1>3, <1>4 DEF Stopper

(* The environment: signals, crashes, other programs.                      *)
LEMMA EnvironmentStep ==
  ASSUME IInv, Environment \/ \E p \in Pids : InitReaps(p)
  PROVE  IInv'
<1> USE Constants DEF IInv, KidOK, LockOK, DataOK, PathOK, PastOK, StoppedIsDead, Using,
      Past, Holds, Running, Named, Alive, TypeOK, Statuses, Children, JvmUp, PreVM,
      Checking, ConstantFacts
<1>1. ASSUME NEW p \in Pids, NEW sig \in {"stop", "reload"}, SignalChild(p, sig)
      PROVE  IInv'
  <2>1. Around
    BY <1>1 DEF SignalChild, Around, ctlVars, stopVars, waitVars
  <2>2. Deliver(p, sig)
    BY <1>1 DEF SignalChild
  <2> HIDE DEF IInv, Around
  <2>3. QED
    BY <2>1, <2>2, DeliverStep
<1>2. ASSUME NEW i \in Instances, NEW sig \in {"stop", "reload"}, SignalController(i, sig)
      PROVE  IInv'
  <2> USE <1>2 DEF SignalController, stopVars, waitVars
  <2>1. CASE fwd[i] # NoPid /\ UNCHANGED cpc
    BY <2>1, DeliverStep DEF Around, ctlVars
  <2>2. CASE cpc' = [cpc EXCEPT ![i] = "killed"] /\ UNCHANGED <<pc, asked, status, lock>>
    BY <2>2
  <2>3. QED
    BY <2>1, <2>2
<1>3. ASSUME NEW p \in Pids, Crash(p) PROVE IInv'
  BY <1>3, ExitStep, SMTT(30) DEF Crash, Around, ctlVars, stopVars, waitVars
<1>4. ASSUME NEW i \in Instances, KillController(i) PROVE IInv'
  BY <1>4 DEF KillController, fileVars, procVars, stopVars, waitVars
<1>5. ASSUME NEW p \in Pids, InitReaps(p) PROVE IInv'
  BY <1>5 DEF InitReaps, ctlVars, envVars, fileVars, stopVars, waitVars
<1>6. ASSUME NEW p \in Pids, Stranger(p) PROVE IInv'
  BY <1>6, SMTT(30) DEF Stranger, ctlVars, fileVars, stopVars, waitVars
<1> HIDE DEF IInv
<1>7. QED
  BY <1>1, <1>2, <1>3, <1>4, <1>5, <1>6 DEF Environment

(* Every step of the system.                                               *)
LEMMA NextIInv == IInv /\ [Next]_vars => IInv'
<1>1. CASE UNCHANGED vars
  BY <1>1 DEF vars, ctlVars, procVars, fileVars, waitVars, stopVars, envVars,
    IInv, TypeOK, KidOK, LockOK, DataOK, PathOK, PastOK, StoppedIsDead, Using, Past, Holds, Named
<1>2. CASE Next
  BY <1>2, ControllerStep, WaiterStep, ChildStep, StopperStep, EnvironmentStep DEF Next
<1>3. QED
  BY <1>1, <1>2

(* The supervisor keeps the invariant: its types, the locks and contents   *)
(* of the pid file, and what a stop command has signalled.                 *)
THEOREM Invariance == Spec => []IInv
BY InitIInv, NextIInv, PTL DEF Spec

(* All variables always have their types.                                  *)
THEOREM TypeCorrect == Spec => []TypeOK
BY Invariance, PTL DEF IInv

(* check_pid is exclusive for one file (see OneServicePerFile).            *)
THEOREM FileExclusion == Spec => []OneServicePerFile
<1>1. IInv => OneServicePerFile
  BY DEF IInv, DataOK, OneServicePerFile
<1>2. QED
  BY <1>1, Invariance, PTL

(* One service per path until an unlink hits a file in use (see            *)
(* OneServiceUnlessTorn).                                                  *)
THEOREM PathExclusion == Spec => []OneServiceUnlessTorn
<1>1. IInv => OneServiceUnlessTorn
  BY DEF IInv, DataOK, PathOK, Using, Holds, OneServiceUnlessTorn
<1>2. QED
  BY <1>1, Invariance, PTL

(* A successful jsvc -stop leaves no JVM in the process it signalled (see  *)
(* StoppedIsDead).                                                         *)
THEOREM StopSound == Spec => []StoppedIsDead
BY Invariance, PTL DEF IInv

(* A controller that ends leaves no pid of its own (see EndLeavesNoPid).   *)
THEOREM EndSound == Spec => []EndLeavesNoPid
<1>1. IInv => EndLeavesNoPid
  BY DEF IInv, KidOK, EndLeavesNoPid
<1>2. QED
  BY <1>1, Invariance, PTL

----------------------------------------------------------------------------
(* Generations: why a stop is the last request of a controller.            *)

(* A generation is followed by another one only after it has ended in a    *)
(* way run_controller restarts.                                            *)
Restarts(p) == pc[p] \in {"gone", "stranger"} /\ status[p] \in {"reload", "signal"}

GenOK ==
  /\ \A q \in Pids : prior[q] \in Pids => Restarts(prior[q])
  /\ \A i \in Instances :
       /\ cpc[i] = "idle" => fwd[i] = NoPid
       /\ cpc[i] \in {"fork", "arm"} /\ fwd[i] \in Pids => Restarts(fwd[i])
       /\ cpc[i] \in {"wait", "unlink"} => fwd[i] = kid[i]
       /\ cpc[i] = "unlink" => outcome[i] = status[kid[i]]

(* Requests are accepted in the loop only, and a child that has accepted a *)
(* stop does not end in a way that restarts it, unless it crashes.         *)
AskedOK == \A p \in Pids :
  /\ pc[p] \in Children \cup {"unused"} => status[p] = "none"
  /\ asked[p] # "none"
       => pc[p] \in {"tmp", "run", "quit", "destroy", "zombie", "gone", "stranger"}
  /\ asked[p] = "stop" /\ crashes = 0 => status[p] \notin {"reload", "signal"}

GInv == GenOK /\ AskedOK

(* Nothing has been asked, and nothing has ended, in the initial state.    *)
LEMMA InitGInv == Init => GInv
BY Constants DEF ConstantFacts, Init, GInv, GenOK, AskedOK, Restarts, Children, JvmUp,
  PreVM, Checking

(* Every step preserves it.                                                *)
LEMMA NextGInv == IInv /\ GInv /\ [Next]_vars => GInv'
<1> SUFFICES ASSUME IInv, GInv, [Next]_vars PROVE GInv'
  OBVIOUS
<1> USE Constants DEF GInv, GenOK, AskedOK, Restarts, IInv, KidOK, TypeOK, Statuses, Children,
        JvmUp, PreVM, Checking, ConstantFacts
<1>1. ASSUME NEW i \in Instances, Start(i) PROVE GInv'
  BY <1>1 DEF Start, envVars, fileVars, procVars, stopVars
<1>2. ASSUME NEW i \in Instances, Fork(i) PROVE GInv'
  BY <1>2 DEF Fork, envVars, fileVars, stopVars, waitVars
<1>3. ASSUME NEW i \in Instances, ForkFails(i) PROVE GInv'
  BY <1>3 DEF ForkFails, envVars, fileVars, procVars, stopVars, waitVars
<1>4. ASSUME NEW i \in Instances, Arm(i) PROVE GInv'
  BY <1>4 DEF Arm, envVars, fileVars, procVars, stopVars, waitVars
<1>5. ASSUME NEW i \in Instances, Reap(i) PROVE GInv'
  BY <1>5 DEF Reap, envVars, fileVars, stopVars, waitVars
<1>6. ASSUME NEW i \in Instances, Unlink(i) PROVE GInv'
  BY <1>6 DEF Unlink, envVars, procVars, stopVars, waitVars
<1>7. ASSUME NEW i \in Instances, KillController(i) PROVE GInv'
  BY <1>7 DEF KillController, fileVars, procVars, stopVars, waitVars
<1>8. ASSUME NEW i \in Instances, WaitLeft(i) PROVE GInv'
  BY <1>8 DEF WaitLeft, WaitFrame, ctlVars, envVars, fileVars, procVars,
    stopVars
<1>9. ASSUME NEW i \in Instances, WaitPoll(i) \/ WaitRead(i) PROVE GInv'
  BY <1>9 DEF WaitPoll, WaitRead, Running, Named, Alive, WaitFrame, ctlVars, envVars,
    fileVars, procVars, stopVars
<1>10. ASSUME NEW i \in Instances, WaitTmp(i) PROVE GInv'
  BY <1>10 DEF WaitTmp, Running, Named, Alive, WaitFrame, ctlVars, envVars,
    fileVars, procVars, stopVars
<1>11. ASSUME NEW i \in Instances, WaitReady(i) PROVE GInv'
  BY <1>11 DEF WaitReady, WaitFrame, ctlVars, envVars, fileVars,
    procVars, stopVars
<1>12. ASSUME NEW i \in Instances, WaitGiveUp(i) PROVE GInv'
  BY <1>12 DEF WaitGiveUp, WaitFrame, ctlVars, envVars, fileVars,
    procVars, stopVars
<1>13. ASSUME NEW p \in Pids, OpenPidFile(p) PROVE GInv'
  BY <1>13 DEF OpenPidFile, ChildFrame, ctlVars, envVars, stopVars,
    waitVars
<1>14. ASSUME NEW p \in Pids, LockPidFile(p) PROVE GInv'
  BY <1>14 DEF LockPidFile, ChildFrame, ctlVars, envVars, stopVars,
    waitVars
<1>15. ASSUME NEW p \in Pids, CheckPid(p) PROVE GInv'
  BY <1>15 DEF CheckPid, Exit, Alive, ChildFrame, ctlVars, envVars,
    stopVars, waitVars
<1>16. ASSUME NEW p \in Pids, WritePid(p) PROVE GInv'
  BY <1>16 DEF WritePid, ChildFrame, ctlVars, envVars, stopVars, waitVars
<1>17. ASSUME NEW p \in Pids, InitJvm(p) PROVE GInv'
  BY <1>17 DEF InitJvm, ChildFrame, ctlVars, envVars, fileVars, stopVars,
    waitVars
<1>18. ASSUME NEW p \in Pids, StartService(p) PROVE GInv'
  BY <1>18 DEF StartService, ChildFrame, ctlVars, envVars, fileVars, stopVars,
    waitVars
<1>19. ASSUME NEW p \in Pids, FailStart(p) PROVE GInv'
  BY <1>19 DEF FailStart, Exit, ChildFrame, ctlVars, envVars, stopVars,
    waitVars
<1>20. ASSUME NEW p \in Pids, SetHandlers(p) PROVE GInv'
  BY <1>20 DEF SetHandlers, ChildFrame, ctlVars, envVars, fileVars,
    stopVars, waitVars
<1>21. ASSUME NEW p \in Pids, CreateTmpFile(p) PROVE GInv'
  BY <1>21 DEF CreateTmpFile, ChildFrame, ctlVars, envVars, stopVars,
    waitVars
<1>22. ASSUME NEW p \in Pids, LeaveLoop(p) PROVE GInv'
  BY <1>22 DEF LeaveLoop, ChildFrame, ctlVars, envVars, stopVars,
    waitVars
<1>23. ASSUME NEW p \in Pids, StopService(p) PROVE GInv'
  BY <1>23 DEF StopService, Exit, ChildFrame, ctlVars, envVars, stopVars,
    waitVars
<1>24. ASSUME NEW p \in Pids, DestroyJvm(p) PROVE GInv'
  BY <1>24 DEF DestroyJvm, Exit, ChildFrame, ctlVars, envVars, stopVars,
    waitVars
<1>25. ASSUME NEW p \in Pids, Crash(p) PROVE GInv'
  BY <1>25 DEF Crash, Exit, ctlVars, stopVars, waitVars
<1>26. ASSUME NEW p \in Pids, InitReaps(p) PROVE GInv'
  BY <1>26 DEF InitReaps, ctlVars, envVars, fileVars, stopVars, waitVars
<1>27. ASSUME NEW p \in Pids, Stranger(p) PROVE GInv'
  BY <1>27 DEF Stranger, ctlVars, fileVars, stopVars, waitVars
<1>28. ASSUME NEW p \in Pids, NEW sig \in {"stop", "reload"}, SignalChild(p, sig) PROVE GInv'
  BY <1>28 DEF SignalChild, Deliver, Exit, ctlVars, stopVars, waitVars
<1>29. ASSUME NEW i \in Instances, NEW sig \in {"stop", "reload"}, SignalController(i, sig) PROVE GInv'
  BY <1>29 DEF SignalController, Deliver, Exit, stopVars, waitVars
<1>30. ASSUME NEW s \in Stoppers, StopRead(s) PROVE GInv'
  BY <1>30 DEF StopRead, Running, Named, Alive, StopFrame, ctlVars, envVars, waitVars
<1>31. ASSUME NEW s \in Stoppers, StopKill(s) PROVE GInv'
  BY <1>31 DEF StopKill, Deliver, Exit, StopFrame, ctlVars, envVars,
    waitVars
<1>32. ASSUME NEW s \in Stoppers, StopDone(s) PROVE GInv'
  BY <1>32 DEF StopDone, Running, Named, Alive, StopFrame, ctlVars, envVars, waitVars
<1>33. ASSUME NEW s \in Stoppers, StopGiveUp(s) PROVE GInv'
  BY <1>33 DEF StopGiveUp, Running, Named, Alive, StopFrame, ctlVars, envVars, waitVars
<1>34. CASE UNCHANGED vars
  BY <1>34 DEF vars, ctlVars, procVars, fileVars, waitVars, stopVars, envVars
<1> HIDE DEF GInv, IInv
<1>35. QED
  BY <1>1, <1>2, <1>3, <1>4, <1>5, <1>6, <1>7, <1>8, <1>9, <1>10, <1>11, <1>12,
    <1>13, <1>14, <1>15, <1>16, <1>17, <1>18, <1>19, <1>20, <1>21, <1>22, <1>23,
    <1>24, <1>25, <1>26, <1>27, <1>28, <1>29, <1>30, <1>31, <1>32, <1>33, <1>34 DEF
    Next, Controller, Child, Waiter, Stopper, Environment

(* A child that accepted a stop request has no successor unless something  *)
(* crashed (see StopEndsGenerations).                                      *)
THEOREM StopIsLast == Spec => []StopEndsGenerations
<1>1. GInv /\ IInv => StopEndsGenerations
  BY Constants DEF ConstantFacts, GInv, GenOK, AskedOK, Restarts, IInv, TypeOK, StopEndsGenerations
<1>2. QED
  BY <1>1, InitIInv, NextIInv, InitGInv, NextGInv, PTL DEF Spec
----------------------------------------------------------------------------
(* Readiness: what the jsvc_up files say of the processes they name.       *)

(* While nothing has crashed, a jsvc_up file is that of a JVM in its loop.  *)
UpOK == crashes = 0 => \A p \in up : pc[p] = "run"

(* A signal never takes a child out of its loop by itself.                 *)
LEMMA DeliverUp ==
  ASSUME TypeOK, UpOK, NEW p \in Pids \cup {NoPid}, NEW sig \in {"stop", "reload"},
         Deliver(p, sig), UNCHANGED up, crashes' = crashes, p \in Pids \/ UNCHANGED pc
  PROVE  UpOK'
BY DEF TypeOK, UpOK, Deliver, Exit, PreVM, Checking

(* Every step keeps it: the file is made on entering the loop and removed  *)
(* on leaving it, and all other steps of a process are taken elsewhere.    *)
LEMMA NextUpOK == IInv /\ UpOK /\ [Next]_vars => UpOK'
<1> SUFFICES ASSUME IInv, UpOK, [Next]_vars PROVE UpOK'
  OBVIOUS
<1> USE DEF UpOK, IInv, TypeOK
<1>1. ASSUME NEW i \in Instances, Start(i) \/ Controller(i) PROVE UpOK'
  BY <1>1 DEF Controller, Start, Fork, ForkFails, Arm, Reap, Unlink, KidOK,
    procVars, fileVars, envVars
<1>2. ASSUME NEW i \in Instances, Waiter(i) PROVE UpOK'
  BY <1>2 DEF Waiter, WaitLeft, WaitPoll, WaitRead, WaitTmp, WaitReady, WaitGiveUp,
    WaitFrame, procVars, fileVars, envVars
<1>3. ASSUME NEW p \in Pids, Child(p) PROVE UpOK'
  BY <1>3 DEF Child, OpenPidFile, LockPidFile, CheckPid, WritePid, InitJvm, StartService,
    FailStart, SetHandlers, CreateTmpFile, LeaveLoop, StopService, DestroyJvm, Exit,
    ChildFrame, fileVars, envVars
<1>4. ASSUME NEW s \in Stoppers, Stopper(s) PROVE UpOK'
  <2>1. CASE StopKill(s)
    BY <1>4, <2>1, DeliverUp DEF StopKill, StopFrame, envVars, PastOK
  <2>2. CASE ~StopKill(s)
    BY <1>4, <2>2 DEF Stopper, StopRead, StopDone, StopGiveUp, StopFrame, envVars
  <2>3. QED
    BY <2>1, <2>2
<1>5. ASSUME NEW p \in Pids, NEW sig \in {"stop", "reload"}, SignalChild(p, sig) PROVE UpOK'
  BY <1>5, DeliverUp DEF SignalChild
<1>6. ASSUME NEW i \in Instances, NEW sig \in {"stop", "reload"}, SignalController(i, sig)
      PROVE  UpOK'
  BY <1>6, DeliverUp DEF SignalController
<1>7. ASSUME NEW p \in Pids, Crash(p) PROVE UpOK'
  BY <1>7, Constants DEF Crash, ConstantFacts
<1>8. ASSUME NEW p \in Pids, Stranger(p) \/ InitReaps(p) PROVE UpOK'
  BY <1>8 DEF Stranger, InitReaps, fileVars, envVars
<1>9. ASSUME NEW i \in Instances, KillController(i) PROVE UpOK'
  BY <1>9, Constants DEF KillController, ConstantFacts
<1>10. CASE UNCHANGED vars
  BY <1>10 DEF vars, procVars, fileVars, envVars
<1> HIDE DEF UpOK, IInv, TypeOK
<1>11. QED
  BY <1>1, <1>2, <1>3, <1>4, <1>5, <1>6, <1>7, <1>8, <1>9, <1>10 DEF Next, Environment

(* Only check_tmp_file takes a waiting parent from the one to the other.   *)
LEMMA TmpStep ==
  ASSUME IInv, [Next]_vars, NEW i \in Instances, wpc[i] = "tmp", wpc'[i] = "again"
  PROVE  WaitTmp(i) /\ saw'[i] \in up
<1> USE DEF IInv, TypeOK
<1>1. WaitTmp(i)
  <2>1. CASE UNCHANGED wpc
    BY <2>1
  <2>2. ASSUME NEW j \in Instances, Start(j) PROVE WaitTmp(i)
    BY <2>2 DEF Start
  <2>3. ASSUME NEW j \in Instances, Waiter(j) PROVE WaitTmp(i)
    BY <2>3 DEF Waiter, WaitLeft, WaitPoll, WaitRead, WaitTmp, WaitReady, WaitGiveUp
  <2>4. CASE UNCHANGED waitVars
    BY <2>1, <2>4 DEF waitVars
  <2>5. QED
    BY <2>2, <2>3, <2>4 DEF Next, vars, Controller, Fork, ForkFails, Arm, Reap, Unlink,
      Child, OpenPidFile, LockPidFile, CheckPid, WritePid, InitJvm, StartService, FailStart,
      SetHandlers, CreateTmpFile, LeaveLoop, StopService, DestroyJvm, ChildFrame, Stopper,
      StopRead, StopKill, StopDone, StopGiveUp, StopFrame, Environment, SignalChild, Crash,
      Stranger, SignalController, KillController, InitReaps
<1>2. QED
  BY <1>1 DEF WaitTmp

(* The jsvc_up file a waiting parent finds is that of a JVM in its loop    *)
(* (see ReadyMeansServing).                                                *)
THEOREM ReadyIsServing == Spec => ReadyMeansServing
<1>1. Init => UpOK
  BY DEF Init, UpOK
<1>2. IInv /\ UpOK /\ IInv' /\ UpOK' /\ [Next]_vars
        => [\A i \in Instances : wpc[i] = "tmp" /\ wpc'[i] = "again"
              => pc[saw'[i]] = "run" \/ crashes > 0]_vars
  BY TmpStep, Constants DEF UpOK, IInv, TypeOK, ConstantFacts
<1>3. QED
  BY <1>1, <1>2, InitIInv, NextIInv, NextUpOK, PTL DEF Spec, ReadyMeansServing
=============================================================================
