-------------------------------- MODULE Jsvc --------------------------------
(***************************************************************************)
(* The jsvc supervisor (jsvc-unix.c): any number of "jsvc start" commands  *)
(* with the same -pidfile, each made of a controller process and, one      *)
(* after another, the child processes that carry the JVM; "jsvc -stop"     *)
(* commands; and what the operating system does to them.  They share       *)
(* nothing but the pid file, the /tmp/<pid>.jsvc_up files and signals.     *)
(*                                                                         *)
(* Processes interleave at system calls.  A signal acts when it is sent: a *)
(* later delivery is the same signal sent later.  Time is abstracted: the  *)
(* 60 s a controller waits before a quick restart is the time it may spend *)
(* before Fork, and every poll of a file may come at any moment.           *)
(***************************************************************************)
EXTENDS Naturals, FiniteSets

CONSTANTS Instances,   \* the "jsvc start" commands
          Waiting,     \* those of them that were given -wait
          Stoppers,    \* the "jsvc -stop" commands
          Pids,        \* process ids the children may get; Fork fails without one
          Inodes,      \* identities of the file behind the path args->pidf
          NoInstance, NoPid, NoInode,
          MaxCrashes,  \* bound: children killed or JVMs aborted
          MaxSignals,  \* bound: signals sent by hand, not by jsvc -stop
          MaxStrangers \* bound: pids of dead children given to other programs

ASSUME InstancesAssumption == Waiting \subseteq Instances /\ NoInstance \notin Instances
ASSUME PidsAssumption == NoPid \notin Pids
ASSUME InodesAssumption == NoInode \notin Inodes
ASSUME BoundsAssumption == {MaxCrashes, MaxSignals, MaxStrangers} \subseteq Nat

VARIABLES
  cpc,      \* controller of each instance: where it is in run_controller
  kid,      \* its pid variable: the child of the current generation
  fwd,      \* its static `controlled'; NoPid until the handlers are installed
  outcome,  \* the status waitpid gave it last
  pc,       \* each child: where it is in child()
  owner,    \* the instance that forked it
  prior,    \* the `controlled' it inherited over fork
  ino,      \* the pid file it opened
  asked,    \* its flags stopping and doreload: none, stop or reload
  status,   \* how it ended
  file,     \* the inode args->pidf names, NoInode when it does not exist
  data,     \* the pid each inode holds, NoPid when it is empty
  lock,     \* the child whose lockf holds the inode
  up,       \* pids with a /tmp/<pid>.jsvc_up
  wpc,      \* each waiting parent: where it is in wait_child
  havejvm,  \* those that have set their local of that name
  saw,      \* the pid whose jsvc_up file it found
  spc,      \* each jsvc -stop: where it is in stop_child
  victim,   \* the pid it signalled
  crashes, signals, strangers, \* what the environment has done so far
  torn      \* history: instances whose unlink took a file another child used

ctlVars  == <<cpc, kid, fwd, outcome>>
procVars == <<pc, owner, prior, ino, asked, status>>
fileVars == <<file, data, lock, up>>
waitVars == <<wpc, havejvm, saw>>
stopVars == <<spc, victim>>
envVars  == <<crashes, signals, strangers>>
vars == <<ctlVars, procVars, fileVars, waitVars, stopVars, envVars, torn>>

Statuses == {"none", "ok", "reload", "running", "failed", "signal", "nofork"}
Checking == {"lock", "read", "write"}                  \* check_pid, file open
PreVM    == {"open", "init"} \cup Checking             \* no JVM handlers yet
JvmUp    == {"init", "boot", "arm", "tmp", "run", "quit", "destroy"}
Children == PreVM \cup JvmUp

TypeOK ==
  /\ cpc \in [Instances -> {"idle", "fork", "arm", "wait", "unlink", "ended", "killed"}]
  /\ kid \in [Instances -> Pids \cup {NoPid}]
  /\ fwd \in [Instances -> Pids \cup {NoPid}]
  /\ outcome \in [Instances -> Statuses]
  /\ pc \in [Pids -> Children \cup {"unused", "zombie", "gone", "stranger"}]
  /\ owner \in [Pids -> Instances \cup {NoInstance}]
  /\ prior \in [Pids -> Pids \cup {NoPid}]
  /\ ino \in [Pids -> Inodes \cup {NoInode}]
  /\ asked \in [Pids -> {"none", "stop", "reload"}]
  /\ status \in [Pids -> Statuses]
  /\ file \in Inodes \cup {NoInode}
  /\ data \in [Inodes -> Pids \cup {NoPid}]
  /\ lock \in [Inodes -> Pids \cup {NoPid}]
  /\ up \subseteq Pids
  /\ wpc \in [Instances -> {"off", "poll", "read", "tmp", "again", "ready", "left", "failed"}]
  /\ havejvm \subseteq Instances
  /\ saw \in [Instances -> Pids \cup {NoPid}]
  /\ spc \in [Stoppers -> {"idle", "kill", "poll", "stopped", "failed"}]
  /\ victim \in [Stoppers -> Pids \cup {NoPid}]
  /\ crashes \in 0..MaxCrashes
  /\ signals \in 0..MaxSignals
  /\ strangers \in 0..MaxStrangers
  /\ torn \subseteq Instances

Init ==
  /\ cpc = [i \in Instances |-> "idle"]
  /\ kid = [i \in Instances |-> NoPid]
  /\ fwd = [i \in Instances |-> NoPid]
  /\ outcome = [i \in Instances |-> "none"]
  /\ pc = [p \in Pids |-> "unused"]
  /\ owner = [p \in Pids |-> NoInstance]
  /\ prior = [p \in Pids |-> NoPid]
  /\ ino = [p \in Pids |-> NoInode]
  /\ asked = [p \in Pids |-> "none"]
  /\ status = [p \in Pids |-> "none"]
  /\ file = NoInode
  /\ data = [n \in Inodes |-> NoPid]
  /\ lock = [n \in Inodes |-> NoPid]
  /\ up = {}
  /\ wpc = [i \in Instances |-> "off"]
  /\ havejvm = {}
  /\ saw = [i \in Instances |-> NoPid]
  /\ spc = [s \in Stoppers |-> "idle"]
  /\ victim = [s \in Stoppers |-> NoPid]
  /\ crashes = 0 /\ signals = 0 /\ strangers = 0
  /\ torn = {}

----------------------------------------------------------------------------
(* What the operating system gives them.                                   *)

(* kill(p, 0) = 0: also true of a zombie and of any other program.         *)
Alive(p) == p \in Pids /\ pc[p] \notin {"unused", "gone"}

(* get_pidf: the pid in the file if such a process exists.  Its lockf has  *)
(* no effect, a descriptor opened O_RDONLY cannot take a write lock.       *)
Named == IF file = NoInode THEN NoPid ELSE data[file]
Running == IF Alive(Named) THEN Named ELSE NoPid

(* A child that check_pid let through: it has written its pid.             *)
Holds(p) == pc[p] \in JvmUp

(* p ends: its locks go with it, its entry stays until it is waited for.   *)
Exit(p, how) ==
  /\ pc' = [pc EXCEPT ![p] = "zombie"]
  /\ status' = [status EXCEPT ![p] = how]
  /\ lock' = [n \in Inodes |-> IF lock[n] = p THEN NoPid ELSE lock[n]]

(* SIGTERM ("stop") or SIGHUP ("reload") reaches p.  Before the JVM is up  *)
(* a first generation child has the default action and a later one the     *)
(* handler of the controller it was forked from, which passes the signal   *)
(* to a process that is gone; the JVM's own handlers end it with 128 + n;  *)
(* handler() takes the first request and drops every later one.            *)
Deliver(p, sig) ==
  \/ /\ pc[p] \in PreVM /\ prior[p] = NoPid
     /\ Exit(p, "signal")
     /\ UNCHANGED asked
  \/ /\ pc[p] \in {"boot", "arm"}
     /\ Exit(p, "failed")
     /\ UNCHANGED asked
  \/ /\ pc[p] \in {"tmp", "run"} /\ asked[p] = "none"
     /\ asked' = [asked EXCEPT ![p] = sig]
     /\ UNCHANGED <<pc, status, lock>>
  \/ /\ \/ pc[p] \in PreVM /\ prior[p] # NoPid
        \/ pc[p] \in {"tmp", "run"} /\ asked[p] # "none"
        \/ pc[p] \in {"quit", "destroy", "unused", "zombie", "gone", "stranger"}
     /\ UNCHANGED <<pc, asked, status, lock>>

----------------------------------------------------------------------------
(* The controller: main and run_controller.                                *)

(* "jsvc" with -pidfile: the parent detaches and, given -wait, stays in    *)
(* wait_child; the process it forked becomes the controller.               *)
Start(i) ==
  /\ cpc[i] = "idle"
  /\ cpc' = [cpc EXCEPT ![i] = "fork"]
  /\ wpc' = [wpc EXCEPT ![i] = IF i \in Waiting THEN "poll" ELSE "off"]
  /\ UNCHANGED <<kid, fwd, outcome, procVars, fileVars, havejvm, saw, stopVars,
                 envVars, torn>>

(* fork: the child starts with the controller's dispositions and statics.  *)
Fork(i) ==
  /\ cpc[i] = "fork"
  /\ \E p \in Pids :
       /\ pc[p] = "unused"
       /\ pc' = [pc EXCEPT ![p] = "open"]
       /\ owner' = [owner EXCEPT ![p] = i]
       /\ prior' = [prior EXCEPT ![p] = fwd[i]]
       /\ kid' = [kid EXCEPT ![i] = p]
  /\ cpc' = [cpc EXCEPT ![i] = "arm"]
  /\ UNCHANGED <<fwd, outcome, ino, asked, status, fileVars, waitVars, stopVars,
                 envVars, torn>>

(* fork() = -1: the loop and the controller end.                           *)
ForkFails(i) ==
  /\ cpc[i] = "fork"
  /\ \A p \in Pids : pc[p] # "unused"
  /\ cpc' = [cpc EXCEPT ![i] = "ended"]
  /\ outcome' = [outcome EXCEPT ![i] = "nofork"]
  /\ UNCHANGED <<kid, fwd, procVars, fileVars, waitVars, stopVars, envVars, torn>>

(* controlled = pid and the five signal() calls.                           *)
Arm(i) ==
  /\ cpc[i] = "arm"
  /\ cpc' = [cpc EXCEPT ![i] = "wait"]
  /\ fwd' = [fwd EXCEPT ![i] = kid[i]]
  /\ UNCHANGED <<kid, outcome, procVars, fileVars, waitVars, stopVars, envVars, torn>>

(* waitpid returns.  A child killed by a signal is replaced and its pid    *)
(* file left alone; so is the file of the service that refused the child.  *)
Reap(i) ==
  /\ cpc[i] = "wait"
  /\ pc[kid[i]] = "zombie"
  /\ pc' = [pc EXCEPT ![kid[i]] = "gone"]
  /\ ino' = [ino EXCEPT ![kid[i]] = NoInode]
  /\ outcome' = [outcome EXCEPT ![i] = status[kid[i]]]
  /\ \/ status[kid[i]] = "signal" /\ cpc' = [cpc EXCEPT ![i] = "fork"]
     \/ status[kid[i]] = "running" /\ cpc' = [cpc EXCEPT ![i] = "ended"]
     \/ /\ status[kid[i]] \in {"ok", "reload", "failed"}
        /\ cpc' = [cpc EXCEPT ![i] = "unlink"]
  /\ UNCHANGED <<kid, fwd, owner, prior, asked, status, fileVars, waitVars, stopVars,
                 envVars, torn>>

(* Mutant of Unlink: the file is removed only after a clean exit.          *)
UnlinkAfterSuccess(i) ==
  /\ cpc[i] = "unlink"
  /\ file' = IF outcome[i] = "failed" THEN file ELSE NoInode
  /\ cpc' = [cpc EXCEPT ![i] = IF outcome[i] = "reload" THEN "fork" ELSE "ended"]
  /\ UNCHANGED <<kid, fwd, outcome, procVars, data, lock, up, waitVars, stopVars,
                 envVars, torn>>

(* unlink(args->pidf), whoever's pid it holds by now; exit code 123 is     *)
(* followed by the next generation, every other one by the end.            *)
Unlink(i) ==
  /\ cpc[i] = "unlink"
  /\ file' = NoInode
  /\ torn' = IF \E p \in Pids : pc[p] \in (Checking \cup JvmUp) /\ ino[p] = file
             THEN torn \cup {i} ELSE torn
  /\ cpc' = [cpc EXCEPT ![i] = IF outcome[i] = "reload" THEN "fork" ELSE "ended"]
  /\ UNCHANGED <<kid, fwd, outcome, procVars, data, lock, up, waitVars, stopVars, envVars>>

----------------------------------------------------------------------------
(* The child: check_pid and child.                                         *)

ChildFrame == <<ctlVars, waitVars, stopVars, envVars>>

(* Mutant of OpenPidFile: O_TRUNC added to the flags.                      *)
OpenPidFileTruncating(p) ==
  /\ pc[p] = "open"
  /\ pc' = [pc EXCEPT ![p] = "lock"]
  /\ \E n \in IF file # NoInode THEN {file} ELSE Inodes \ {ino[q] : q \in Pids} :
       /\ file' = n
       /\ data' = [data EXCEPT ![n] = NoPid]
       /\ ino' = [ino EXCEPT ![p] = n]
  /\ UNCHANGED <<owner, prior, asked, status, lock, up, torn, ChildFrame>>

(* open(O_RDWR | O_CREAT).                                                 *)
OpenPidFile(p) ==
  /\ pc[p] = "open"
  /\ pc' = [pc EXCEPT ![p] = "lock"]
  /\ \/ /\ file # NoInode
        /\ ino' = [ino EXCEPT ![p] = file]
        /\ UNCHANGED <<file, data>>
     \/ /\ file = NoInode
        /\ \E n \in Inodes \ {ino[q] : q \in Pids} :
             /\ file' = n
             /\ data' = [data EXCEPT ![n] = NoPid]
             /\ ino' = [ino EXCEPT ![p] = n]
  /\ UNCHANGED <<owner, prior, asked, status, lock, up, torn, ChildFrame>>

(* Mutant of LockPidFile: the lock is not waited for (F_TLOCK).            *)
LockPidFileNoWait(p) ==
  /\ pc[p] = "lock"
  /\ lock' = [lock EXCEPT ![ino[p]] = IF @ = NoPid THEN p ELSE @]
  /\ pc' = [pc EXCEPT ![p] = "read"]
  /\ UNCHANGED <<owner, prior, ino, asked, status, file, data, up, torn, ChildFrame>>

(* lockf(fd, F_LOCK, 0) waits for the other holders.                       *)
LockPidFile(p) ==
  /\ pc[p] = "lock"
  /\ lock[ino[p]] = NoPid
  /\ lock' = [lock EXCEPT ![ino[p]] = p]
  /\ pc' = [pc EXCEPT ![p] = "read"]
  /\ UNCHANGED <<owner, prior, ino, asked, status, file, data, up, torn, ChildFrame>>

(* Mutant of CheckPid: the process in the file is not looked for.          *)
CheckPidUnchecked(p) ==
  /\ pc[p] = "read"
  /\ pc' = [pc EXCEPT ![p] = "write"]
  /\ UNCHANGED <<owner, prior, ino, asked, status, fileVars, torn, ChildFrame>>

(* read and kill(pid, 0): "Still running according to PID file", exit 122. *)
CheckPid(p) ==
  /\ pc[p] = "read"
  /\ \/ /\ Alive(data[ino[p]])
        /\ Exit(p, "running")
     \/ /\ ~Alive(data[ino[p]])
        /\ pc' = [pc EXCEPT ![p] = "write"]
        /\ UNCHANGED <<status, lock>>
  /\ UNCHANGED <<owner, prior, ino, asked, file, data, up, torn, ChildFrame>>

(* Mutant of WritePid: the lock is kept.                                   *)
WritePidKeepingLock(p) ==
  /\ pc[p] = "write"
  /\ data' = [data EXCEPT ![ino[p]] = p]
  /\ pc' = [pc EXCEPT ![p] = "init"]
  /\ UNCHANGED <<owner, prior, ino, asked, status, file, lock, up, torn, ChildFrame>>

(* The pid is written through the descriptor, the lock released.           *)
WritePid(p) ==
  /\ pc[p] = "write"
  /\ data' = [data EXCEPT ![ino[p]] = p]
  /\ lock' = [lock EXCEPT ![ino[p]] = NoPid]
  /\ pc' = [pc EXCEPT ![p] = "init"]
  /\ UNCHANGED <<owner, prior, ino, asked, status, file, up, torn, ChildFrame>>

(* java_init: the JVM installs its own handlers for HUP, INT and TERM.     *)
InitJvm(p) ==
  /\ pc[p] = "init"
  /\ pc' = [pc EXCEPT ![p] = "boot"]
  /\ UNCHANGED <<owner, prior, ino, asked, status, fileVars, torn, ChildFrame>>

(* java_load and java_start return true.                                   *)
StartService(p) ==
  /\ pc[p] = "boot"
  /\ pc' = [pc EXCEPT ![p] = "arm"]
  /\ UNCHANGED <<owner, prior, ino, asked, status, fileVars, torn, ChildFrame>>

(* The pid file cannot be opened, or java_init, one of these or            *)
(* set_user_group fails: the child exits with a code of its own.           *)
FailStart(p) ==
  /\ pc[p] \in {"open", "init", "boot"}
  /\ Exit(p, "failed")
  /\ UNCHANGED <<owner, prior, ino, asked, file, data, up, torn, ChildFrame>>

(* The five signal_set calls, then create_tmp_file.                        *)
SetHandlers(p) ==
  /\ pc[p] = "arm"
  /\ pc' = [pc EXCEPT ![p] = "tmp"]
  /\ UNCHANGED <<owner, prior, ino, asked, status, fileVars, torn, ChildFrame>>

CreateTmpFile(p) ==
  /\ pc[p] = "tmp"
  /\ pc' = [pc EXCEPT ![p] = "run"]
  /\ up' = up \cup {p}
  /\ UNCHANGED <<owner, prior, ino, asked, status, file, data, lock, torn, ChildFrame>>

(* Mutants of LeaveLoop: remove_tmp_file is missing; the loop tests        *)
(* doreload instead of stopping.                                           *)
LeaveLoopKeepingTmp(p) ==
  /\ pc[p] = "run" /\ asked[p] # "none"
  /\ pc' = [pc EXCEPT ![p] = "quit"]
  /\ UNCHANGED <<owner, prior, ino, asked, status, fileVars, torn, ChildFrame>>

LeaveLoopOnReload(p) ==
  /\ pc[p] = "run" /\ asked[p] = "reload"
  /\ pc' = [pc EXCEPT ![p] = "quit"]
  /\ up' = up \ {p}
  /\ UNCHANGED <<owner, prior, ino, asked, status, file, data, lock, torn, ChildFrame>>

(* while (!stopping) ends; remove_tmp_file.                                *)
LeaveLoop(p) ==
  /\ pc[p] = "run" /\ asked[p] # "none"
  /\ pc' = [pc EXCEPT ![p] = "quit"]
  /\ up' = up \ {p}
  /\ UNCHANGED <<owner, prior, ino, asked, status, file, data, lock, torn, ChildFrame>>

(* java_stop returns true, or false and the child exits with 6.            *)
StopService(p) ==
  /\ pc[p] = "quit"
  /\ \/ pc' = [pc EXCEPT ![p] = "destroy"] /\ UNCHANGED <<status, lock>>
     \/ Exit(p, "failed")
  /\ UNCHANGED <<owner, prior, ino, asked, file, data, up, torn, ChildFrame>>

(* Mutants of DestroyJvm: ret is 123, or 0, whatever was asked.            *)
DestroyJvmReloading(p) ==
  /\ pc[p] = "destroy"
  /\ Exit(p, "reload")
  /\ UNCHANGED <<owner, prior, ino, asked, file, data, up, torn, ChildFrame>>

DestroyJvmEnding(p) ==
  /\ pc[p] = "destroy"
  /\ Exit(p, "ok")
  /\ UNCHANGED <<owner, prior, ino, asked, file, data, up, torn, ChildFrame>>

(* java_destroy and JVM_destroy: System.exit(123 if doreload, else 0), or  *)
(* 7 when System.exit cannot be called.                                    *)
DestroyJvm(p) ==
  /\ pc[p] = "destroy"
  /\ \/ Exit(p, IF asked[p] = "reload" THEN "reload" ELSE "ok")
     \/ Exit(p, "failed")
  /\ UNCHANGED <<owner, prior, ino, asked, file, data, up, torn, ChildFrame>>

----------------------------------------------------------------------------
(* The parent of a detached controller: wait_child.                        *)

WaitFrame == <<ctlVars, procVars, fileVars, stopVars, envVars, torn>>

(* The first waitpid finds that the controller has ended.                  *)
WaitLeft(i) ==
  /\ wpc[i] \in {"poll", "again"}
  /\ cpc[i] \in {"ended", "killed"}
  /\ wpc' = [wpc EXCEPT ![i] = "left"]
  /\ UNCHANGED <<havejvm, saw, WaitFrame>>

(* It finds the controller alive.                                          *)
WaitPoll(i) ==
  /\ wpc[i] = "poll"
  /\ cpc[i] \notin {"ended", "killed"}
  /\ wpc' = [wpc EXCEPT ![i] = "read"]
  /\ UNCHANGED <<havejvm, saw, WaitFrame>>

(* The pid file is read: a live process, no file any more, or not yet.     *)
WaitRead(i) ==
  /\ wpc[i] = "read"
  /\ \/ /\ Running # NoPid
        /\ havejvm' = havejvm \cup {i}
        /\ wpc' = [wpc EXCEPT ![i] = "tmp"]
     \/ /\ Running = NoPid
        /\ wpc' = [wpc EXCEPT ![i] =
                     IF file = NoInode /\ i \in havejvm THEN "failed" ELSE "poll"]
        /\ UNCHANGED havejvm
  /\ UNCHANGED <<saw, WaitFrame>>

(* check_tmp_file reads the pid file once more and looks for jsvc_up.      *)
WaitTmp(i) ==
  /\ wpc[i] = "tmp"
  /\ IF Running \in up
     THEN /\ saw' = [saw EXCEPT ![i] = Running]
          /\ wpc' = [wpc EXCEPT ![i] = "again"]
     ELSE /\ wpc' = [wpc EXCEPT ![i] = "poll"]
          /\ UNCHANGED saw
  /\ UNCHANGED <<havejvm, WaitFrame>>

(* The second waitpid finds the controller alive: "ready JVM started".     *)
WaitReady(i) ==
  /\ wpc[i] = "again"
  /\ cpc[i] \notin {"ended", "killed"}
  /\ wpc' = [wpc EXCEPT ![i] = "ready"]
  /\ UNCHANGED <<havejvm, saw, WaitFrame>>

(* count reaches 0.                                                        *)
WaitGiveUp(i) ==
  /\ wpc[i] = "poll"
  /\ wpc' = [wpc EXCEPT ![i] = "failed"]
  /\ UNCHANGED <<havejvm, saw, WaitFrame>>

----------------------------------------------------------------------------
(* jsvc -stop: stop_child.                                                 *)

StopFrame == <<ctlVars, owner, prior, ino, file, data, up, waitVars, envVars, torn>>

StopRead(s) ==
  /\ spc[s] = "idle"
  /\ IF Running # NoPid
     THEN /\ victim' = [victim EXCEPT ![s] = Running]
          /\ spc' = [spc EXCEPT ![s] = "kill"]
     ELSE /\ spc' = [spc EXCEPT ![s] = "failed"]
          /\ UNCHANGED victim
  /\ UNCHANGED <<pc, asked, status, lock, StopFrame>>

StopKill(s) ==
  /\ spc[s] = "kill"
  /\ Deliver(victim[s], "stop")
  /\ spc' = [spc EXCEPT ![s] = "poll"]
  /\ UNCHANGED <<victim, StopFrame>>

(* "JVM has stopped": no pid in the file, or the pid of no process.        *)
StopDone(s) ==
  /\ spc[s] = "poll"
  /\ Running = NoPid
  /\ spc' = [spc EXCEPT ![s] = "stopped"]
  /\ UNCHANGED <<victim, pc, asked, status, lock, StopFrame>>

(* The sixtieth poll still finds a process.                                *)
StopGiveUp(s) ==
  /\ spc[s] = "poll"
  /\ Running # NoPid
  /\ spc' = [spc EXCEPT ![s] = "failed"]
  /\ UNCHANGED <<victim, pc, asked, status, lock, StopFrame>>

----------------------------------------------------------------------------
(* The environment.                                                        *)

(* TERM or HUP sent to a child by hand, or by the service to itself        *)
(* through DaemonController (main_shutdown, main_reload).                  *)
SignalChild(p, sig) ==
  /\ signals < MaxSignals
  /\ signals' = signals + 1
  /\ pc[p] \in Children
  /\ Deliver(p, sig)
  /\ UNCHANGED <<ctlVars, owner, prior, ino, file, data, up, waitVars, stopVars,
                 crashes, strangers, torn>>

(* TERM or HUP sent to a controller: forwarded to the process it controls, *)
(* which between two generations is one that has gone; without handlers    *)
(* the controller dies.                                                    *)
SignalController(i, sig) ==
  /\ signals < MaxSignals
  /\ signals' = signals + 1
  /\ cpc[i] \in {"fork", "arm", "wait", "unlink"}
  /\ \/ /\ fwd[i] # NoPid
        /\ Deliver(fwd[i], sig)
        /\ UNCHANGED cpc
     \/ /\ fwd[i] = NoPid
        /\ cpc' = [cpc EXCEPT ![i] = "killed"]
        /\ UNCHANGED <<pc, asked, status, lock>>
  /\ UNCHANGED <<kid, fwd, outcome, owner, prior, ino, file, data, up, waitVars, stopVars,
                 crashes, strangers, torn>>

(* A child dies of a signal nobody handles, its JVM aborts and             *)
(* java_abort123 turns that into exit code 123, or the service calls       *)
(* System.exit with some code; none of them removes the jsvc_up file.      *)
Crash(p) ==
  /\ crashes < MaxCrashes
  /\ crashes' = crashes + 1
  /\ \/ pc[p] \in Children /\ Exit(p, "signal")
     \/ pc[p] \in JvmUp /\ \E how \in {"ok", "reload", "failed"} : Exit(p, how)
  /\ UNCHANGED <<ctlVars, owner, prior, ino, asked, file, data, up, waitVars, stopVars,
                 signals, strangers, torn>>

(* A controller is killed outright.                                        *)
KillController(i) ==
  /\ crashes < MaxCrashes
  /\ crashes' = crashes + 1
  /\ cpc[i] \in {"fork", "arm", "wait", "unlink"}
  /\ cpc' = [cpc EXCEPT ![i] = "killed"]
  /\ UNCHANGED <<kid, fwd, outcome, procVars, fileVars, waitVars, stopVars,
                 signals, strangers, torn>>

(* The child of a controller that was killed is waited for by init.        *)
InitReaps(p) ==
  /\ pc[p] = "zombie" /\ cpc[owner[p]] = "killed"
  /\ pc' = [pc EXCEPT ![p] = "gone"]
  /\ ino' = [ino EXCEPT ![p] = NoInode]
  /\ UNCHANGED <<ctlVars, owner, prior, asked, status, fileVars, waitVars, stopVars,
                 envVars, torn>>

(* Another program gets the pid of a child that is gone, and ends.         *)
Stranger(p) ==
  /\ \/ /\ pc[p] = "gone" /\ strangers < MaxStrangers
        /\ pc' = [pc EXCEPT ![p] = "stranger"]
        /\ strangers' = strangers + 1
     \/ /\ pc[p] = "stranger"
        /\ pc' = [pc EXCEPT ![p] = "gone"]
        /\ UNCHANGED strangers
  /\ UNCHANGED <<ctlVars, owner, prior, ino, asked, status, fileVars, waitVars, stopVars,
                 crashes, signals, torn>>

----------------------------------------------------------------------------
Controller(i) == Fork(i) \/ ForkFails(i) \/ Arm(i) \/ Reap(i) \/ Unlink(i)

Child(p) ==
  \/ OpenPidFile(p) \/ LockPidFile(p) \/ CheckPid(p) \/ WritePid(p)
  \/ InitJvm(p) \/ StartService(p) \/ FailStart(p)
  \/ SetHandlers(p) \/ CreateTmpFile(p)
  \/ LeaveLoop(p) \/ StopService(p) \/ DestroyJvm(p)

Waiter(i) ==
  \/ WaitLeft(i) \/ WaitPoll(i) \/ WaitRead(i)
  \/ WaitTmp(i) \/ WaitReady(i) \/ WaitGiveUp(i)

Stopper(s) == StopRead(s) \/ StopKill(s) \/ StopDone(s) \/ StopGiveUp(s)

Environment ==
  \/ \E p \in Pids : \/ \E sig \in {"stop", "reload"} : SignalChild(p, sig)
                     \/ Crash(p) \/ Stranger(p)
  \/ \E i \in Instances : \/ \E sig \in {"stop", "reload"} : SignalController(i, sig)
                          \/ KillController(i)

Next ==
  \/ \E i \in Instances : Start(i) \/ Controller(i) \/ Waiter(i)
  \/ \E p \in Pids : Child(p) \/ InitReaps(p)
  \/ \E s \in Stoppers : Stopper(s)
  \/ Environment

Spec == Init /\ [][Next]_vars

(* The system schedules every process; a lock is granted to some waiter    *)
(* and the JVM's own calls return.  Nothing obliges an operator to act, a  *)
(* signal to be sent or a process to crash.                                *)
Fairness == /\ \A i \in Instances : WF_vars(Controller(i)) /\ WF_vars(Waiter(i))
            /\ \A p \in Pids : WF_vars(Child(p)) /\ WF_vars(InitReaps(p))
            /\ \A s \in Stoppers : WF_vars(Stopper(s))

LiveSpec == Spec /\ Fairness

----------------------------------------------------------------------------
(* Safety.                                                                 *)

(* check_pid is exclusive for one file: two children that got past it      *)
(* never share the pid file, however their locks, writes, crashes and the  *)
(* controllers' unlinks interleave.                                        *)
OneServicePerFile ==
  \A p, q \in Pids : Holds(p) /\ Holds(q) /\ ino[p] = ino[q] => p = q

(* One service per path: the unlink in run_controller of a file that       *)
(* another child already uses is the only way to get two.                  *)
OneServiceUnlessTorn ==
  torn = {} => \A p, q \in Pids : Holds(p) /\ Holds(q) => p = q

(* When stop_child reports that the JVM has stopped, the process it        *)
(* signalled is no longer a JVM, with the same exception.                  *)
StoppedIsDead ==
  \A s \in Stoppers : torn = {} /\ spc[s] = "stopped" => pc[victim[s]] \notin Children

(* A controller that ends after its child has exited leaves no pid file    *)
(* that names that child, whatever the other instances have done since.    *)
EndLeavesNoPid ==
  \A i \in Instances :
    cpc[i] = "ended" /\ outcome[i] \in {"ok", "failed"} => Named # kid[i]

(* A child that accepted a stop request is the last generation of its      *)
(* controller, unless it crashed on the way out (exit 123 or a signal).    *)
StopEndsGenerations ==
  \A p, q \in Pids : asked[p] = "stop" /\ prior[q] = p => crashes > 0

(* The jsvc_up file wait_child finds belongs to a JVM that is in its loop  *)
(* at that moment, unless something crashed and left its file behind.      *)
ReadyMeansServing ==
  [][\A i \in Instances : wpc[i] = "tmp" /\ wpc'[i] = "again"
        => pc[saw'[i]] = "run" \/ crashes > 0]_vars

----------------------------------------------------------------------------
(* Liveness, under LiveSpec.                                               *)

(* Nobody waits for the pid file for ever, also when a lock holder dies.   *)
CheckEnds == \A p \in Pids : pc[p] = "open" ~> pc[p] \notin {"open"} \cup Checking

(* A stop request a child has accepted ends its controller.                *)
StopHonoured ==
  \A i \in Instances :
    (\E p \in Pids : owner[p] = i /\ asked[p] = "stop")
      ~> cpc[i] \in {"ended", "killed"} \/ crashes > 0

(* A reload request a child has accepted starts another generation, unless *)
(* the service fails to stop, no process can be forked or the controller   *)
(* is gone.                                                                *)
ReloadHonoured ==
  \A p \in Pids, i \in Instances :
    owner[p] = i /\ asked[p] = "reload"
      ~> \/ \E q \in Pids : prior[q] = p
         \/ cpc[i] = "ended" /\ outcome[i] \in {"failed", "nofork"}
         \/ cpc[i] = "killed"
         \/ crashes > 0

----------------------------------------------------------------------------
(* What comments and messages of the source say, and the code does not do. *)

(* "Still running according to PID file": no second service is started.    *)
OneService == \A p, q \in Pids : Holds(p) /\ Holds(q) => p = q

=============================================================================
