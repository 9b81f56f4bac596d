------------------------------ MODULE Procrun ------------------------------
(* The Windows service process: serviceMain, the threads that stop it, the  *)
(* Java worker threads and what the service control manager (SCM) is told.  *)
(*                                                                          *)
(* The main thread starts the worker (a Java main class in this process, or *)
(* a child process), reports RUNNING, waits for the worker and takes the    *)
(* JVM down.  A control of the SCM or an event of the console runs          *)
(* serviceStop on a thread of its own; nothing but gShutdownEvent orders    *)
(* that thread and the main thread.  A call of System.exit ends the process *)
(* through the hooks registered with _onexit.                               *)
EXTENDS Naturals, Sequences

CONSTANTS Stops,         \* the threads that may run serviceStop
          NoStop,        \* gShutdownEvent == NULL
          Main,          \* stands for gWorker beside the workers of the stops
          Configs        \* the options of a service, and what it is asked for

ASSUME StopsAssumption == /\ NoStop \notin Stops /\ Main \notin Stops
ASSUME ConfigsAssumption ==
  Configs \subseteq [start : {"jvm", "exe"}, stop : {"jvm", "system", "exe", "none"},
                     timeout : {"zero", "finite", "infinite"}, service : BOOLEAN,
                     asked : {"status", "dump", "nothing"}]

VARIABLES cfg,        \* the options of the service
          main,       \* where serviceMain is
          worker,     \* Main: gWorker; s: the Java thread or program of stop s
          status, init, sync,   \* dwWorkerStatus, hWorkerInit, hWorkerSync
          count,      \* iVmCount: was there a JVM when the handle was created
          sysJvm,     \* _st_sys_jvm # NULL
          vm,         \* the JVM itself
          threads,    \* other threads of the Java program that keep the JVM up
          told,       \* the stop class or program has told the service to end
          exitCode,   \* vmExitCode, one for the process
          ended, setter,  \* the code each program has ended with, and whose is in exitCode
          hooks, hook,          \* functions given to _onexit; the next to run
          stopper, ctrl, toDie, \* serviceStop: where it is, control, wait_to_die
          event, signaled, awaited,  \* gShutdownEvent, SetEvent, waited for
          signal, watcher,      \* gSignalEvent and eventThread
          scm, query, process

codeVars == <<exitCode, ended, setter>>
vmVars == <<worker, status, init, sync, count, sysJvm, vm, threads, told, codeVars>>
stopVars == <<stopper, ctrl, toDie, event, signaled>>
signalVars == <<signal, watcher>>
vars == <<cfg, main, vmVars, hooks, hook, stopVars, awaited, signalVars, scm, query, process>>

Workers == Stops \cup {Main}
Jni(w) == IF w = Main THEN cfg.start = "jvm" ELSE cfg.stop \in {"jvm", "system"}
Ended == {"refused", "ended", "killed"}

TypeOK ==
  /\ cfg \in Configs
  /\ main \in {"begin", "start", "waitInit", "started", "failed", "waitWorker", "ending",
               "waitEvent", "seen", "late", "destroy", "destroying", "final", "finalSeen",
               "return"}
  /\ worker \in [Workers -> {"none", "init", "load", "sync", "main", "over"} \cup Ended]
  /\ {status, init, sync, count} \subseteq [Workers -> BOOLEAN]
  /\ vm \in {"none", "up", "dying", "gone"}
  /\ {sysJvm, threads, told} \subseteq BOOLEAN
  /\ exitCode \in 0..1 /\ ended \in [Workers -> 0..1] /\ setter \in Workers \cup {NoStop}
  /\ hooks \in Seq({"start", "stop"}) /\ hook \in 0..Len(hooks)
  /\ stopper \in [Stops -> {"idle", "begin", "waitInit", "wait", "test", "closing",
                            "report", "kill", "set", "done"}]
  /\ ctrl \in [Stops -> {"stop", "shutdown"}] /\ toDie \in [Stops -> BOOLEAN]
  /\ {event, awaited} \subseteq Stops \cup {NoStop} /\ signaled \subseteq Stops
  /\ signal \in [open : BOOLEAN, set : BOOLEAN, valid : BOOLEAN, asked : BOOLEAN]
  /\ watcher \in {"waiting", "woken", "acting", "ended"} 
  /\ scm \in [state : {"start", "running", "stopping", "stopped"}, code : 0..1]
  /\ query \in [state : {"none", "start", "running", "stopping", "stopped"}, code : 0..1]
  /\ process \in {"alive", "exiting", "gone"}

Init ==
  /\ cfg \in Configs
  /\ main = "begin" /\ process = "alive"
  /\ worker = [w \in Workers |-> "none"]
  /\ status = [w \in Workers |-> FALSE] /\ init = status /\ sync = status /\ count = status
  /\ vm = "none" /\ sysJvm = FALSE /\ threads = FALSE /\ told = FALSE
  /\ exitCode = 0 /\ ended = [w \in Workers |-> 0] /\ setter = NoStop
  /\ hooks = <<>> /\ hook = 0
  /\ stopper = [s \in Stops |-> "idle"] /\ ctrl = [s \in Stops |-> "stop"]
  /\ toDie = [s \in Stops |-> FALSE]
  /\ event = NoStop /\ awaited = NoStop /\ signaled = {}
  /\ signal = [open |-> TRUE, set |-> FALSE, valid |-> TRUE, asked |-> FALSE]
  /\ watcher = "waiting"
  /\ scm = [state |-> "start", code |-> 0] /\ query = [state |-> "none", code |-> 0]

Report(state, code) ==
  scm' = IF cfg.service THEN [state |-> state, code |-> code] ELSE scm

----------------------------------------------------------------------------
(* apxCreateJava, apxJavaStart and __apxJavaWorkerThread, for gWorker and   *)
(* for the Java worker of a stop.                                           *)

CreateJava(w, name) ==
  /\ worker' = [worker EXCEPT ![w] = "init"]
  /\ count' = [count EXCEPT ![w] = vm \in {"up", "dying"}]
  /\ sysJvm' = (sysJvm \/ vm \in {"up", "dying"})
  /\ hooks' = Append(hooks, name) /\ hook' = hook + 1

\* apxJavaInitialize: attach to the JVM there was when the handle was created,
\* or create one.
WorkerInitializes(w) ==
  /\ worker[w] = "init" /\ Jni(w) /\ process = "alive"
  /\ \/ /\ IF count[w] THEN vm \in {"up", "dying"} /\ sysJvm ELSE vm = "none"
        /\ vm' = IF vm = "none" THEN "up" ELSE vm
        /\ sysJvm' = TRUE
        /\ worker' = [worker EXCEPT ![w] = "load"] /\ UNCHANGED init
     \/ /\ worker' = [worker EXCEPT ![w] = "refused"] /\ init' = [init EXCEPT ![w] = TRUE]
        /\ UNCHANGED <<vm, sysJvm>>
  /\ UNCHANGED <<cfg, main, status, sync, count, threads, told, codeVars, hooks, hook, stopVars,
                 awaited, signalVars, scm, query, process>>

\* apxJavaLoadMainClass, apxJavaSetOut and __apxJvmAttach, which needs
\* _st_sys_jvm once more.
WorkerLoads(w) ==
  /\ worker[w] = "load" /\ process = "alive"
  /\ \E loaded \in IF sysJvm /\ vm # "gone" THEN BOOLEAN ELSE {FALSE} :
       /\ worker' = [worker EXCEPT ![w] = IF loaded THEN "sync" ELSE "refused"]
       /\ status' = [status EXCEPT ![w] = loaded]
  /\ init' = [init EXCEPT ![w] = TRUE]
  /\ UNCHANGED <<cfg, main, sync, count, sysJvm, vm, threads, told, codeVars, hooks, hook,
                 stopVars, awaited, signalVars, scm, query, process>>

\* Mutant of WorkerEnters: the thread does not wait for hWorkerSync.
WorkerEntersAtOnce(w) ==
  /\ worker[w] = "sync" /\ process = "alive"
  /\ worker' = [worker EXCEPT ![w] = "main"] /\ sync' = [sync EXCEPT ![w] = FALSE]
  /\ UNCHANGED <<cfg, main, status, init, count, sysJvm, vm, threads, told, codeVars, hooks,
                 hook, stopVars, awaited, signalVars, scm, query, process>>

WorkerEnters(w) ==
  /\ worker[w] = "sync" /\ sync[w] /\ process = "alive"
  /\ worker' = [worker EXCEPT ![w] = "main"] /\ sync' = [sync EXCEPT ![w] = FALSE]
  /\ UNCHANGED <<cfg, main, status, init, count, sysJvm, vm, threads, told, codeVars, hooks,
                 hook, stopVars, awaited, signalVars, scm, query, process>>

\* The main method returns or throws, which sets vmExitCode, or a child process
\* ends.  gWorker may leave threads behind; the stop class or program tells the
\* service to end.
WorkerReturns(w, code) ==
  /\ worker[w] = "main" /\ process = "alive"
  /\ w # Main => cfg.stop # "system"
  /\ worker' = [worker EXCEPT ![w] = IF Jni(w) THEN "ended" ELSE "over"]
  /\ status' = [status EXCEPT ![w] = FALSE] /\ init' = [init EXCEPT ![w] = Jni(w)]
  /\ threads' \in IF w = Main /\ Jni(w) /\ ~told THEN BOOLEAN ELSE {threads}
  /\ told' = (told \/ (w # Main /\ code = 0))
  /\ ended' = [ended EXCEPT ![w] = code]
  /\ IF Jni(w) /\ code # 0 THEN exitCode' = code /\ setter' = w ELSE UNCHANGED <<exitCode, setter>>
  /\ UNCHANGED <<cfg, main, sync, count, sysJvm, vm, hooks, hook, stopVars, awaited,
                 signalVars, scm, query, process>>

\* The thread that waits for the child, __apxProcWorkerThread.
Recorded(w) ==
  /\ worker[w] = "over" /\ process # "gone"
  /\ worker' = [worker EXCEPT ![w] = "ended"]
  /\ exitCode' = ended[w] /\ setter' = w
  /\ UNCHANGED <<cfg, main, status, init, sync, count, sysJvm, vm, threads, told, ended, hooks,
                 hook, stopVars, awaited, signalVars, scm, query, process>>

ThreadsEnd ==
  /\ threads /\ process = "alive"
  /\ threads' = FALSE
  /\ UNCHANGED <<cfg, main, worker, status, init, sync, count, sysJvm, vm, told, codeVars,
                 hooks, hook, stopVars, awaited, signalVars, scm, query, process>>

\* __apxJniExit, then exit(), which runs the hooks from the last to the first.
SystemExit(w, code) ==
  /\ process = "alive" /\ vm \in {"up", "dying"} /\ Jni(w)
  /\ worker[w] = "main" \/ (w = Main /\ threads)
  /\ w # Main => cfg.stop = "system" /\ code = 0
  /\ exitCode' = code /\ setter' = w /\ ended' = [ended EXCEPT ![w] = code]
  /\ process' = "exiting"
  /\ UNCHANGED <<cfg, main, worker, status, init, sync, count, sysJvm, vm, threads, told,
                 hooks, hook, stopVars, awaited, signalVars, scm, query>>

RunHook ==
  /\ process = "exiting" /\ hook > 0
  /\ hook' = hook - 1
  /\ IF hooks[hook] = "stop" \/ exitCode = 0 THEN Report("stopped", 0) ELSE UNCHANGED scm
  /\ UNCHANGED <<cfg, main, vmVars, hooks, stopVars, awaited, signalVars, query, process>>

HooksEnd ==
  /\ process = "exiting" /\ hook = 0
  /\ process' = "gone"
  /\ UNCHANGED <<cfg, main, vmVars, hooks, hook, stopVars, awaited, signalVars, scm, query>>

----------------------------------------------------------------------------
(* serviceMain and serviceStart.                                            *)

To(m) == main' = m /\ process # "gone"

\* No Java runtime or no control handler: nothing is reported and rc is 0.
Begin ==
  /\ main = "begin"
  /\ \/ To("start") /\ Report("start", 0)
     \/ To("return") /\ UNCHANGED scm
  /\ UNCHANGED <<cfg, vmVars, hooks, hook, stopVars, awaited, signalVars, query, process>>

ServiceStart ==
  /\ main = "start"
  /\ \/ /\ To("failed") /\ UNCHANGED <<vmVars, hooks, hook>>
     \/ /\ cfg.start = "jvm" /\ To("waitInit") /\ CreateJava(Main, "start")
        /\ UNCHANGED <<status, init, sync, vm, threads, told, codeVars>>
     \/ /\ cfg.start = "exe" /\ To("started")
        /\ worker' = [worker EXCEPT ![Main] = "main"]
        /\ UNCHANGED <<status, init, sync, count, sysJvm, vm, threads, told, codeVars, hooks, hook>>
  /\ UNCHANGED <<cfg, stopVars, awaited, signalVars, scm, query, process>>

JavaStarted ==
  /\ main = "waitInit" /\ init[Main]
  /\ init' = [init EXCEPT ![Main] = FALSE]
  /\ IF status[Main]
     THEN To("started") /\ sync' = [sync EXCEPT ![Main] = TRUE]
     ELSE To("failed") /\ UNCHANGED sync
  /\ UNCHANGED <<cfg, worker, status, count, sysJvm, vm, threads, told, codeVars, hooks, hook,
                 stopVars, awaited, signalVars, scm, query, process>>

Started ==
  /\ main = "started" /\ To("waitWorker")
  /\ Report("running", 0)
  /\ UNCHANGED <<cfg, vmVars, hooks, hook, stopVars, awaited, signalVars, query, process>>

StartFailed ==
  /\ main = "failed" /\ To("return")
  /\ Report("stopped", 1)
  /\ UNCHANGED <<cfg, vmVars, hooks, hook, stopVars, awaited, signalVars, query, process>>

\* Mutant of WorkerGone: the child is waited for, not the threads that serve it.
WorkerGoneEarly ==
  /\ main = "waitWorker" /\ worker[Main] \in Ended \cup {"over"}
  /\ To(IF event = NoStop THEN "destroy" ELSE "ending")
  /\ UNCHANGED <<cfg, vmVars, hooks, hook, stopVars, awaited, signalVars, scm, query, process>>

WorkerGone ==
  /\ main = "waitWorker" /\ worker[Main] \in Ended
  /\ To(IF event = NoStop THEN "destroy" ELSE "ending")
  /\ UNCHANGED <<cfg, vmVars, hooks, hook, stopVars, awaited, signalVars, scm, query, process>>

Ending ==
  /\ main = "ending" /\ To("waitEvent")
  /\ Report("stopping", 0) /\ awaited' = event
  /\ UNCHANGED <<cfg, vmVars, hooks, hook, stopVars, signalVars, query, process>>

\* apxDestroyJvm: _st_sys_jvm is cleared before the thread that destroys the
\* JVM starts.  Before that, the event is waited for, or one minute, if there
\* is one.
DestroyJvm ==
  /\ \/ main = "waitEvent" /\ Report("stopping", 0)
        /\ IF awaited \in signaled THEN To("seen") ELSE To("late")
     \/ main = "destroy" /\ To("destroying") /\ UNCHANGED scm
  /\ sysJvm' = FALSE
  /\ vm' = IF sysJvm THEN "dying" ELSE vm
  /\ UNCHANGED <<cfg, worker, status, init, sync, count, threads, told, codeVars, hooks, hook,
                 stopVars, awaited, signalVars, query, process>>

\* DestroyJavaVM waits for every thread that keeps the JVM up; a thread that
\* was terminated never detaches.
JvmDestroyed ==
  /\ vm = "dying" /\ process # "gone"
  /\ ~threads /\ \A w \in Workers : Jni(w) => worker[w] \in {"none", "refused", "ended"}
  /\ vm' = "gone"
  /\ UNCHANGED <<cfg, main, worker, status, init, sync, count, sysJvm, threads, told, codeVars,
                 hooks, hook, stopVars, awaited, signalVars, scm, query, process>>

\* Mutant of Destroyed: the wait has no end with a shutdown event either.
DestroyedAtLast ==
  /\ vm # "dying"
  /\ \/ main = "destroying" /\ To("final") /\ Report("stopping", 0)
     \/ main = "seen" /\ To("finalSeen") /\ UNCHANGED scm
     \/ main = "late" /\ To("final") /\ UNCHANGED scm
  /\ UNCHANGED <<cfg, vmVars, hooks, hook, stopVars, awaited, signalVars, query, process>>

\* Without a shutdown event the wait has no end, with one it lasts a minute.
Destroyed ==
  /\ \/ main = "destroying" /\ vm # "dying" /\ To("final") /\ Report("stopping", 0)
     \/ main = "seen" /\ To("finalSeen") /\ UNCHANGED scm
     \/ main = "late" /\ To("final") /\ UNCHANGED scm
  /\ UNCHANGED <<cfg, vmVars, hooks, hook, stopVars, awaited, signalVars, query, process>>

Final ==
  /\ main \in {"final", "finalSeen"} /\ To("return")
  /\ Report("stopped", exitCode)
  /\ UNCHANGED <<cfg, vmVars, hooks, hook, stopVars, awaited, signalVars, query, process>>

\* The dispatcher returns, main() calls ExitProcess: no hook is run.
Return ==
  /\ main = "return" /\ process # "gone"
  /\ process' = "gone"
  /\ UNCHANGED <<cfg, main, vmVars, hooks, hook, stopVars, awaited, signalVars, scm, query>>

----------------------------------------------------------------------------
(* serviceStop and the controls that start it.                              *)

Move(s, at, to) ==
  /\ stopper[s] = at /\ process # "gone"
  /\ stopper' = [stopper EXCEPT ![s] = to]

\* service_ctrl_handler: the SCM sends STOP and SHUTDOWN while the last status
\* it was told accepts them.
ServiceControl(s, c) ==
  /\ cfg.service /\ scm.state = "running" /\ query.state = "none"
  /\ Move(s, "idle", "begin")
  /\ ctrl' = [ctrl EXCEPT ![s] = c]
  /\ Report("stopping", 0)
  /\ UNCHANGED <<cfg, main, vmVars, hooks, hook, toDie, event, signaled, awaited, signalVars,
                 query, process>>

\* console_handler, installed by serviceMain once the service is running.
ConsoleControl(s, c) ==
  /\ main \notin {"begin", "start", "waitInit", "started", "failed"}
  /\ worker[Main] \notin {"none", "refused"}
  /\ Move(s, "idle", "begin")
  /\ ctrl' = [ctrl EXCEPT ![s] = c]
  /\ UNCHANGED <<cfg, main, vmVars, hooks, hook, toDie, event, signaled, awaited, signalVars,
                 scm, query, process>>

\* SERVICE_CONTROL_INTERROGATE reads the status, then reports it again.
Interrogate ==
  /\ cfg.asked = "status" /\ cfg.service /\ query.state = "none" /\ process # "gone" /\ main # "begin"
  /\ query' = scm
  /\ UNCHANGED <<cfg, main, vmVars, hooks, hook, stopVars, awaited, signalVars, scm, process>>

AnswerQuery ==
  /\ query.state # "none" /\ process # "gone"
  /\ Report(query.state, query.code)
  /\ query' = [state |-> "none", code |-> 0]
  /\ UNCHANGED <<cfg, main, vmVars, hooks, hook, stopVars, awaited, signalVars, process>>

\* No worker, or nothing to run before it is waited for.
StopAlone(s) ==
  /\ IF worker[Main] \in {"none", "refused"} THEN Move(s, "begin", "done")
     ELSE cfg.stop = "none" /\ Move(s, "begin", "test")
  /\ UNCHANGED <<cfg, main, vmVars, hooks, hook, ctrl, toDie, event, signaled, awaited,
                 signalVars, scm, query, process>>

\* No JVM to be had, or the handle, onExitStop and gShutdownEvent.
StopCreates(s) ==
  /\ Jni(s)
  /\ \/ Move(s, "begin", "done") /\ UNCHANGED <<worker, count, sysJvm, hooks, hook, event>>
     \/ Move(s, "begin", "waitInit") /\ CreateJava(s, "stop") /\ event' = s
  /\ UNCHANGED <<cfg, main, status, init, sync, vm, threads, told, codeVars, ctrl, toDie,
                 signaled, awaited, signalVars, scm, query, process>>

StopStarted(s) ==
  /\ init[s]
  /\ init' = [init EXCEPT ![s] = FALSE]
  /\ IF ~status[s] THEN /\ Move(s, "waitInit", "test") /\ toDie' = [toDie EXCEPT ![s] = TRUE]
                        /\ UNCHANGED <<sync, scm>>
     ELSE /\ sync' = [sync EXCEPT ![s] = TRUE]
          /\ IF cfg.stop = "system" THEN Move(s, "waitInit", "done") /\ Report("stopping", 0)
             ELSE Move(s, "waitInit", "wait") /\ UNCHANGED scm
          /\ UNCHANGED toDie
  /\ UNCHANGED <<cfg, main, worker, status, count, sysJvm, vm, threads, told, codeVars, hooks,
                 hook, ctrl, event, signaled, awaited, signalVars, query, process>>

\* No stop image; a process that cannot be set up or executed; or a process.
StopExecutes(s) ==
  /\ cfg.stop = "exe"
  /\ \/ Move(s, "begin", "done") /\ UNCHANGED worker
     \/ Move(s, "begin", "test") /\ UNCHANGED worker
     \/ Move(s, "begin", "wait") /\ worker' = [worker EXCEPT ![s] = "main"]
  /\ UNCHANGED <<cfg, main, status, init, sync, count, sysJvm, vm, threads, told, codeVars,
                 hooks, hook, ctrl, toDie, event, signaled, awaited, signalVars, scm, query, process>>

\* The wait for the stop class or program has no timeout.
StopWaited(s) ==
  /\ worker[s] \in Ended /\ Move(s, "wait", "test")
  /\ toDie' = [toDie EXCEPT ![s] = TRUE]
  /\ UNCHANGED <<cfg, main, vmVars, hooks, hook, ctrl, event, signaled, awaited, signalVars,
                 scm, query, process>>

\* Mutant of StopWakesWatcher: the event is set before gSignalValid is cleared.
StopWakesWatcherFirst(s) ==
  /\ Move(s, "test", IF signal.open THEN "closing" ELSE "report")
  /\ signal' = [signal EXCEPT !.set = @ \/ signal.open]
  /\ UNCHANGED <<cfg, main, vmVars, hooks, hook, ctrl, toDie, event, signaled, awaited,
                 watcher, scm, query, process>>

StopWakesWatcher(s) ==
  /\ Move(s, "test", IF signal.open THEN "closing" ELSE "report")
  /\ signal' = [signal EXCEPT !.set = @ \/ signal.open, !.valid = @ /\ ~signal.open]
  /\ UNCHANGED <<cfg, main, vmVars, hooks, hook, ctrl, toDie, event, signaled, awaited,
                 watcher, scm, query, process>>

\* After the thread has ended, or a second.
StopClosesSignal(s) ==
  /\ Move(s, "closing", "report")
  /\ signal' = [signal EXCEPT !.open = FALSE]
  /\ UNCHANGED <<cfg, main, vmVars, hooks, hook, ctrl, toDie, event, signaled, awaited,
                 watcher, scm, query, process>>

Patience(s) ==
  CASE cfg.timeout = "zero" /\ toDie[s] -> "finite"
    [] cfg.timeout = "infinite" /\ ctrl[s] = "shutdown" -> "finite"
    [] OTHER -> cfg.timeout

\* Mutant of StopReports: the shutdown event is set before the worker is waited for.
StopReportsSetting(s) ==
  /\ Move(s, "report", "kill") /\ Report("stopping", 0)
  /\ signaled' = IF event = NoStop THEN signaled ELSE signaled \cup {event}
  /\ UNCHANGED <<cfg, main, vmVars, hooks, hook, ctrl, toDie, event, awaited,
                 signalVars, query, process>>

StopReports(s) ==
  /\ Move(s, "report", "kill") /\ Report("stopping", 0)
  /\ UNCHANGED <<cfg, main, vmVars, hooks, hook, ctrl, toDie, event, signaled, awaited,
                 signalVars, query, process>>

\* The worker ends within the timeout or is terminated; the callback of a JVM
\* handle does nothing once _st_sys_jvm is NULL.  The code recorded of a child
\* that is closed is its own, that of the termination, or 0 if its handle was
\* closed before it was asked for (RProcess!RecordExit).
StopKills(s) ==
  /\ Move(s, "kill", "set")
  /\ \/ worker[Main] \in Ended /\ UNCHANGED <<worker, exitCode, setter>>
     \/ /\ worker[Main] \notin Ended /\ Patience(s) # "infinite" /\ Jni(Main)
        /\ worker' = IF sysJvm THEN [worker EXCEPT ![Main] = "killed"] ELSE worker
        /\ UNCHANGED <<exitCode, setter>>
     \/ /\ worker[Main] \notin Ended /\ Patience(s) # "infinite" /\ ~Jni(Main)
        /\ worker' = [worker EXCEPT ![Main] = "killed"]
        /\ exitCode' \in {0, IF worker[Main] = "over" THEN ended[Main] ELSE 1} /\ setter' = Main
  /\ UNCHANGED <<cfg, main, status, init, sync, count, sysJvm, vm, threads, told, ended, hooks,
                 hook, ctrl, toDie, event, signaled, awaited, signalVars, scm, query, process>>

StopDone(s) ==
  /\ Move(s, "set", "done")
  /\ signaled' = IF event = NoStop THEN signaled ELSE signaled \cup {event}
  /\ UNCHANGED <<cfg, main, vmVars, hooks, hook, ctrl, toDie, event, awaited, signalVars,
                 scm, query, process>>

----------------------------------------------------------------------------
(* eventThread.                                                             *)

\* Another process sets the named event; signal.asked remembers it until the
\* event is reset.
AskDump ==
  /\ cfg.asked = "dump" /\ signal.open /\ process # "gone"
  /\ signal' = [signal EXCEPT !.set = TRUE, !.asked = TRUE]
  /\ UNCHANGED <<cfg, main, vmVars, hooks, hook, stopVars, awaited, watcher, scm, query, process>>

Watch ==
  /\ process # "gone"
  /\ \/ /\ watcher = "waiting" /\ (signal.set \/ ~signal.open)
        /\ watcher' = IF signal.open THEN "woken" ELSE "ended"
        /\ UNCHANGED signal
     \/ /\ watcher = "woken"
        /\ watcher' = IF signal.valid THEN "acting" ELSE "ended"
        /\ UNCHANGED signal
     \/ /\ watcher = "acting" /\ watcher' = "waiting"
        /\ signal' = [signal EXCEPT !.set = FALSE, !.asked = FALSE]
  /\ UNCHANGED <<cfg, main, vmVars, hooks, hook, stopVars, awaited, scm, query, process>>

----------------------------------------------------------------------------
ServiceMain == \/ Begin \/ ServiceStart \/ JavaStarted \/ Started \/ StartFailed \/ WorkerGone
               \/ Ending \/ DestroyJvm \/ Destroyed \/ Final \/ Return

ServiceStop(s) == \/ StopAlone(s) \/ StopCreates(s) \/ StopStarted(s) \/ StopExecutes(s)
                  \/ StopWaited(s) \/ StopWakesWatcher(s) \/ StopClosesSignal(s)
                  \/ StopReports(s) \/ StopKills(s) \/ StopDone(s)

Java == \/ \E w \in Workers : \/ WorkerInitializes(w) \/ WorkerLoads(w) \/ WorkerEnters(w)
                             \/ \E code \in 0..1 : WorkerReturns(w, code) \/ SystemExit(w, code)
                             \/ Recorded(w)
        \/ ThreadsEnd \/ JvmDestroyed \/ RunHook \/ HooksEnd

Controls == \/ \E s \in Stops, c \in {"stop", "shutdown"} : ServiceControl(s, c) \/ ConsoleControl(s, c)
            \/ Interrogate \/ AnswerQuery \/ AskDump \/ Watch

Next == ServiceMain \/ Java \/ Controls \/ \E s \in Stops : ServiceStop(s)

Spec == Init /\ [][Next]_vars

\* The code runs, waits come to their end, a stop class or program returns and
\* what it has told to end does so.  The program, the SCM and the console
\* otherwise do as they please, and no wait need run into its timeout.
Fair ==
  /\ WF_vars(ServiceMain) /\ WF_vars(AnswerQuery) /\ WF_vars(RunHook) /\ WF_vars(HooksEnd)
  /\ \A s \in Stops : WF_vars(ServiceStop(s))
  /\ \A w \in Workers : WF_vars(WorkerInitializes(w) \/ WorkerLoads(w) \/ WorkerEnters(w))
  /\ \A s \in Stops : WF_vars(\E c \in 0..1 : WorkerReturns(s, c)) /\ WF_vars(SystemExit(s, 0))
  /\ WF_vars(told /\ \E c \in 0..1 : WorkerReturns(Main, c))
  /\ \A w \in Workers : WF_vars(Recorded(w))
  /\ WF_vars(told /\ ThreadsEnd) /\ WF_vars(JvmDestroyed)

LiveSpec == Spec /\ Fair
----------------------------------------------------------------------------
(* The start of Java is reported as it went: serviceStart fails only if the *)
(* main class was not entered, and goes on only if it will be.  The status  *)
(* is read between two events, and the worker may run to its end at once.   *)
StartTells ==
  /\ main = "failed" => worker[Main] \in {"none", "refused"}
  /\ main \in {"started", "waitWorker"} => worker[Main] \notin {"none", "init", "load", "refused"}

(* When serviceMain has seen gShutdownEvent, a stop that was alone has      *)
(* nothing left to do: what the main thread reports is the last word.       *)
OrderedStop ==
  \A s \in Stops :
    /\ main \in {"seen", "finalSeen"}
    /\ \A t \in Stops \ {s} : stopper[t] = "idle"
    => stopper[s] \in {"idle", "done"}

(* A service whose own program has failed is not reported STOPPED without   *)
(* an error, which would keep the SCM from its recovery actions, whichever  *)
(* thread reports and whoever has set vmExitCode meanwhile.  A stop may     *)
(* cover it up: its hook, if it runs through Java, reports 0 whatever the   *)
(* code, its program sets a code of its own, and its timeout may close the  *)
(* child before the code is read.                                           *)
CoveredUp ==
  \/ \E i \in DOMAIN hooks : hooks[i] = "stop"
  \/ setter \in Stops
  \/ worker[Main] = "killed" /\ ~Jni(Main)

FailureStaysVisible ==
  [][scm' # scm /\ scm' = [state |-> "stopped", code |-> 0] /\ query' = query
       => ended[Main] = 0 \/ CoveredUp]_vars

(* The event thread breaks into the console, or dumps the threads, only     *)
(* when another process has asked for it; the stop that wakes it to end     *)
(* it through the same event is not taken for such a request.               *)
BreakOnlyIfAsked == watcher = "acting" => signal.asked

(* Once the stop class or program has told the service to end, the process  *)
(* ends, whatever the SCM and the console do meanwhile.  Excepted is the    *)
(* worker that was killed with no event set: the JVM waits for a thread     *)
(* that is gone, and the wait for the JVM then has no timeout.              *)
ToldEnds ==
  told ~> process = "gone" \/ (worker[Main] = "killed" /\ event = NoStop)

=============================================================================
