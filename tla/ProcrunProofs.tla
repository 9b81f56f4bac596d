--------------------------- MODULE ProcrunProofs ---------------------------
(* For any services and any number of stops: what the start reports, what   *)
(* the shutdown event orders, and when the event thread and the exit hooks  *)
(* may act.                                                                 *)
EXTENDS Procrun, TLAPS

(* Of the types only what the proofs need.                                  *)
Shape ==
  /\ DOMAIN worker = Workers /\ DOMAIN status = Workers /\ DOMAIN init = Workers
  /\ DOMAIN sync = Workers /\ DOMAIN stopper = Stops
  /\ hooks \in Seq({"start", "stop"}) /\ hook \in 0 .. Len(hooks)
  /\ signal \in [open : BOOLEAN, set : BOOLEAN, valid : BOOLEAN, asked : BOOLEAN]

(* Until the service is reported RUNNING nobody stops it; the main thread   *)
(* waits for the event of a worker that has not yet entered the main class, *)
(* and dwWorkerStatus then tells whether it will.                           *)
Early == {"begin", "start", "waitInit", "started", "failed"}
NobodyStops ==
  main \in Early =>
    /\ scm.state # "running" /\ query.state # "running"
    /\ \A s \in Stops : stopper[s] = "idle"

StartKnown ==
  /\ main \in {"begin", "start"} => worker[Main] = "none" /\ ~status[Main]
  /\ main \in {"begin", "start", "waitInit"} =>
       ~sync[Main] /\ (worker[Main] \in {"none", "init", "load"} => ~init[Main])
  /\ main = "waitInit" => /\ worker[Main] \in {"init", "load", "sync", "refused"}
                          /\ status[Main] <=> worker[Main] = "sync"
  /\ StartTells

(* gShutdownEvent is set by the last step of a stop only.                   *)
SetLast ==
  /\ signaled # {} => \E s \in Stops : stopper[s] = "done"
  /\ main \in {"seen", "finalSeen"} => signaled # {}

(* While gSignalValid holds the event is set by a request, and the event    *)
(* thread was woken by one.                                                 *)
AskedFor ==
  /\ signal.valid /\ (signal.set \/ watcher = "woken") => signal.asked
  /\ BreakOnlyIfAsked

IInv == Shape /\ NobodyStops /\ StartKnown /\ SetLast /\ AskedFor

USE DEF IInv, Shape, codeVars, vmVars, stopVars, signalVars

LEMMA Mains == Main \in Workers /\ Main \notin Stops /\ Stops \subseteq Workers
BY StopsAssumption DEF Workers

(* The initial state satisfies it.                                          *)
LEMMA InitIInv == Init => IInv
BY Mains DEF Init, NobodyStops, StartKnown, StartTells, SetLast, AskedFor, BreakOnlyIfAsked, Early

(* Registering an exit hook.                                                *)
LEMMA Hooked ==
  ASSUME Shape, NEW w, NEW name \in {"start", "stop"}, CreateJava(w, name)
  PROVE  hooks' \in Seq({"start", "stop"}) /\ hook' \in 0 .. Len(hooks')
<1>1. hooks' \in Seq({"start", "stop"}) /\ Len(hooks') = Len(hooks) + 1
  BY DEF CreateJava
<1>2. hook' = hook + 1 /\ Len(hooks) \in Nat
  BY DEF CreateJava
<1>3. QED
  BY <1>1, <1>2

(* The main thread.                                                         *)
LEMMA MainStep == ASSUME IInv, ServiceMain PROVE IInv'
<1> USE Mains DEF To, Report, NobodyStops, StartKnown, StartTells, SetLast, AskedFor,
      BreakOnlyIfAsked, Early
<1>1. CASE Begin
  BY <1>1 DEF Begin
<1>2. CASE ServiceStart
  <2>1. hooks' \in Seq({"start", "stop"}) /\ hook' \in 0 .. Len(hooks')
    BY <1>2, Hooked DEF ServiceStart
  <2>2. Shape'
    BY <1>2, <2>1 DEF ServiceStart, CreateJava
  <2>3. NobodyStops'
    BY <1>2 DEF ServiceStart
  <2>4. StartKnown'
    BY <1>2 DEF ServiceStart, CreateJava
  <2>5. SetLast' /\ AskedFor'
    BY <1>2 DEF ServiceStart
  <2>6. QED
    BY <2>2, <2>3, <2>4, <2>5
<1>3. CASE JavaStarted
  BY <1>3 DEF JavaStarted
<1>4. CASE Started
  BY <1>4 DEF Started
<1>5. CASE StartFailed \/ WorkerGone
  BY <1>5 DEF StartFailed, WorkerGone
<1>6. CASE Ending \/ DestroyJvm
  BY <1>6 DEF Ending, DestroyJvm
<1>7. CASE Destroyed \/ Final \/ Return
  BY <1>7 DEF Destroyed, Final, Return
<1>8. QED
  BY <1>1, <1>2, <1>3, <1>4, <1>5, <1>6, <1>7 DEF ServiceMain
(* The workers and the JVM, and the end of the process.                     *)
LEMMA JavaStep == ASSUME IInv, Java PROVE IInv'
<1> USE Mains DEF Report, NobodyStops, StartKnown, StartTells, SetLast, AskedFor, BreakOnlyIfAsked,
      Early
<1>1. ASSUME NEW w \in Workers, WorkerInitializes(w) PROVE IInv'
  BY <1>1 DEF WorkerInitializes
<1>2. ASSUME NEW w \in Workers, WorkerLoads(w) PROVE IInv'
  BY <1>2 DEF WorkerLoads
<1>3. ASSUME NEW w \in Workers, WorkerEnters(w) PROVE IInv'
  BY <1>3 DEF WorkerEnters
<1>4. ASSUME NEW w \in Workers, NEW code \in 0..1, WorkerReturns(w, code) PROVE IInv'
  BY <1>4 DEF WorkerReturns
<1>5. ASSUME NEW w \in Workers, NEW code \in 0..1, SystemExit(w, code) PROVE IInv'
  BY <1>5 DEF SystemExit
<1>6. ASSUME NEW w \in Workers, Recorded(w) PROVE IInv'
  BY <1>6 DEF Recorded
<1>7. CASE ThreadsEnd \/ JvmDestroyed \/ HooksEnd
  BY <1>7 DEF ThreadsEnd, JvmDestroyed, HooksEnd
<1>8. CASE RunHook
  BY <1>8 DEF RunHook
<1>9. QED
  BY <1>1, <1>2, <1>3, <1>4, <1>5, <1>6, <1>7, <1>8 DEF Java

(* What others ask for, and the event thread.                               *)
LEMMA ControlStep == ASSUME IInv, Controls PROVE IInv'
<1> USE Mains DEF Report, Move, NobodyStops, StartKnown, StartTells, SetLast, AskedFor,
      BreakOnlyIfAsked, Early
<1>1. ASSUME NEW s \in Stops, NEW c, ServiceControl(s, c) PROVE IInv'
  BY <1>1 DEF ServiceControl
<1>2. ASSUME NEW s \in Stops, NEW c, ConsoleControl(s, c) PROVE IInv'
  BY <1>2 DEF ConsoleControl
<1>3. CASE Interrogate \/ AnswerQuery
  BY <1>3 DEF Interrogate, AnswerQuery
<1>4. CASE AskDump
  BY <1>4 DEF AskDump
<1>5. CASE Watch
  BY <1>5 DEF Watch
<1>6. QED
  BY <1>1, <1>2, <1>3, <1>4, <1>5 DEF Controls

(* A stop.                                                                  *)
LEMMA StopStep == ASSUME IInv, NEW s \in Stops, ServiceStop(s) PROVE IInv'
<1> USE Mains DEF Report, Move, NobodyStops, StartKnown, StartTells, SetLast, AskedFor,
      BreakOnlyIfAsked, Early
<1>1. CASE StopAlone(s) \/ StopWaited(s) \/ StopReports(s)
  BY <1>1 DEF StopAlone, StopWaited, StopReports
<1>2. CASE StopCreates(s)
  BY <1>2, Hooked DEF StopCreates, CreateJava
<1>3. CASE StopStarted(s)
  BY <1>3 DEF StopStarted
<1>4. CASE StopExecutes(s)
  BY <1>4 DEF StopExecutes
<1>5. CASE StopWakesWatcher(s)
  BY <1>5 DEF StopWakesWatcher
<1>6. CASE StopClosesSignal(s)
  BY <1>6 DEF StopClosesSignal
<1>7. CASE StopKills(s)
  BY <1>7 DEF StopKills
<1>8. CASE StopDone(s)
  BY <1>8 DEF StopDone
<1>9. QED
  BY <1>1, <1>2, <1>3, <1>4, <1>5, <1>6, <1>7, <1>8 DEF ServiceStop
(* Every step keeps the invariant.                                          *)
LEMMA NextStep == ASSUME IInv, [Next]_vars PROVE IInv'
<1>1. CASE UNCHANGED vars
  BY <1>1 DEF vars, NobodyStops, StartKnown, StartTells, SetLast, AskedFor, BreakOnlyIfAsked
<1>2. QED
  BY <1>1, MainStep, JavaStep, ControlStep, StopStep DEF Next

(* The codes.  A failure of the service's own program is in exitCode, or a  *)
(* stop has covered it up, or the thread that waits for the child has not   *)
(* recorded it; the main thread is past its wait, and an exit hook of the   *)
(* start is there, only when that thread has nothing left to record.        *)
Codes ==
  /\ exitCode \in 0..1 /\ ended \in [Workers -> 0..1] /\ DOMAIN worker = Workers
  /\ hooks \in Seq({"start", "stop"})

Past == {"ending", "waitEvent", "seen", "late", "destroy", "destroying", "final", "finalSeen"}

OverOnly ==
  /\ worker[Main] = "over" => ~Jni(Main)
  /\ main \in Past => worker[Main] \in Ended
  /\ \A i \in DOMAIN hooks : hooks[i] = "start" => Jni(Main)

FailureKnown == ended[Main] = 1 => exitCode = 1 \/ worker[Main] = "over" \/ CoveredUp

FInv == Codes /\ OverOnly /\ FailureKnown

(* What leaves the codes alone keeps them.                                  *)
LEMMA CodesStay ==
  ASSUME FInv, UNCHANGED <<codeVars, cfg, hooks>>, DOMAIN worker' = Workers,
         worker'[Main] = worker[Main] \/ (worker'[Main] # "over" /\ worker[Main] # "over"
                                          /\ worker[Main] \notin Ended),
         main' \in Past => main \in Past \/ worker'[Main] \in Ended
  PROVE  FInv'
BY Mains DEF FInv, Codes, OverOnly, FailureKnown, CoveredUp, Jni, Ended

(* Another hook keeps what was covered up.                                  *)
LEMMA HookStays ==
  ASSUME FInv, NEW name \in {"start", "stop"}, name = "start" => Jni(Main),
         hooks' = Append(hooks, name), UNCHANGED <<codeVars, cfg>>, DOMAIN worker' = Workers,
         worker'[Main] = worker[Main]
           \/ (worker[Main] \notin Ended \cup {"over"} /\ worker'[Main] # "over"),
         main' \in Past => main \in Past
  PROVE  FInv'
<1>1. hooks \in Seq({"start", "stop"}) /\ hooks' \in Seq({"start", "stop"})
  BY DEF FInv, Codes
<1>2. DOMAIN hooks \subseteq DOMAIN hooks' /\ \A i \in DOMAIN hooks : hooks'[i] = hooks[i]
  BY <1>1
<1>3. \A i \in DOMAIN hooks' : i \in DOMAIN hooks \/ hooks'[i] = name
  BY <1>1
<1>4. Jni(Main)' = Jni(Main)
  BY DEF Jni
<1>5. Codes'
  BY <1>1 DEF FInv, Codes
<1>6. OverOnly'
  BY <1>2, <1>3, <1>4, Mains DEF FInv, OverOnly, Ended
<1>7. CoveredUp => CoveredUp'
  BY <1>2, <1>4 DEF CoveredUp, Ended, FInv, Codes
<1>8. FailureKnown'
  BY <1>7, Mains DEF FInv, FailureKnown, Ended
<1>9. QED
  BY <1>5, <1>6, <1>8 DEF FInv

LEMMA FailMain == ASSUME IInv, FInv, ServiceMain PROVE FInv'
<1> USE Mains DEF To, Report, Past, Ended
<1>1. CASE Begin \/ JavaStarted \/ Started \/ StartFailed \/ WorkerGone \/ Ending
  BY <1>1, CodesStay DEF Begin, JavaStarted, Started, StartFailed, WorkerGone, Ending, FInv, Codes
<1>2. CASE DestroyJvm \/ Destroyed \/ Final \/ Return
  BY <1>2, CodesStay DEF DestroyJvm, Destroyed, Final, Return, FInv, Codes
<1>3. CASE ServiceStart
  <2>1. main = "start" /\ worker[Main] = "none"
    BY <1>3 DEF ServiceStart, StartKnown
  <2>2. CASE cfg.start = "jvm" /\ CreateJava(Main, "start") /\ To("waitInit")
             /\ UNCHANGED <<codeVars, cfg>>
    BY <2>1, <2>2, HookStays DEF CreateJava, FInv, Codes, Jni
  <2>3. CASE /\ UNCHANGED <<codeVars, cfg, hooks>> /\ main' \in {"failed", "started"}
             /\ worker' \in {worker, [worker EXCEPT ![Main] = "main"]}
    BY <2>1, <2>3, CodesStay DEF FInv, Codes
  <2>4. QED
    BY <1>3, <2>2, <2>3 DEF ServiceStart
<1>4. QED
  BY <1>1, <1>2, <1>3 DEF ServiceMain

LEMMA FailJava == ASSUME FInv, Java PROVE FInv'
<1> USE Mains DEF Report, Past, Ended
<1>1. ASSUME NEW w \in Workers, WorkerInitializes(w) \/ WorkerLoads(w) \/ WorkerEnters(w) PROVE FInv'
  BY <1>1, CodesStay DEF WorkerInitializes, WorkerLoads, WorkerEnters, FInv, Codes
<1>2. ASSUME NEW w \in Workers, NEW code \in 0..1, WorkerReturns(w, code) PROVE FInv'
  BY <1>2 DEF WorkerReturns, FInv, Codes, OverOnly, FailureKnown, CoveredUp, Jni
<1>3. ASSUME NEW w \in Workers, NEW code \in 0..1, SystemExit(w, code) PROVE FInv'
  BY <1>3 DEF SystemExit, FInv, Codes, OverOnly, FailureKnown, CoveredUp, Jni, Workers
<1>4. ASSUME NEW w \in Workers, Recorded(w) PROVE FInv'
  BY <1>4 DEF Recorded, FInv, Codes, OverOnly, FailureKnown, CoveredUp, Jni, Workers
<1>5. CASE ThreadsEnd \/ JvmDestroyed \/ HooksEnd \/ RunHook
  BY <1>5, CodesStay DEF ThreadsEnd, JvmDestroyed, HooksEnd, RunHook, FInv, Codes
<1>6. QED
  BY <1>1, <1>2, <1>3, <1>4, <1>5 DEF Java

LEMMA FailControl == ASSUME FInv, Controls PROVE FInv'
BY CodesStay DEF Controls, ServiceControl, ConsoleControl, Interrogate, AnswerQuery, AskDump,
  Watch, Move, FInv, Codes

LEMMA FailStop == ASSUME FInv, NEW s \in Stops, ServiceStop(s) PROVE FInv'
<1> USE Mains DEF Report, Move, Past, Ended
<1>1. CASE StopAlone(s) \/ StopStarted(s) \/ StopWaited(s) \/ StopWakesWatcher(s)
  BY <1>1, CodesStay DEF StopAlone, StopStarted, StopWaited, StopWakesWatcher, FInv, Codes
<1>2. CASE StopClosesSignal(s) \/ StopReports(s) \/ StopDone(s)
  BY <1>2, CodesStay DEF StopClosesSignal, StopReports, StopDone, FInv, Codes
<1>3. CASE StopExecutes(s)
  BY <1>3, CodesStay DEF StopExecutes, FInv, Codes
<1>4. CASE StopCreates(s)
  BY <1>4, CodesStay, HookStays DEF StopCreates, CreateJava, FInv, Codes
<1>5. CASE StopKills(s)
  BY <1>5 DEF StopKills, FInv, Codes, OverOnly, FailureKnown, CoveredUp, Jni
<1>6. QED
  BY <1>1, <1>2, <1>3, <1>4, <1>5 DEF ServiceStop

LEMMA FailNext == ASSUME IInv, FInv, [Next]_vars PROVE FInv'
<1>1. CASE UNCHANGED vars
  BY <1>1, CodesStay, Mains DEF vars, FInv, Codes
<1>2. QED
  BY <1>1, FailMain, FailJava, FailControl, FailStop DEF Next

(* Nothing tells STOPPED without an error over a failure that no stop has   *)
(* covered up.                                                              *)
Visible == scm' # scm /\ scm' = [state |-> "stopped", code |-> 0] /\ query' = query
             => ended[Main] = 0 \/ CoveredUp

LEMMA TellsWhatIs == ASSUME IInv, FInv, [Next]_vars PROVE Visible
<1> USE Mains DEF Visible, Report
<1>1. CASE UNCHANGED vars
  BY <1>1 DEF vars
<1>2. CASE ServiceMain
  <2>1. CASE Begin \/ Started \/ StartFailed \/ Ending
    BY <2>1 DEF Begin, Started, StartFailed, Ending
  <2>2. CASE ServiceStart \/ JavaStarted \/ WorkerGone \/ DestroyJvm \/ Destroyed \/ Return
    BY <2>2 DEF ServiceStart, JavaStarted, WorkerGone, DestroyJvm, Destroyed, Return
  <2>3. CASE Final
    BY <2>3 DEF Final, FInv, Codes, OverOnly, FailureKnown, Past, Ended
  <2>4. QED
    BY <1>2, <2>1, <2>2, <2>3 DEF ServiceMain
<1>3. CASE Java
  <2>1. CASE RunHook
    <3>1. hook \in DOMAIN hooks /\ hooks[hook] \in {"start", "stop"}
      BY <2>1 DEF RunHook
    <3>2. CASE hooks[hook] = "stop"
      BY <3>1, <3>2 DEF CoveredUp
    <3>3. CASE hooks[hook] = "start"
      BY <2>1, <3>1, <3>3 DEF RunHook, FInv, Codes, OverOnly, FailureKnown
    <3>4. QED
      BY <3>1, <3>2, <3>3
  <2>2. CASE Java /\ ~RunHook
    BY <2>2 DEF Java, WorkerInitializes, WorkerLoads, WorkerEnters, WorkerReturns, SystemExit,
      Recorded, ThreadsEnd, JvmDestroyed, HooksEnd
  <2>3. QED
    BY <1>3, <2>1, <2>2
<1>4. CASE Controls
  BY <1>4 DEF Controls, ServiceControl, ConsoleControl, Interrogate, AnswerQuery, AskDump, Watch
<1>5. ASSUME NEW s \in Stops, ServiceStop(s) PROVE Visible
  BY <1>5 DEF ServiceStop, StopAlone, StopCreates, StopStarted, StopExecutes, StopWaited,
    StopWakesWatcher, StopClosesSignal, StopReports, StopKills, StopDone
<1>6. QED
  BY <1>1, <1>2, <1>3, <1>4, <1>5 DEF Next

LEMMA InitFInv == Init => FInv
BY Mains DEF Init, FInv, Codes, OverOnly, FailureKnown, Past

HIDE DEF IInv, Shape, codeVars, vmVars, stopVars, signalVars

LEMMA Invariance == Spec => []IInv
<1>1. Init => IInv
  BY InitIInv
<1>2. IInv /\ [Next]_vars => IInv'
  BY NextStep
<1>3. QED
  BY <1>1, <1>2, PTL DEF Spec
----------------------------------------------------------------------------
(* The start of Java is reported as it went.                                *)
THEOREM Tells == Spec => []StartTells
<1>1. IInv => StartTells
  BY DEF IInv, StartKnown
<1>2. QED
  BY <1>1, Invariance, PTL

(* A stop that was alone has nothing left to do once its event is seen.     *)
THEOREM Ordered == Spec => []OrderedStop
<1>1. IInv => OrderedStop
  BY DEF IInv, SetLast, OrderedStop
<1>2. QED
  BY <1>1, Invariance, PTL

(* The stop that wakes the event thread is not taken for a request.         *)
THEOREM Break == Spec => []BreakOnlyIfAsked
<1>1. IInv => BreakOnlyIfAsked
  BY DEF IInv, AskedFor
<1>2. QED
  BY <1>1, Invariance, PTL

(* A failure of the service's own program, of whatever kind it is, is not   *)
(* reported as a success, unless a stop has covered it up.                  *)
THEOREM Failure == Spec => FailureStaysVisible
<1>1. Init => FInv
  BY InitFInv
<1>2. IInv /\ FInv /\ [Next]_vars => FInv'
  BY FailNext
<1>3. Spec => []FInv
  BY <1>1, <1>2, Invariance, PTL DEF Spec
<1>4. IInv /\ FInv /\ [Next]_vars => [Visible]_vars
  BY TellsWhatIs
<1>5. Spec => [][Visible]_vars
  BY <1>3, <1>4, Invariance, PTL DEF Spec
<1>6. QED
  BY <1>5 DEF Visible, FailureStaysVisible
=============================================================================
