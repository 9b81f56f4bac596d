------------------------------ MODULE RProcess ------------------------------
(* A child process of procrun: apxProcessExecute, the two threads that read *)
(* its output, the thread that waits for its end, apxProcessWait and what   *)
(* WM_CLOSE does, be it sent by a wait that kills or by closing the handle. *)
(*                                                                          *)
(* The threads share the object without a lock.  CHILD_RUNNING stays set    *)
(* after the child has ended; only closing clears it.                       *)
EXTENDS Naturals, FiniteSets

CONSTANTS Callers,     \* the threads of the service that wait and close
          MaxOutput,   \* characters written to a stream (bound)
          Blank,       \* the streams with writes of no length (bound)
          Others       \* the exit codes of others (bound)

ASSUME CallersAssumption == IsFiniteSet(Callers)
ASSUME MaxOutputAssumption == MaxOutput \in Nat
ASSUME OthersAssumption == Others \subseteq {0, 1}

VARIABLES running,     \* CHILD_RUNNING
          executed,    \* PROC_INITIALIZED
          child, heir, \* the process, and one it has started
          status,      \* its exit status
          written, delivered,     \* to each stream; handed to the callback
          empty,       \* where in a stream nothing was written, in a write of its own
          output, input, inner,   \* parent's ends of the pipes; child's ends open here
          handle,      \* stProcInfo.hProcess is open
          std,         \* what the standard handles of this process are
          reader, monitor, joinable,  \* threads, and whether their handles are open
          recorded,    \* vmExitCode, which the whole process shares
          foreign,     \* somebody else has set it last
          caller,      \* where each thread of the service is
          failed       \* the calls of Windows that have failed

childVars == <<child, heir, status, written, empty>>
codeVars == <<recorded, foreign>>
threadVars == <<reader, delivered, monitor, codeVars>>
handleVars == <<output, input, inner, handle, std, joinable>>
vars == <<running, executed, childVars, threadVars, handleVars, caller, failed>>

Streams == {"stdout", "stderr"}
Killed == 2                     \* CHILD_TERMINATE_CODE
Statuses == {0, 1, Killed}
Closing == {"stdin", "remote", "join"}

TypeOK ==
  /\ {running, executed, heir, input, inner, handle, joinable} \subseteq BOOLEAN
  /\ child \in {"none", "alive", "ended"} /\ status \in Statuses
  /\ written \in [Streams -> 0..MaxOutput] /\ delivered \in [Streams -> 0..MaxOutput]
  /\ empty \in [Streams -> SUBSET (0..MaxOutput)]
  /\ output \in [Streams -> BOOLEAN]
  /\ std \in {"own", "child"}
  /\ reader \in [Streams -> {"none", "test", "read", "ended"}]
  /\ monitor \in {"none", "wait", "exit", "ended"}
  /\ recorded \in Statuses /\ foreign \in BOOLEAN
  /\ caller \in [Callers -> {"idle", "wait", "timed", "waited", "closed"} \cup Closing]
  /\ failed \subseteq {"pipe", "create", "duplicate", "remote"}

Init ==
  /\ running = FALSE /\ executed = FALSE
  /\ child = "none" /\ heir = FALSE /\ status = 0
  /\ written = [o \in Streams |-> 0] /\ delivered = written /\ empty = [o \in Streams |-> {}]
  /\ output = [o \in Streams |-> FALSE] /\ input = FALSE /\ inner = FALSE
  /\ handle = FALSE /\ joinable = FALSE /\ std = "own"
  /\ reader = [o \in Streams |-> "none"] /\ monitor = "none"
  /\ recorded = 0 /\ foreign = FALSE
  /\ caller = [c \in Callers |-> "idle"]
  /\ failed = {}

Move(c, at, to) == caller[c] \in at /\ caller' = [caller EXCEPT ![c] = to]
----------------------------------------------------------------------------
(* apxProcessExecute, once.  A pipe that cannot be made leaves the child's  *)
(* ends of the others behind; a process that cannot be created leaves the   *)
(* standard handles redirected to pipes that are closed.                    *)
Fresh == ~executed /\ std = "own" /\ failed = {} /\ \A c \in Callers : caller[c] = "idle"

Execute ==
  /\ Fresh
  /\ running' = TRUE /\ executed' = TRUE
  /\ child' = "alive" /\ handle' = TRUE
  /\ output' = [o \in Streams |-> TRUE] /\ input' = TRUE /\ std' = "child"
  /\ reader' = [o \in Streams |-> "test"] /\ monitor' = "wait" /\ joinable' = TRUE
  /\ UNCHANGED <<heir, status, written, empty, delivered, inner, codeVars, caller, failed>>

ExecuteFails(why) ==
  /\ Fresh
  /\ failed' = {why}
  /\ inner' = (why = "pipe") /\ std' = IF why = "create" THEN "child" ELSE "own"
  /\ UNCHANGED <<running, executed, childVars, threadVars, output, input, handle, joinable, caller>>
----------------------------------------------------------------------------
(* The child, and a program it starts that inherits its standard handles.   *)
(* A write of no length is one of its own; the first in a stream decides.   *)

Write(o) ==
  /\ child = "alive" \/ heir
  /\ \/ /\ written[o] < MaxOutput /\ written' = [written EXCEPT ![o] = @ + 1]
        /\ empty' = empty
     \/ /\ o \in Blank /\ empty[o] = {} /\ empty' = [empty EXCEPT ![o] = {written[o]}]
        /\ written' = written
  /\ UNCHANGED <<running, executed, child, heir, status, threadVars, handleVars, caller, failed>>

Starts ==
  /\ child = "alive" /\ ~heir /\ heir' = TRUE
  /\ UNCHANGED <<running, executed, child, status, written, empty, threadVars, handleVars, caller, failed>>

HeirEnds ==
  /\ heir /\ heir' = FALSE
  /\ UNCHANGED <<running, executed, child, status, written, empty, threadVars, handleVars, caller,
                 failed>>

Ends(code) ==
  /\ child = "alive" /\ child' = "ended" /\ status' = code
  /\ UNCHANGED <<running, executed, heir, written, empty, threadVars, handleVars, caller, failed>>
----------------------------------------------------------------------------
(* __apxProcStdoutThread, __apxProcStderrThread: the flag is tested before  *)
(* each read; a read ends with the last writer, or with the pipe.  One that *)
(* meets a write of no length brings nothing, and the thread ends as well   *)
(* while the child writes on.                                               *)

TestRunning(o) ==
  /\ reader[o] = "test"
  /\ reader' = [reader EXCEPT ![o] = IF running THEN "read" ELSE "ended"]
  /\ UNCHANGED <<running, executed, childVars, delivered, monitor, codeVars, handleVars, caller,
                 failed>>

AtEmpty(o) == delivered[o] \in empty[o]

ReadOutput(o) ==
  /\ reader[o] = "read"
  /\ \/ /\ output[o] /\ delivered[o] < written[o] /\ ~AtEmpty(o)
        /\ delivered' = [delivered EXCEPT ![o] = @ + 1]
        /\ reader' = [reader EXCEPT ![o] = "test"]
     \/ /\ \/ ~output[o] \/ AtEmpty(o)
           \/ delivered[o] = written[o] /\ child = "ended" /\ ~heir /\ ~inner
        /\ reader' = [reader EXCEPT ![o] = "ended"]
        /\ UNCHANGED delivered
  /\ UNCHANGED <<running, executed, childVars, monitor, codeVars, handleVars, caller, failed>>

\* __apxProcWorkerThread.
ChildSeen ==
  /\ monitor = "wait" /\ child = "ended"
  /\ monitor' = "exit"
  /\ UNCHANGED <<running, executed, childVars, reader, delivered, codeVars, handleVars, caller,
                 failed>>

\* Mutant of RecordExit: CHILD_RUNNING is cleared, as the code under #if 0 would.
RecordExitClearing ==
  /\ monitor = "exit" /\ monitor' = "ended"
  /\ recorded' = (IF handle THEN status ELSE 0) /\ foreign' = FALSE
  /\ running' = FALSE
  /\ UNCHANGED <<executed, childVars, reader, delivered, handleVars, caller, failed>>

\* The exit code of a handle that was closed meanwhile stays 0.
RecordExit ==
  /\ monitor = "exit" /\ monitor' = "ended"
  /\ recorded' = (IF handle THEN status ELSE 0) /\ foreign' = FALSE
  /\ UNCHANGED <<running, executed, childVars, reader, delivered, handleVars, caller, failed>>

(* apxSetVmExitCode and vmExitCode are one for the process: the thread that *)
(* waits for another child, as the stop program, a Java worker that throws  *)
(* and the exit hook of the JVM set it too.                                 *)
RecordElsewhere(code) ==
  /\ executed /\ recorded' = code /\ foreign' = TRUE
  /\ UNCHANGED <<running, executed, childVars, reader, delivered, monitor, handleVars, caller, failed>>
----------------------------------------------------------------------------
(* apxProcessWait.                                                          *)

ThreadsEnded == monitor = "ended" /\ \A o \in Streams : reader[o] = "ended"

WaitBegins(c) ==
  /\ executed
  /\ Move(c, {"idle"}, IF running THEN "wait" ELSE "waited")
  /\ UNCHANGED <<running, executed, childVars, threadVars, handleVars, failed>>

\* Mutant of WaitReturns: the thread that records the exit code is not waited for.
WaitReturnsEarly(c) ==
  /\ \A o \in Streams : reader[o] = "ended"
  /\ Move(c, {"wait"}, "waited")
  /\ UNCHANGED <<running, executed, childVars, threadVars, handleVars, failed>>

\* Handles that are closed while they are waited for do not end the wait.
WaitReturns(c) ==
  /\ ThreadsEnded
  /\ Move(c, {"wait"}, "waited")
  /\ UNCHANGED <<running, executed, childVars, threadVars, handleVars, failed>>

\* WAIT_TIMEOUT with bKill.
WaitTimesOut(c) ==
  /\ ~ThreadsEnded
  /\ Move(c, {"wait"}, "timed")
  /\ UNCHANGED <<running, executed, childVars, threadVars, handleVars, failed>>
----------------------------------------------------------------------------
(* WM_CLOSE: __apxProcessClose, then the wait for the threads.              *)

Active == handle /\ child = "alive"

\* The end of __apxProcessClose.
ForgetChild == handle' = FALSE /\ running' = FALSE

CloseBegins(c) ==
  /\ running
  /\ IF Active
     THEN /\ Move(c, {"idle", "timed", "waited"}, "stdin") /\ input' = FALSE
          /\ UNCHANGED <<handle, running>>
     ELSE /\ Move(c, {"idle", "timed", "waited"}, "join") /\ ForgetChild /\ UNCHANGED input
  /\ UNCHANGED <<executed, childVars, threadVars, output, inner, std, joinable, failed>>

\* Mutant of Terminate: TerminateProcess is not called.
TerminateNever == UNCHANGED <<child, status>>

Terminate ==
  IF child = "alive" THEN child' = "ended" /\ status' = Killed ELSE UNCHANGED <<child, status>>

\* After a second: ExitProcess on a thread inside the child, TerminateProcess
\* if its handle cannot be duplicated, and neither if that thread cannot start.
StdinWaited(c) ==
  /\ \/ /\ ~Active /\ Move(c, {"stdin"}, "join") /\ ForgetChild
        /\ UNCHANGED <<child, status, failed>>
     \/ /\ Active /\ Move(c, {"stdin"}, "remote")
        /\ UNCHANGED <<child, status, handle, running, failed>>
     \/ /\ Active /\ Move(c, {"stdin"}, "join") /\ ForgetChild
        /\ Terminate /\ failed' = failed \cup {"duplicate"}
     \/ /\ Active /\ Move(c, {"stdin"}, "join") /\ ForgetChild
        /\ failed' = failed \cup {"remote"} /\ UNCHANGED <<child, status>>
  /\ UNCHANGED <<executed, heir, written, empty, threadVars, output, input, inner, std, joinable>>

\* Mutant of RemoteWaited: the child is not terminated after two seconds.
RemoteWaitedOnly(c) ==
  /\ Move(c, {"remote"}, "join") /\ ForgetChild
  /\ UNCHANGED <<child, status>>
  /\ UNCHANGED <<executed, heir, written, empty, threadVars, output, input, inner, std, joinable,
                 failed>>

\* The child has ended within two seconds or is terminated.
RemoteWaited(c) ==
  /\ Move(c, {"remote"}, "join") /\ ForgetChild
  /\ Terminate
  /\ UNCHANGED <<executed, heir, written, empty, threadVars, output, input, inner, std, joinable,
                 failed>>

Released(c) ==
  /\ \/ Move(c, {"join"}, "closed") /\ (ThreadsEnded \/ ~joinable)
     \/ Move(c, {"idle", "timed", "waited"}, "closed") /\ ~running
  /\ executed \/ failed # {}
  /\ running' = FALSE /\ handle' = FALSE /\ joinable' = FALSE
  /\ output' = [o \in Streams |-> FALSE] /\ input' = FALSE /\ std' = "own"
  /\ UNCHANGED <<executed, childVars, threadVars, inner, failed>>
----------------------------------------------------------------------------
Child == (\E o \in Streams : Write(o)) \/ Starts \/ HeirEnds \/ \E code \in 0..1 : Ends(code)

Threads == \/ \E o \in Streams : TestRunning(o) \/ ReadOutput(o)
           \/ ChildSeen \/ RecordExit \/ \E code \in Others : RecordElsewhere(code)

Close(c) == CloseBegins(c) \/ StdinWaited(c) \/ RemoteWaited(c) \/ Released(c)

Next == \/ Execute \/ (\E why \in {"pipe", "create"} : ExecuteFails(why))
        \/ Child \/ Threads
        \/ \E c \in Callers : WaitBegins(c) \/ WaitReturns(c) \/ WaitTimesOut(c) \/ Close(c)

Spec == Init /\ [][Next]_vars

\* The threads run, waits come to their end, and a close once begun goes on; a
\* wait need not time out, the child need not write or end.
Fair ==
  /\ \A o \in Streams : WF_vars(TestRunning(o)) /\ WF_vars(ReadOutput(o))
  /\ WF_vars(ChildSeen) /\ WF_vars(RecordExit)
  /\ \A c \in Callers : /\ WF_vars(WaitReturns(c))
                        /\ WF_vars(caller[c] \in Closing /\ Close(c))

LiveSpec == Spec /\ Fair
----------------------------------------------------------------------------
Untouched == \A c \in Callers : caller[c] \notin Closing \cup {"closed"}

(* A wait that has returned means that nothing of the output is still to    *)
(* come, as long as nobody has begun to close the process: the threads      *)
(* read on after the child has ended.  What follows a write of no length is *)
(* never read, and everything before it is.                                 *)
OutputComplete ==
  \A c \in Callers : caller[c] = "waited" /\ Untouched =>
    \A o \in Streams : delivered[o] = written[o] \/ AtEmpty(o)

(* What serviceMain reports to the SCM after its wait is the exit code of   *)
(* the child: it is recorded by then, unless a close has taken the handle   *)
(* from the thread that reads it, or somebody else has recorded a code of   *)
(* his own after it.                                                        *)
ExitCodeKnown ==
  \A c \in Callers : caller[c] = "waited" /\ Untouched => recorded = status \/ foreign

(* A closed process has no living child and holds no pipe, and the standard *)
(* handles are restored.  Excepted are the two failures the code does not   *)
(* clean up after: a pipe that cannot be made, and a thread that cannot be  *)
(* started in the child.                                                    *)
ClosedIsGone ==
  \A c \in Callers : caller[c] = "closed" =>
    /\ child = "alive" => "remote" \in failed
    /\ inner => "pipe" \in failed
    /\ ~input /\ ~handle /\ std = "own" /\ \A o \in Streams : ~output[o]

(* Closing comes to its end, whatever the child does with its input and     *)
(* with ExitProcess, if the child has left no program that holds its output *)
(* and the thread inside it could be started.                               *)
CloseEnds ==
  \A c \in Callers :
    caller[c] \in Closing ~> caller[c] = "closed" \/ heir \/ "remote" \in failed
=============================================================================
