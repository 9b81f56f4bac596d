# A TLA+ model of the Boundary Event SDK

The Boundary Event SDK turns what happens in a data centre (SNMP traps, syslog
messages, the results of service checks) into events of the Boundary API. It is
a set of Apache Camel 2.14.1 applications written in Java, each described by a
Spring file under `src/src/main/resources/META-INF/spring`, and a Unix daemon,
`beventd`, that runs them under a copy of Apache Commons Daemon: `jsvc`
(`src/src/native/unix`), the C program that supervises the JVM, and for Windows
`procrun` (`src/src/native/windows`), which runs it as a service.

This directory holds TLA+ models of the parts that are hard to test, the TLC
configurations that check them and the proofs checked by TLAPS.

    tlc -config JsvcExclusion.cfg MCJsvc     # any of the runs below
    tlapm JsvcProofs.tla                     # any *Proofs module

`PROJECT.json` ties every definition to the source lines it models, every
property to a mutation of the model that breaks it, and the hazards listed there
to the properties that watch them.

Contents: 1 inventory, 2 modules, 3 runs, 4 fairness, 5 proofs,
6 disagreements between code and documentation, 7 what is not modelled, 8 plan.

## 1. Inventory

Paths are relative to the repository; `E/` is
`src/main/java/com/boundary/sdk/event/`.

### The supervisor: `src/native/unix/native`

| Part | State | Operations | Interaction |
|---|---|---|---|
| controller (`run_controller`, `controller`) | `pid`, the static `controlled`, the status of `waitpid` | fork, install handlers, wait, unlink the pid file, restart | forks children; forwards signals to `controlled` |
| child (`child`, `check_pid`) | `stopping`, `doreload`, the descriptor of the pid file and its lock | check and write the pid file, JVM init/load/start, handlers, `jsvc_up` file, loop, stop, destroy | exit code 123 asks for a restart |
| parent of a detached start (`wait_child`, `-wait`) | `havejvm` | poll the controller, the pid file and `/tmp/<pid>.jsvc_up` | reads files of whoever wrote them |
| `jsvc -stop` (`stop_child`) | the pid it signalled | read the pid file, SIGTERM, poll the pid file | knows the service only by the file |
| loop and handler (`child`, `handler`) | `stopping`, `doreload`, `doreopen`, `dosignal` | `sleep(60)`, reopen the logs, `java_signal`; HUP, TERM, INT, USR1, USR2 | the handler runs between any two statements |
| launch (`main`, `parse`, `find`, `java_library`) | `arg_data`, `home_data` | read the words, look for Java, execute anew under another name, detach | the words given and the files of the machine; before the first fork |
| output and loggers (`set_output`, `logger_child`) | descriptors 1 and 2, a pipe | open files, merge streams, fork a logger | at the start, and in the child at each reopening |

Hard here: several starts, stops and generations of children share nothing but
one pid file that is opened, locked, read, written and unlinked in separate
system calls; signals arrive at processes that do not yet, or do not any more,
handle them; pids are used again; a JVM may abort anywhere. What makes it
correct: one service per pid file, `-stop` is believed only when the JVM is
gone, a stop ends the generations and a reload starts another, nobody blocks on
the lock for ever, a start that is reported ready is; the words of the command
line mean what they say, the library loaded is the one asked for, and output
goes where it was sent, still after a reopening.

### The Windows service: `src/native/windows`

| Part | State | Operations | Interaction |
|---|---|---|---|
| service process (`prunsrv.c`, `javajni.c`) | `gWorker`, `gShutdownEvent`, `gSignalEvent`, `_service_status`, `_st_sys_jvm`, `vmExitCode` | start, stop, report, wait, destroy the JVM | controls of the SCM and the console come on threads of their own; `System.exit` runs the hooks; another process sets the signal event |
| Java worker (`javajni.c`) | `dwWorkerStatus`, `hWorkerInit`, `hWorkerSync` | attach or create the JVM, load the class, run it | two events with the thread that started it |
| child process (`rprocess.c`) | `dwChildStatus`, pipes, three threads | execute, read, record the exit code, wait, close, terminate | the threads share the object without a lock |
| commands (`prunsrv.c`, `service.c`, `registry.c`) | a handle of the service, the keys | install, update, delete, start, stop | the database of services and the registry, with every other tool; the window of the monitor |
| monitor (`prunmgr.c`, `gui.c`) | `_currentEntry`, `_propertyChanged`, the icon | menu, sheet, progress box, refresh thread | three threads fill one entry; messages; a mutex |
| options (`cmdline.c`, `utils.c`, `prunsrv.c`) | `_options` | parse, environment, load, save | one pass each |

Hard here: serviceMain and one or two stops share global handles and nothing
orders them but one event; Java may call `System.exit` at any point; a child may
end, leave a program behind or ignore its end while it is waited for and closed;
commands and monitors of one service run at once and see one another through
the registry and windows. Correct when what is reported to the SCM is what
happened, a service told to end does, no output and no exit code of a child is
lost, there is one monitor whose icon follows the service, and no tool overwrites
what it was not given.

### The daemon: `src/main/scripts/beventd`, `E/BoundaryEventDaemon.java`

The script starts jsvc if the pid file is missing, stops it with `jsvc -stop`
and restarts with both. `BoundaryEventDaemon` implements Commons Daemon's
`init/start/stop/destroy` over a Camel `Main`. Hard: `start()` blocks in
`main.run()`, so `java_start` does not return; the script tests the file, not
the process.

### Translation tables

`E/util/PropertyUtils.java`, its copy in `E/syslog/SyslogToEventProcessor.java`,
and the look-ups of `UrlToExecProcessor` and `SnmpToExecProcessor`. State: static
`java.util.Properties`, empty until first used. Operations: test, load, look up.
Hard: up to ten consumer threads do the three without a lock around them, and a
read of the resource may fail half way. Correct when a thread never sees a
half-filled table, and a key of the file is missed only if a read failed.

### Service checks

`META-INF/spring/service-check.xml` and `E/service`. A Quartz trigger starts a
poll. The poll lists the enabled checks in the database, reads the rows of each
(`ServiceCheckQuery`, `ServiceChecksDatabase`), builds a `ServiceCheckRequest`,
and splits it into tests on parallel threads. The tests run through `seda:`
queues: router (one consumer), check of the type (ten each), translation to an
event, sender to the API (35, `BoundaryEventRouteBuilder`); for a URL a copy of
the result goes to a measure (`UrlToExecProcessor`, an external command).
State: the exchange of each thread, the in-memory queues, the consumers at work.
Hard: polls overlap, a malformed row throws in the middle of a request, any
endpoint fails, and a crash loses the queues. Correct when a request is sent
whole or not at all, a failure stays with its check or its test, no failure
costs a consumer, and each test taken on is settled once, unless a call made for it
hangs: no time-out is configured for the database, the HTTP client or the command.

### SNMP collector

`META-INF/spring/snmp-collector.xml`, `com/boundary/sdk/snmp/metric`, `E/snmp` and
`META-INF/js/lib/snmp-to-measure.js`. At the start a catalog joins pollers, host lists
and OID lists from three files into one configuration per poller and host
(`SnmpMetricCatalog`), and each becomes a polling route (`SnmpPollerRouteBuilder`).
An answer is split into its bindings (`SplitVarBinds`), which go through a queue to a
script and as measures through another to the sender. State: the catalog, the
configurations, the queues. Hard: hosts are filled in while they are members of
hash sets and used again by later pollers; a broken file leaves null or an empty
list that is met later; the configuration is looked up by OID long after it was
attached. Correct when exactly the enabled hosts are polled, once each, and a value
is sent for the host and metric it was read for.

### The rest

- Boundary event sender (`E/BoundaryEventRouteBuilder.java`): an HTTP post
  without retry; the last leg of the service checks.
- Event model (`RawEvent`, `Source`, `Severity`, `Status`) and the processors
  that fill it: bounded title and message, fingerprint fields that must be
  properties. Sequential, and a matter of values.
- SNMP traps, syslog adapter: stateless conversions with external libraries.
- Event command line, Esper, exec and script routes, notification web hook,
  queue, UDP and socket routes, measurement API clients, `app/` mains: set-up,
  data classes, or the library's work.
- Support code of `src/native/windows` (console, handles, log files, C library).

`PROJECT.json` lists every one under `components`, with its files and status.

## 2. Modules

| Module | Models |
|---|---|
| `PropertyCache` | one translation table under concurrent consumers |
| `Jsvc` | controllers, children, `-wait` parents, `-stop` commands and the operating system |
| `RequestLoop` | what the loop of a child promises the supervisor (abstract) |
| `JsvcLoop` | the loop and the handler statement by statement; implements `RequestLoop` |
| `CheckDelivery` | what the service check application promises of each test (abstract) |
| `ServiceCheck` | polls, requests, queues, consumers, events and measures, with calls that hang; implements `CheckDelivery` |
| `JsvcHome` | `home.c`, `location.c`, `replace.c` and `java_library`: homes, `jvm.cfg` files, the choice of a library (operators) |
| `JsvcArguments` | what the options of jsvc are and do to `arg_data` (operators) |
| `JsvcLaunch` | `main` up to the controller: parsing, Java, execution under another name, output and loggers; uses the two above |
| `Procrun` | serviceMain, serviceStop, the handlers, Java workers, exit hooks and event thread of a Windows service |
| `RProcess` | a child process of procrun, its threads, and who waits for it and closes it |
| `ServiceControl` | what all tools share: service database, registry, `apxServiceControl` |
| `ProcrunAdmin` | the commands of prunsrv, each a process; on `ServiceControl` |
| `ProcrunManager` | the monitors, with window, refresh thread, progress box and sheet; on `ServiceControl` |
| `ProcrunTools` | commands and monitors composed |
| `ProcrunOptions` | command line, environment, registry: the values of the options |
| `SnmpCollector` | the SNMP catalog, its routes, polls, bindings and measures |
| `MC...` | symmetry, small databases, services, scenes, machines and command lines for TLC |
| `JsvcProofs`, `JsvcLoopProofs`, `JsvcLaunchProofs`, `ServiceCheckProofs`, `ProcrunProofs`, `PrunsrvProofs`, `ProcrunToolsProofs`, `SnmpProofs` | the theorems |

Each module begins with what it abstracts. Operators whose comment begins with
"Mutant of" are not part of the specification: each is a mistake the code could
have contained, kept to show that a property notices it.

**`Jsvc`.** One action per system call, or group of calls between which
nothing another process can see happens. `cpc[i]` is where controller `i` is in
`run_controller`, `pc[p]` where child `p` is in `child()`, `wpc` and `spc`
where the waiting parents and the stop commands are. The pid file is a path
(`file`) that names an inode, `data` is what each inode holds and `lock` who
holds its `lockf`: a child that opened the file before it was unlinked keeps its
own inode, and this is where the difficulty of the protocol lies. `prior[p]`
is the `controlled` a child inherited over `fork`: with it the child has also
inherited the handlers of the controller, which makes signals that come before
the JVM is up harmless to a later generation and fatal to the first one.
`Deliver` has the four cases of what a signal does. A parent's `SIGTERM` by
`jsvc -stop`, a signal by hand and one sent by the service through
`DaemonController` all go through it. `torn` is a history variable that no
guard reads. What each process does:

    controller  Start -> Fork -> Arm -> (wait) Reap -> Unlink -> Fork | ended
                Reap  -> Fork     after a death by a signal
    child       OpenPidFile -> LockPidFile -> CheckPid -> WritePid -> InitJvm
                -> StartService -> SetHandlers -> CreateTmpFile -> (run)
                LeaveLoop -> StopService -> DestroyJvm -> zombie -> gone
    wait_child  WaitPoll -> WaitRead -> WaitTmp -> WaitReady, or WaitLeft, WaitGiveUp
    stop_child  StopRead -> StopKill -> StopDone | StopGiveUp

**`JsvcLoop`.** The handler runs to its end between any two statements of
`while (!stopping)`; a signal ends `sleep(60)` only if the loop is in it.
`Jsvc` reduces this loop to "the first request is remembered, and then the
loop is left" (`asked`, `LeaveLoop`); `ImplementsRequestLoop` shows that to be
justified.

**`PropertyCache`.** The monitor of the `Properties` object is the only
exclusion: `isEmpty`, `load` and `getProperty` hold it one at a time. This is
a fact of Java 8, the platform `pom.xml` compiles for, in which `Properties`
is a synchronized `Hashtable`. On a later platform, where `getProperty` and
`isEmpty` take no monitor, the table may be read half-filled;
the mutant `BeginLoadUnsynchronized` shows the effect of losing the exclusion.
A resource that does not exist at all is not in the model (it is packaged with
the classes); one whose read fails part way is.

**`ServiceCheck`.** A job `<<p, t>>` is test `t` of poll `p`; `at` is its place on the
way to an event and `measure` on the way to a measure. The actions follow the routes:
`Fire`, `ListChecks`, `ReadRows`, `ParseRow`, `Distribute` on the thread of the poll,
then `Enqueue`, `Route`, `BeginTest`, `EndTest`, `BeginPost`, `EndPost` per job, and a
failure beside each call that may fail (`ListFails`, `ReadFails`, `RejectRow`,
`FailTest`, `FailPost`), and one that never returns (`QueryHangs`, `HangTest`,
`HangPost`, `hung` of a measure), which keeps its thread. The database is read afresh
by every query and may have changed in between, so `ListChecks` and `ReadRows` take
any checks and any rows of the check. The order of a queue is not kept, since several
consumers overtake each other anyway: any waiting job may be next. `Leave` is the end
of one check in the outer split and is part of the three actions that end one. An
exception is logged by Camel's default error handler, without redelivery, and the
split goes on, having no `stopOnException`.

**`JsvcLaunch`.** A word is one member of a small set; `parse()` is one step
per turn of its loop, `find()` one per path tried. Directories, files and the
virtual machines of each `jvm.cfg` are the data of a machine. `out` is what the
two descriptors are open on; a logger is a number, and each `SetOutput` that
needs one has its own. A call that may fail sets `trouble` and is a disjunct.

**`Procrun`.** `main` is where serviceMain is, `stopper[s]` where the thread of stop
`s` is, `worker[w]` the Java thread or program of either. The handles they share are
`event` (`gShutdownEvent`, with `signaled` for `SetEvent`), `signal` (`gSignalEvent`,
`gSignalValid`), `sysJvm` (`_st_sys_jvm`), `exitCode` (`vmExitCode`); the JVM itself
is `vm`, which is not the same as the pointer to it. A wait with a timeout is two
disjuncts, one without a single one. `told` says that the stop class has told the
service to end and is read by fairness and by the end of the program only. `ended` is
the code each program has ended with and `setter` whose is in `exitCode`: a Java
worker sets it as it throws, the code of a child is recorded by the thread that waits
for it (`Recorded`), and `System.exit` sets it from any thread. Only the properties
read the two. Actions of one thread, from a wait to the next use of a shared variable,
are one step each, so that every order of them occurs.

**`RProcess`.** `running` is `CHILD_RUNNING`, which only a close clears;
`reader[o]` and `monitor` are the threads; `caller[c]` is where a thread of
the service is in `apxProcessWait` or `WM_CLOSE`. `heir` is a program the child
has started that holds its pipes. A `Write` puts one character in a pipe, or nothing
(`empty` is where): the reader takes that for the end. `RecordElsewhere` is everybody
else in the process who sets `vmExitCode`, as `Procrun` has them one by one.

**`ServiceControl`, `ProcrunAdmin`, `ProcrunManager`, `ProcrunTools`.** A setting has
as its value the client it comes from, so that an overwritten value shows. The 33
options of the registry are one (`Params`), the names kept by the service manager two,
the pages of the sheet one for each kind. A monitor's three threads are actions of
`m`; messages to its window are handled while it `Pumps`. Pausing and restarting are
left out: restart sends control 128, which the service ignores. The dependent services
are stopped in a step of its own (`Depended`), from which a client may not wake up.
`multi` are the monitors started with `--AllowMultiInstances`, `peer` the window a
client has sent a message to, and `back` the monitors in which the last edit of a name
typed back the name read first. Which client exists, what it may do and how often is
the `scene`.

**`ProcrunOptions`.** The only module with characters: its buffers with a NUL
behind every element are what the properties are about. `given` records what was
taken for each option and is read by the properties only. A variable is there or not,
is empty, or too long (`HugMax` stands for `SIZ_HUGMAX`), and reading it may fail with
an error, which ends the loop (`EnvFails`). A save stores a text, and for an empty one
deletes the value (`Stores`). `Unquoted` is the loop of
the parser over the characters of a value; `Pieces` is what that loop should give,
read off the whole text: the characters between the cuts, a cut being a separator with an
even number of each quote before it. `Split` cuts at the NULs. Assumed of the inputs
(`TextsAssumption`): a C string has no NUL in it, and a list of the registry ends
with the empty element.

**`SnmpCollector`.** The join is one step per poller, after a step for reading the
files; what is thrown anywhere in it ends in the catch of `configure`, with no
route. A hash set that keeps its order is the list of its first places (`Distinct`,
`Collected`). The names and
lists of the catalog are data of a `Catalogs` member; an OID is a model of its text,
because a file may spell it with a leading dot and the agent does not. A poll, its
answer and its loss, and every stage of a binding are steps of their own; a queue
hands out any binding it holds. The two routes that share one builder share its
routeId; whether Camel accepts that is left open.

## 3. Runs

| Run | Instance | Checks |
|---|---|---|
| `property_cache` | 3 threads, 2 keys, 1 failing read | `MissOnlyAfterFailedLoad` |
| `jsvc_exclusion` | 2 starts, 1 stop, 3 pids, 2 inodes, 1 crash, 1 reused pid | `OneServicePerFile`, `OneServiceUnlessTorn`, `StoppedIsDead`, `EndLeavesNoPid`, `StopEndsGenerations` |
| `jsvc_live` | 2 starts, one with `-wait`, 2 pids, 1 signal, fair | `ReadyMeansServing`, `CheckEnds`, `StopHonoured`, `ReloadHonoured` |
| `jsvc_loop` | 4 signals | `AtMostOneSleep`, `UserSignalsServed`, `ImplementsRequestLoop` |
| `jsvc_launch` | 2700 command lines, 30 more on each of 8 machines under 3 names, 1 reopening | `ReadAsWritten`, `LibraryAsAsked`, `OutputArrives` |
| `service_check` | 1 poll, 2 checks, 3 tests, 1 consumer per queue, 2 senders, 1 crash, fair | `WholeRequests`, `FailureIsLocal`, `DeliverySafety`, `TestsEnd`, `MeasuresEnd` |
| `procrun_service` | 7 services, 1 stop, fair | `StartTells`, `OrderedStop`, `BreakOnlyIfAsked`, `FailureStaysVisible`, `ToldEnds` |
| `procrun_process` | 2 callers, 2 streams of 1 character, an empty write to one, a code set by others, fair | `OutputComplete`, `ExitCodeKnown`, `ClosedIsGone`, `CloseEnds` |
| `procrun_tools` | 7 scenes of up to 3 of 2 commands and 2 monitors, fair | `OneMonitor`, `OnlyGivenWritten`, `EditsAreSaved`, `CommandEnds`, `DeletedGoes`, `IconFollows` |
| `procrun_options` | lines of up to 3 options, 4 environments, 2 registries | `PiecesKept`, `LastWordWins` |
| `snmp_collector` | 8 catalogs of up to 2 pollers, 3 states of each file, 2 polls per route | `PolledAsListed`, `MeasuredAsListed` |
| `jsvc_one_service` | as small as shows it | `OneService`, violated: section 6 |

Types are not among the properties of the runs; those of `Jsvc` and `RProcess`
are proved.

What they show:

- *property_cache*. A thread that finds the table non-empty never reads it
  half-filled, though threads that all found it empty load it one after the other.
  Deadlock is checked too: a read that fails gives the monitor back. Three threads
  are one loader, one that raced it into `load` and one that only reads.
- *jsvc_exclusion*. Two children past `check_pid` never share an inode
  (`OneServicePerFile`), whatever dies with the lock. One service per path holds as
  long as no controller has unlinked a file in use (`torn`); the unlink is the only
  way to break it. Success of `-stop` means that the process it signalled is no JVM
  any more, with the same exception, and a controller that ended leaves no file that
  names its child. After a child has accepted a stop no later generation is forked
  unless something crashed. Two instances with three pids let either restart while the
  other runs; two inodes let one child hold an unlinked file while another creates a
  new one; more than one stop adds nothing, since stop commands do not see one
  another. The crash is a death by a signal, an abort that asks for a restart, a
  `System.exit` of the service or the loss of a controller, at any point; signals by
  hand would add the same deaths (the proofs cover any number).
- *jsvc_live*. The `jsvc_up` file that `wait_child` finds belongs to a JVM that
  is in its loop at that moment. Nobody waits for the lock for ever; an accepted
  stop ends the controller, an accepted reload starts another generation.
- *jsvc_loop*. The loop implements what `Jsvc` assumes of it: the first request
  decides between exit and restart whatever follows. A request that arrives
  between the test and the sleep is slept over at most once; a `SIGUSR1` or
  `SIGUSR2` that comes while one is served is served again. Four signals are one
  of each kind, or a repetition with a request around it.
- *jsvc_launch*. An accepted line has been read as written, except behind a
  second `-wait` without its number; the library loaded is in the home named
  and of the virtual machine asked for; output goes where it was sent, at the
  start and after a reopening, except for two pairs (section 6). Two options are
  every pair that can mask or repeat one another; three words follow the class.
- *service_check*. Every interleaving of failures in one poll of a check with
  two URL tests, which share every queue, and a check with a row of an unknown type, with
  calls that hang and a crash at any point. A request is taken on whole or not at all,
  a test is taken on and settled at most once, and failures stay local. The router's
  empty `<otherwise>`, which would lose a test silently, is never reached
  (`ServiceCheckProofs!Knows`). No call has a time-out, so that not every test is settled.
  What holds is the price of a call that hangs: one thread. A test is left waiting only
  if a call made for it hangs or as many hang as its queue has consumers (`Starved`), a
  measure only if hung commands hold all consumers of `exec-in`; failures cost
  nothing, and event and measure do not wait for one another. One consumer per
  queue and two senders are the smallest in which some calls hang and the queue goes on,
  and in which all do; the code has 10 and 35. Polls that overlap are left to the
  proofs, which cover any number: they share only the consumers.
- *procrun_service*. The start is reported as it went although the status of the
  worker is read between two events; after `gShutdownEvent` was seen the stop has
  nothing left to do; the event that ends the event thread is not taken for a
  request; a service whose program has failed is not reported as ended well, unless a
  stop covers it up (`CoveredUp`); a service told to end does, with one
  exception that is in the property. Seven services have each pair of
  modes of start and stop that meet in the code, with each kind of timeout. One
  stop is enough for the SCM, which sends a control only to a running service;
  that a console event may start another at the same time is left to the
  proofs, which cover any number.
- *procrun_process*. What a wait and a close mean, whoever else waits or closes
  meanwhile. One character per stream is enough to be still in the pipe, and to be
  before or behind an empty write; one code set by others is enough to differ.
- *procrun_tools*. Two commands beside each other; a command beside the sheet and
  beside the icon; a sheet edited twice; the progress box; two monitors, each with or
  without `--AllowMultiInstances` (of those without it one has a window, whoever came
  first); two windows beside a delete, which finds one of them.
  Each scene is a pair that shares state; three clients at once would otherwise only
  repeat them, the entry of the service being read afresh by each.
- *procrun_options*. Every line of two options of any kind and of three of the
  list, in any order, with the environment and the registry empty or not, and variables that
  are empty, too long or cannot be read. Three
  texts are one that is discarded, one that is kept and one that is appended.
- *snmp_collector*. Filling in ports and communities never polls a host twice or at
  the address of another list, though the lists share hosts and the pollers share
  lists; a file that is missing or broken gives no route rather than some. A value
  is sent for the host it came from, under a metric its poller lists, and once,
  unless the lists themselves give one OID two metrics.
  The catalogs are those in which two lists, two pollers or two spellings of an OID
  meet, and the empty ones; a second poll overtakes the first.

Every bound is a constant whose name begins with `Max`, the size of a set, or a
number of a scene. All runs but `property_cache` set `CHECK_DEADLOCK FALSE`:
controllers, loops, polls, processes and command lines end, and leave states
without a successor. Symmetry is used only in runs that check safety.

## 4. Fairness

- `PropertyCache`: safety only; that a failed read gives the monitor back is what the
  check for deadlock watches.
- `Jsvc`: the system schedules every process, the kernel grants the lock to some
  waiter, calls into the JVM return, and `init` waits for orphans. Nothing
  obliges anyone to start, stop, signal, crash or reuse a pid. Calls into the
  JVM that return are an assumption about the daemon that it does not quite
  meet: `BoundaryEventDaemon.start()` blocks (section 7).
- `JsvcLoop`: weak fairness of the loop: it is scheduled and `sleep(60)` ends.
- `ServiceCheck`: the thread of a poll runs (weak). A job or a measure is
  taken further if it can be again and again (strong): it competes for a
  consumer that is taken and freed by others, and the queues are first in,
  first out, so its turn comes. Nothing is assumed of the calls: each returns, throws
  or hangs, since neither the HTTP client (`BoundaryEventRouteBuilder.java:139`), nor the
  data source (`service-check.xml:69`), nor `exec:command` (273) is given a time-out; a
  call that hangs is an action of its own after which nothing is fair for that thread.
  The trigger need not fire. `CheckDelivery` promises no more than safety.
- `Procrun`: the main thread, the stops and the workers run, waits come to their
  end, a stop class returns, and what it has told to end does so. No timeout need
  run out, the program need not end, and nobody need ask for a stop.
- `RProcess`: the threads run and a close once begun goes on. The child need not
  write or end, and a wait need not time out.
- `ProcrunTools`: processes, threads and progress boxes run, windows handle their
  messages (a window asked to close does so in the end, though it may be busy in
  between: strong), and Windows drops a marked service nobody holds. A client asleep
  on a dependent service need not wake up. Users, monitors not started and the service
  itself need do nothing.
- `JsvcLaunch`, `ProcrunOptions`, `SnmpCollector`: safety only; the first two are
  sequential, the third promises nothing of what fails on its way.

## 5. Proofs

`tlapm` checks every leaf; there are no unproved facts besides the constants'
assumptions. These are that `NoThread`, `NoPid`, ... are not members of the sets they
complete, that bounds are natural numbers and callers and clients finitely many, and
what the data of the constants are:

- `Waiting \subseteq Instances`; each test has a check and a type; `Consumers` and
  `Senders` are positive.
- `WordsAssumption`, `ClassPathsAssumption`, `LaunchesAssumption`: an option of jsvc
  is handled by one branch of `parse()`; a class path is cut at its colons and
  expands to names of files that are neither empty nor a colon; a command line is a
  sequence of words and the word behind `-cp` is one whose parts are known.
- `OptionsAssumption`, `CasesAssumption`: the table of procrun has at least one
  option and each has a kind; an environment and a registry say of each whether it
  is there, and an environment whether reading it fails. `OthersAssumption`,
  `HugMaxAssumption`: exit codes are 0 or 1, the length a number.
- `CatalogsAssumption`, `DottedStringAssumption`: a catalog file that parses holds
  lists of entries, in which the hosts or OIDs of a list may be missing; an OID has a
  canonical spelling, which is its own.

**`JsvcProofs`**, for any number of starts, stops, pids, inodes, crashes, signals and
reused pids: `TypeCorrect`, `FileExclusion`, `PathExclusion`, `StopSound`, `EndSound`,
`StopIsLast`, `ReadyIsServing`. None of the properties is inductive. `IInv` adds: a
child in the middle of `check_pid` holds the lock of its inode (`LockOK`); the inode
of a child past it holds that child's pid and nobody is about to overwrite it
(`DataOK`), because a check that came later found the pid alive and an earlier one has
finished; while no file was torn all users use the inode the path names (`PathOK`);
only pids of processes past `check_pid` are ever in a file or signalled (`PastOK`), so
that a pid never passes from one user of the file to another; and where a controller
is tells what its child can be (`KidOK`). Exclusion per file is then immediate: two
holders of an inode are both the pid it holds. `StopIsLast` has an invariant of its
own that relates `asked`, exit statuses and `prior`. `ReadyIsServing` needs that a
`jsvc_up` file names a child in its loop as long as nothing has crashed (`UpOK`):
whoever leaves the loop by itself removes its file in the same step, and a pid used
again has none.

**`JsvcLoopProofs`**, for any number of signals: `FirstWins`, `OneSleep`, and
`Refinement`, that `JsvcLoop` implements `RequestLoop!Init /\ [][Next]`. The
invariant says that `stopping` and `doreload` record the first request, and
that once a request has been slept over the loop is past the sleep for good.

**`JsvcLaunchProofs`**, for any command line, machine and name: `ReadSound`,
`LibrarySound` and `OutputSound`. The properties say what a loop should have computed,
so each invariant says what it has computed so far. `WInv`: every word before `x` is
an option, the value of one or the class, what the options before `x` say of a field
is in `args`, and the words that are passed on are in `opts` in their order. `LInv`:
`args` has the name and home of the words read so far, and while `find()` tries
directories, the one it will find is still to come. `OInv`: a stream that stays on the
console is on it whatever else fails. The operators that loop over lists (class paths,
jars, configuration files, the places of a library) are recursive functions whose
results are lemmas (`ClassPathIs`, `ReadIs`, `BuildIs`, `JavaLibraryIs`), proved with
induction over sets of numbers (`SetInduction`), itself from the well-foundedness of
`<`. The first attempts failed where the properties claimed too much, and they now say
what the code does: a second `jvm.cfg` counts where the first lacks a virtual machine,
a name behind one that is too long is not read (`LibraryAsAsked`).

**`ProcrunProofs`**, for any set of services and any number of stops, the SCM and
the console asking at any time: `Tells`, `Ordered`, `Break` and `Failure`.
`NobodyStops` says that before the service is reported RUNNING no stop exists,
nor an older status that could be reported again; with it `StartKnown` follows
worker and status through the two events. `SetLast`: an event that is set was
set by a stop that is done. `AskedFor`: while `gSignalValid` holds, only a request
sets the event or wakes the thread. `Failure` rests on `FInv`: as long as nobody has covered
it up, the code in `exitCode` is the one the own program has ended with, from the moment its
worker is seen to have ended, since the thread that waits for a child records before it
ends.

**`PrunsrvProofs`**, for any callers and any amount of output: `TypeCorrect`,
`Complete`, `CodeKnown`, `Gone`. The invariant relates the flag, the handle and the
threads (`Kept`), says what is given back (`Returned`) and what the end of a thread
tells as long as nobody closes (`ThreadsTell`): that it has read all there is, or all
up to an empty write, and that the code is recorded or was set by somebody else since.
And for any table of options, command line, environment and registry: `LastWordSound`.
`ReadInv` says that after the parser a row is what its last text says, that each turn
of the environment's loop makes that hold with the variable in place of the texts if
it prevails (`Prevails`: it is read, neither empty nor too long, and none before it in
the table fails), and that a save has stored the rows it has passed and no others.
`PiecesSound` is the longest proof here. It goes in four parts:

1. Cuts (`RankIs`, `PlaceIs`, `CharsNext`, `PartsNext`): a character more makes the last
   part longer (`Grow`) or begins a new one. From this, by induction over the places of a
   text, `SplitAppend` and `SplitConcat`: cutting a concatenation is cutting both halves.
2. The loop (`UnquotedLoop`, `OddNext`, `UnquotedIs`): the quotes open at a place are those
   with an odd number before it, so cutting what the loop copies at its NULs gives
   `Pieces` of the value. It copies every character when there is no apostrophe.
3. The buffer (`PaddedPrefix`, `AppendListIs`): a row that took some texts (`Filled`) is a
   text whose parts are all their pieces, and room behind it: exactly two NULs unless an
   apostrophe was left out, which is why one is allowed in the last text only. `ListEnds`,
   `BeforeIs` and `ElementsAre` show where such a list ends, alone or behind the registry's.
4. The invariant `ListInv`: a row is filled with the texts given so far (`Told`, kept by
   `OptionTells`; `CountingNext` says how another word changes which texts count), then
   with those that count once the variables are read (`Meant`, `EnvTells`), then merged
   (`Listed`, `LoadPieces`), each loop as far as it has come.

The inductions are over a set of numbers (`SetInduction`), from the well-foundedness of
`<`, and a recursive function is shown to exist from its finite beginnings
(`LoopExists`).

**`ProcrunToolsProofs`**, for any commands, monitors and scenes: `One`, `OnlyGiven`
and `Edits`. `OneHolder` says that one process of those without
`--AllowMultiInstances` is between the mutex and its end, which is what keeps windows
apart; `EditsKept` that a field that was changed is on a page whose flag is set, or
the last edit of a name has typed it back. The rest of the invariant are the domains
of the functions involved.

**`SnmpProofs`**, for any catalog, number of polls and answers: `PolledSound` and
`MeasuredSound`. `CatalogInv` says that the configurations are those of the first `next - 1`
pollers, each enabled host of each list once (`Covers`), and that each host list is as
it was given or filled in (`MaybeFilled`). A list that was filled for one poller is filled
again for the next, which changes nothing (`FilledTwice`). `PollInv` says of each
value whose it is and of which OID. For any threads and keys: `MissesAreFailures` of
`PropertyCache`. The monitor is held by exactly the thread inside `load`; with no failure
the table is empty or complete whenever the monitor is free; a thread about to look up
has seen it complete.

**`ServiceCheckProofs`**, for any database, polls, consumers, crashes and calls that
hang: `Whole`, `Local`, `Knows` and `Refinement` (`CheckDelivery`). The
invariant says of each poll which of its rows have become jobs: of a check to
come none, of the check being split its request, of a check dealt with all rows
of a known type, or none if it failed. It needs that a check is on the list of a
poll once and that nothing was found of it before it is read; otherwise the
request could contain a test already on its way, which `CheckDelivery` forbids.

`JsvcLoopProofs!FirstWins` and `ServiceCheckProofs!Knows` state `FirstRequestWins` and
`RouterKnows`, which no run lists: the refinements that the runs check imply them.

Only model-checked: everything under fairness (`CheckEnds`,
`StopHonoured`, `ReloadHonoured`, `UserSignalsServed`, `TestsEnd`,
`MeasuresEnd`, `ToldEnds`, `CloseEnds`, `CommandEnds`, `DeletedGoes`,
`IconFollows` and the fairness part of `ImplementsRequestLoop`), because TLAPS
reasons about neither fairness nor `ENABLED` here. Every safety property that a passing
run checks is a theorem.

## 6. Disagreements between code and documentation

The first is a run in which TLC finds the sentence violated; the proofs above show
how far it does hold. The others are behaviours of the models, met while writing
them; where a property would say the contrary, its exception names the case.

1. `jsvc_one_service`. `check_pid` promises "Check pid and if still running"
   (`jsvc-unix.c:552`) and refuses with "Still running according to PID file".
   But `run_controller` unlinks the path after its child was waited for
   (`jsvc-unix.c:1296`), whoever has written the file since. Start A; stop A's
   child; start B, which finds A's pid dead and writes its own; A's controller
   unlinks B's file; start again: two services.
2. `jsvc -stop` returns 0 ("JVM has stopped", `jsvc-unix.c:768`), and the service
   is up again: its `SIGTERM` arrived before the child had handlers and killed
   it, and the controller restarts a child killed by a signal.
3. A start with `-wait` is told "ready JVM started" (`jsvc-unix.c:738`) although
   its own child is about to be refused: the pid file and the `jsvc_up` file
   belong to the instance that is running.
4. A controller that is told to stop goes on for ever, against "we have to forward
   all interesting signals to the child, and wait for it to die"
   (`jsvc-unix.c:1274`): between two generations `controlled` is a process that
   has gone; before the JVM is up the signal is swallowed by the handler the
   child inherited; and after a reload request a stop is dropped.
5. `-errfile SYSLOG -outfile &2`, or the reverse, loses the merged stream to
   `/dev/null`: it is merged (`jsvc-unix.c:1065`) before the pipe of the logger
   replaces the other (1095, 1102); the manual promises the place of the other
   (`man/jsvc.1.xml:172`, `181`). `&1` for both does not merge at all.
6. `-wait 20 -wait -stop C`: a `-wait` without a number swallows the next word when
   an earlier one has given a valid time (`arguments.c:269`).
7. A reopening with `SYSLOG` forks another logger, known only to the child
   (`jsvc-unix.c:880`); the loggers before are not told to end, and the
   controller ends only its own (1251).
8. "Ensure that shutdown thread exits before us" (`prunsrv.c:1541`) holds only for a
   stop through Java, the only one that creates the event (978); after a stop
   program the main thread may report STOPPED while serviceStop still runs.
   `OrderedStop` says what holds.
9. `INTERROGATE` (`prunsrv.c:1319`) may report RUNNING after the main thread has
   reported STOP_PENDING, as it reads and reports without a lock.
10. "Delete service will stop the service if running" (`prunsrv.c:655`): the result
    of the stop is ignored and the service deleted all the same; it then stays
    in the database until it stops (`DeletedGoes`).
11. `update` writes back the names it has loaded (`prunsrv.c:799`), and the sheet all
    fields of a page that was merely shown: changes made by somebody else in the
    meantime are lost. `OnlyGivenWritten` holds for the options, not the names.
12. In the sheet, a display name typed back to the first one takes the flag of the
    whole page back (`prunmgr.c:618`): an edited description is not saved, unless a
    name is edited to something else afterwards. This is the exception `back` of
    `EditsAreSaved`.
13. In a `++` list, an empty piece or an apostrophe in an earlier text makes the
    pieces behind it vanish (`cmdline.c:206`); an option that is the last word
    and has no value counts as given although it is reported as unrecognized
    (`cmdline.c:177`). The environment overrides the command line; a variable that cannot
    be read leaves those behind it in the table unread (282), silently but for a log line.
14. SNMP: an OID that the lists of a poller give two metrics or two descriptions is
    asked for twice and looked up in a map that keeps the last (`SnmpPollerConfiguration
    .java:71`): the other metric is never measured and the last one twice.
    `MeasuredAsListed` has the case as its exception.
15. One value that is no number loses the whole answer, as the split reads it for a
    log message (`SplitVarBinds.java:43`); an OID written with a leading dot is polled and
    never found by the script.
16. A child that writes nothing in a write of its own is read no further
    (`rprocess.c:149`, 175), while it runs on: its later output is lost, and once the pipe
    is full it blocks. `OutputComplete` has the case as its exception.
17. "store worker's exit code as VM exit code for later use" (`rprocess.c:121`): so does
    the thread that waits for the stop program. A service that failed while its stop
    program ended well is reported STOPPED with 0 (`prunsrv.c:1564`); `CoveredUp` and
    `foreign` are this exception.
18. A stop command of procrun gives dependent services "the 30-second time-out"
    (`service.c:270`), but sleep for the wait hint of each first (328), which may be INFINITE:
    the command never ends and keeps the service open (`CommandEnds`, `DeletedGoes`).
19. No time-out is set for the posts of events, the queries or the command of a measure:
    35 posts, ten tests of a type, or ten commands that hang stop the rest for ever
    (`Starved`).

## 7. What is not modelled

- Time: the 60 s back-off between quick restarts, the one-second polls, the
  sixty tries of `-stop` and every timeout of procrun are "at any moment", which
  allows every timing and says nothing about durations. Delayed signals are
  signals sent later.
- `-nodetach`, `-check`, `-version`, user and capability changes in `Jsvc`; they
  change no shared state, or only fail, which `FailStart` covers, as it does a pid file
  that cannot be opened; that its directory is made first is left out. `JsvcLaunch` has
  those of them that decide where the program goes on.
- Contents: events, measures, messages and log lines have none, only their fate.
  Broken rows are those on which a conversion throws, whatever the reason.
- The pid file and log files of procrun, the loading of `jvm.dll`, the dialogs that
  only show something, the start-up mode on the general page, the account of the logon
  page (of which only the passwords that differ matter here: they end the saving), pause
  and restart of a service.
- The conversions of events, SNMP traps and syslog: functions of
  values without state or interleaving, which unit tests reach.
- The script `beventd` tests the pid file and calls jsvc: `Jsvc` lets starts and
  stops come at any time, so that a composition would add no behaviour, except
  that `start()` of the daemon blocks; such a child stays before `StartService`.
- Libraries: Camel, Quartz, the JDBC driver, the HTTP client, Windows and the
  kernel appear as what the code relies on.
- Hazards that no property can watch here: `kill(pid, 0)` also succeeds for a
  program that got the pid of a dead service (`jsvc-unix.c:581`; `Stranger` does it and a
  refused start is the outcome); `-wait` is divided and multiplied, which is time
  (699); events of an older poll may be posted after newer ones
  (`service-check.xml:39`), and a test disabled between two queries still runs (126);
  `UrlServiceModel.java:98` compares by reference.
- The components with status `not_modelled` in `PROJECT.json`, with the reason.

## 8. Plan

Written, in this order: `PropertyCache`, `Jsvc`, `JsvcLoop` with `RequestLoop`,
`ServiceCheck` with `CheckDelivery` and their proofs; then the Windows service
(`Procrun`, `RProcess`, the tools and `ProcrunOptions`), the launch of jsvc
(`JsvcHome`, `JsvcArguments`, `JsvcLaunch`) and `SnmpCollector`, and the proofs of all
safety properties.

What could follow, by what it would add:

1. `EventConversion`: `RawEvent` truncation, fingerprint fields against
   properties, severity and status of each processor, `UrlServiceModel.isHealthly`
   with its comparison by reference; operators against a reference definition.
2. The pid file of procrun and pausing, in `Procrun` and `ProcrunManager`.
3. Two overlapping stops in the run of `Procrun` and what holds of them.
