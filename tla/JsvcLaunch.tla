----------------------------- MODULE JsvcLaunch -----------------------------
(***************************************************************************)
(* main() of jsvc-unix.c up to the controller: the command line read word  *)
(* by word, the user checked, Java looked for, the program executed anew   *)
(* under the name of -procname with the libraries of Java on its path,     *)
(* the detachment, and where standard output and error go, at the start    *)
(* and each time SIGUSR1 makes the child open them again.  The controller  *)
(* and the child themselves are in Jsvc, a jsvc -stop too.                 *)
(***************************************************************************)
EXTENDS JsvcArguments

CONSTANTS Launches,       \* the command lines, the names and the machines tried
          MaxReopens      \* the reopenings through a logger

ASSUME LaunchesAssumption ==
  \A launch \in Launches :
    /\ IsSeq(launch[1]) /\ IsMachine(launch[3])
    /\ \A i \in 2 .. Len(launch[1]) :
         launch[1][i - 1] \in ClassPath /\ ~IsOption(launch[1][i])
           => launch[1][i] \in DOMAIN ClassPaths

VARIABLES argv, argv0,   \* the command line and the name it is run under
          machine,       \* directories, files, jvm.cfg and JAVA_HOME
          at,            \* where main() is
          x, args,       \* parse(): the word to read and arg_data
          todo, home,    \* find(): the paths still to try, and home_data
          path,          \* the directory put on LD_LIBRARY_PATH, a library's
          out,           \* what descriptors 1 and 2 are open on, in the service
          loggers,       \* the logger processes, the first the controller's
          libr,          \* the library the child loads
          trouble        \* a redirection has failed

vars == <<argv, argv0, machine, at, x, args, todo, home, path, out, loggers, libr, trouble>>
parseVars == <<argv, argv0, machine, todo, home, path, out, loggers, libr, trouble>>
mainVars  == <<argv, argv0, machine, x, args>>

Console(n) == <<"console", n>>
Nowhere == <<"/dev/null", 0>>
Log(l) == <<"SYSLOG", l>>
File(name) == IF name = "/dev/null" THEN Nowhere ELSE <<"file", name>>

Init ==
  /\ \E launch \in Launches :
       argv = launch[1] /\ argv0 = launch[2] /\ machine = launch[3]
  /\ at = "parse" /\ x = 1 /\ args \in Defaults
  /\ todo = <<>> /\ home = NoHome /\ path = NoFile
  /\ out = [n \in 1 .. 2 |-> Console(n)] /\ loggers = {} /\ libr = NoFile
  /\ trouble = FALSE

-----------------------------------------------------------------------------
(* parse: one turn of its loop for each word.                              *)
Reading(words) == at = "parse" /\ x <= Len(argv) /\ argv[x] \in words

Becomes(new, length) == args' = new /\ x' = x + length /\ UNCHANGED <<at, parseVars>>

Refuse == at' = "refused" /\ UNCHANGED <<x, args, parseVars>>

ReadFlag == Reading(DOMAIN Flag) /\ Becomes(Setting(args, Flag[argv[x]]), 1)

ReadValueOnce ==
  /\ Reading(DOMAIN Member)
  /\ LET word == Optional(argv, x) IN
       IF word = <<>> THEN Refuse
       ELSE Becomes(IF \E i \in 1 .. x - 1 : argv[i] = argv[x] THEN args
                    ELSE [args EXCEPT ![Member[argv[x]]] = word[1]], 2)

ReadValue ==
  /\ Reading(DOMAIN Member)
  /\ LET word == Optional(argv, x) IN
       IF word = <<>> THEN Refuse
       ELSE Becomes([args EXCEPT ![Member[argv[x]]] = word[1]], 2)

\* Without a number the time given before still counts, and the word that
\* follows is passed over all the same.
ReadWait ==
  /\ Reading({"-wait"})
  /\ LET word == Optional(argv, x)
         wait == IF word = <<>> THEN args.wait ELSE ReadNumber(word[1])
     IN  IF wait < 10 THEN Refuse ELSE Becomes([args EXCEPT !.wait = wait], 2)

ReadMask ==
  /\ Reading({"-umask"})
  /\ LET word == Optional(argv, x) IN
       IF word = <<>> \/ ReadNumber(word[1]) < 2 THEN Refuse
       ELSE Becomes([args EXCEPT !.umask = ReadNumber(word[1])], 2)

ReadClassPath ==
  /\ Reading(ClassPath)
  /\ LET word == Optional(argv, x) IN
       IF word = <<>> THEN Refuse
       ELSE Becomes([args EXCEPT !.opts = Append(@, EvalClassPath(word[1]))], 2)

ReadVmOption ==
  Reading(VmOptions) /\ Becomes([args EXCEPT !.opts = Append(@, <<argv[x]>>)], 1)

ReadHelp ==
  /\ Reading(Help)
  /\ args' = [args EXCEPT !.help = TRUE, !.dtch = FALSE]
  /\ at' = "parsed" /\ UNCHANGED <<x, parseVars>>

ReadBad == Reading(BadOptions) /\ Refuse

\* The first word that is neither an option nor the value of one.
ReadClass ==
  /\ at = "parse" /\ x <= Len(argv) /\ ~IsOption(argv[x])
  /\ args' = [args EXCEPT !.clas = argv[x], !.args = SubSeq(argv, x + 1, Len(argv))]
  /\ at' = "parsed" /\ UNCHANGED <<x, parseVars>>

NoClass ==
  /\ at = "parse" /\ x > Len(argv)
  /\ at' = IF args.remove THEN "parsed" ELSE "refused"
  /\ UNCHANGED <<x, args, parseVars>>

ParseArguments == \/ ReadFlag \/ ReadValue \/ ReadWait \/ ReadMask \/ ReadClassPath
                  \/ ReadVmOption \/ ReadHelp \/ ReadBad \/ ReadClass \/ NoClass

-----------------------------------------------------------------------------
(* The rest of main().                                                     *)
ExceptAt == <<mainVars, todo, home, path, out, loggers, libr, trouble>>

\* A stop reads the pid file and no more: Jsvc.  checkuser tries to become
\* the user in another process and may fail.
StopOrCheckUser ==
  /\ at = "parsed"
  /\ \/ args.stop /\ at' = "stop" /\ UNCHANGED todo
     \/ ~args.stop /\ args.user # Null /\ at' = "failed" /\ UNCHANGED todo
     \/ ~args.stop /\ at' = "find" /\ todo' = Candidates(machine, args.home)
  /\ UNCHANGED <<mainVars, home, path, out, loggers, libr, trouble>>

\* find: build of one path, the next one if it is no Java home.
FindHome ==
  /\ at = "find"
  /\ IF todo = <<>> THEN at' = "failed" /\ UNCHANGED <<todo, home>>
     ELSE /\ home' = Build(machine, Head(todo))
          /\ todo' = Tail(todo)
          /\ at' = IF home'.path # Null THEN "found" ELSE "find"
  /\ UNCHANGED <<mainVars, path, out, loggers, libr, trouble>>

ShowHelp == at = "found" /\ args.help /\ at' = "helped" /\ UNCHANGED ExceptAt

\* The program is executed again, unless it has the name already: main()
\* starts over with the same words, in a process that finds the library.
Execute ==
  /\ at = "found" /\ ~args.help /\ argv0 # args.procname
  /\ \/ /\ argv0 = "jsvc" /\ at' = "failed"            \* no path to it
        /\ UNCHANGED <<argv0, x, args, home, path>>
     \/ /\ argv0 # "jsvc" /\ at' = "failed"            \* execve fails
        /\ path' = JavaLibrary(args.name, home)
        /\ argv0' = args.procname /\ UNCHANGED <<x, args, home>>
     \/ /\ argv0 # "jsvc" /\ at' = "parse"
        /\ path' = JavaLibrary(args.name, home)
        /\ argv0' = args.procname /\ x' = 1 /\ args' \in Defaults /\ home' = NoHome
  /\ UNCHANGED <<argv, machine, todo, out, loggers, libr, trouble>>

\* fork and setsid; the parent waits for the service or returns (Jsvc).
Detach ==
  /\ at = "found" /\ ~args.help /\ argv0 = args.procname
  /\ at' \in {"redirect"} \cup (IF args.dtch THEN {"failed"} ELSE {})
  /\ UNCHANGED ExceptAt

-----------------------------------------------------------------------------
(* set_output: bad is the call of it that fails, if any.  The descriptor   *)
(* is put on the pipe of the logger last, after the other was merged.      *)
Opened(now, name, bad) ==
  CASE name \in {"&1", "&2"} -> now
    [] name = "SYSLOG"       -> Nowhere
    [] OTHER                 -> IF bad = "open" THEN now ELSE File(name)

Merged(files) ==
  LET second == IF args.errfile = "&1" /\ args.outfile # "&1" THEN files[1] ELSE files[2]
      first  == IF args.outfile = "&2" /\ args.errfile # "&2" THEN second ELSE files[1]
  IN  <<first, second>>

ToLogger(name, now, logger, bad) ==
  IF name = "SYSLOG" /\ bad \notin {"pipe", "fork"} THEN Log(logger) ELSE now

KeepsConsole == args.debug /\ args.errfile = "/dev/null"

SetOutputMergingFirst(bad, logger) ==
  LET names == <<args.outfile, args.errfile>>
      merged == Merged(out)
      opened == [n \in 1 .. 2 |-> Opened(merged[n], names[n], bad)]
  IN  IF KeepsConsole \/ names = <<"&1", "&2">> THEN out
      ELSE [n \in 1 .. 2 |-> ToLogger(names[n], opened[n], logger, bad)]

SetOutput(bad, logger) ==
  LET names == <<args.outfile, args.errfile>>
      opened == [n \in 1 .. 2 |-> Opened(out[n], names[n], bad)]
      merged == Merged(opened)
  IN  IF KeepsConsole \/ names = <<"&1", "&2">> THEN out
      ELSE [n \in 1 .. 2 |-> ToLogger(names[n], merged[n], logger, bad)]

ForksLogger(bad) ==
  /\ ~KeepsConsole /\ bad \notin {"pipe", "fork"}
  /\ "SYSLOG" \in {args.outfile, args.errfile}

Faults == {"none", "open", "pipe", "fork"}

Redirect(bad, logger) ==
  /\ out' = SetOutput(bad, logger)
  /\ loggers' = IF ForksLogger(bad) THEN loggers \cup {logger} ELSE loggers
  /\ trouble' = (bad # "none")

Start ==
  /\ at = "redirect" /\ at' = "run"
  /\ \E bad \in Faults : Redirect(bad, 1)
  /\ UNCHANGED <<mainVars, todo, home, path, libr>>

\* java_init in the child, which ends when it has no library to load.
LoadJava ==
  /\ at = "run" /\ libr = NoFile
  /\ libr' = JavaLibrary(args.name, home)
  /\ at' = IF libr' = NoFile THEN "ended" ELSE "up"
  /\ loggers' = IF libr' = NoFile THEN loggers \ {1} ELSE loggers
  /\ UNCHANGED <<mainVars, todo, home, path, out, trouble>>

\* SIGUSR1: the child, and only the child, redirects its output again,
\* through another logger.
Reopen ==
  /\ at = "up" /\ Cardinality(loggers \ {1}) < MaxReopens
  /\ \E bad \in Faults : Redirect(bad, 2 + Cardinality(loggers \ {1}))
  /\ UNCHANGED <<mainVars, at, todo, home, path, libr>>

\* The service has ended and main() kills the logger it knows of.
EndLogger ==
  /\ at = "up" /\ at' = "ended" /\ loggers' = loggers \ {1}
  /\ UNCHANGED <<mainVars, todo, home, path, out, libr, trouble>>

Next == \/ ParseArguments \/ StopOrCheckUser \/ FindHome \/ ShowHelp \/ Execute
        \/ Detach \/ Start \/ LoadJava \/ Reopen \/ EndLogger

Spec == Init /\ [][Next]_vars

-----------------------------------------------------------------------------
(* What the command line says, read as a whole.                            *)
ClassAt(words) ==
  LET free == { i \in DOMAIN words :
                  ~IsOption(words[i]) /\ (i = 1 \/ words[i - 1] \notin Valued) }
  IN  Min(free \cup {Len(words) + 1})

Sets(word, member) == \/ word \in DOMAIN Member /\ Member[word] = member
                      \/ word \in DOMAIN Flag /\ member \in DOMAIN Flag[word]

Said(words, member) ==
  LET set == { i \in 1 .. ClassAt(words) - 1 : Sets(words[i], member) }
      i   == Max(set)
  IN  IF set = {} THEN { d[member] : d \in Defaults }
      ELSE { IF words[i] \in DOMAIN Member THEN words[i + 1] ELSE Flag[words[i]][member] }

Listed(parts) ==
  Joined([i \in DOMAIN parts |-> IF parts[i] \in DOMAIN Jars THEN Jars[parts[i]]
                                 ELSE IF parts[i] = Empty THEN <<>> ELSE <<parts[i]>>])

\* The elements of a class path, with a colon between two of them.
IsClassPath(entry, parts) ==
  /\ Without(entry, {Empty, ":"}) = Listed(parts)
  /\ \A n \in 1 .. Len(entry) - 1 : ":" \in {entry[n], entry[n + 1]}

\* The options of the VM, each from its place among the words.
PassedOn(words, opts) ==
  LET places == { i \in 1 .. ClassAt(words) - 1 : words[i] \in VmOptions \cup ClassPath } IN
  \E from \in [1 .. Len(opts) -> places] :
    /\ \A k, l \in 1 .. Len(opts) : k < l => from[k] < from[l]
    /\ \A i \in places : \E k \in 1 .. Len(opts) : from[k] = i
    /\ \A k \in 1 .. Len(opts) :
         IF words[from[k]] \in VmOptions THEN opts[k] = <<words[from[k]]>>
         ELSE IsClassPath(opts[k], ClassPaths[words[from[k] + 1]])

MaskedWait(words) ==
  \E i \in 1 .. Len(words) - 1 : words[i] = "-wait" /\ IsOption(words[i + 1])

\* A command line that is accepted has been read as written: the first
\* word that is no option and no value is the class, everything behind it
\* belongs to the class, each member is what the last word about it says,
\* and the options of the VM are passed on in their order, with the jars of
\* every asterisk and a colon between two elements.  The exception is a
\* -wait without its number, which may make the word behind it vanish.
ReadAsWritten ==
  at = "parsed" /\ ~args.help /\ ~MaskedWait(argv) =>
    /\ \A m \in DOMAIN args \ {"opts", "clas", "args", "wait", "umask"} :
         args[m] \in Said(argv, m)
    /\ args.clas = IF ClassAt(argv) > Len(argv) THEN Null ELSE argv[ClassAt(argv)]
    /\ args.args = SubSeq(argv, ClassAt(argv) + 1, Len(argv))
    /\ PassedOn(argv, args.opts)

\* The library a child loads is one the machine has, it is in the home that
\* was named, by word or by JAVA_HOME, it belongs to the virtual machine
\* asked for, the loader was told its directory, and a child that finds
\* none was asked for one its home does not offer.
LibraryAsAsked ==
  /\ at = "up" =>
       /\ libr \in machine.files
       /\ home.path \in ToSet(Candidates(machine, args.home)) \cap machine.dirs
       /\ Len(libr) > 1 => libr[1] = home.path
       /\ args.name # Null => Offers(machine, home.path, args.name) /\ libr[3] = args.name
       /\ path \in {NoFile, libr}
  /\ at = "ended" /\ libr = NoFile => ~Offers(machine, home.path, args.name)

\* Unless a call has failed, or -debug keeps the console, what the service
\* writes goes where -outfile and -errfile say, to a logger that is still
\* there, at the start and after every reopening, with &2 and &1 for the
\* place of the other.  Two pairs are not as the manual has them: a stream
\* merged into one that goes to SYSLOG is lost, and one merged into the
\* other's own console stays on its own.
OutputArrives ==
  LET names == <<args.outfile, args.errfile>>
      Other(n) == 3 - n
      Same(n)  == names[n] = (IF n = 1 THEN "&2" ELSE "&1")
      Place(n) == CASE names[n] = "SYSLOG" -> { Log(l) : l \in loggers }
                    [] names[n] \in {"&1", "&2"} -> {Console(n)}
                    [] OTHER -> {File(names[n])}
  IN  at \in {"run", "up"} /\ ~trouble /\ ~KeepsConsole =>
        \A n \in 1 .. 2 :
          IF ~Same(n) THEN out[n] \in Place(n)
          ELSE IF names[Other(n)] = "SYSLOG" THEN out[n] = Nowhere
          ELSE IF Same(1) /\ Same(2) THEN out[n] = Console(1)
          ELSE IF names[Other(n)] \in {"&1", "&2"} THEN out[n] = Console(n)
          ELSE out[n] = out[Other(n)]
=============================================================================
