--------------------------- MODULE JsvcArguments ---------------------------
(***************************************************************************)
(* The words of a jsvc command line and what parse() of arguments.c does   *)
(* with each.  A word is a string taken as a whole; what a word says       *)
(* beyond its name (a number, the parts of a class path) is given by the   *)
(* constants.                                                              *)
(***************************************************************************)
EXTENDS JsvcHome

CONSTANTS VmOptions,     \* -D, -X, -verbose, -ea, -agentlib ... with their text
          BadOptions,    \* -D alone, -D=value and what no branch knows
          Number,        \* the words atoi and strtol read a number from
          ClassPaths,    \* the parts between the colons of a class path
          Jars           \* the jar files of a directory

Defaults ==
  { [name |-> Null, home |-> Null, user |-> Null, cwd |-> "/", pidf |-> "/var/run/jsvc.pid",
     outfile |-> "/dev/null", errfile |-> "/dev/null", procname |-> "jsvc.exec",
     dtch |-> TRUE, vers |-> FALSE, vershow |-> garbage, help |-> FALSE, chck |-> FALSE,
     stop |-> FALSE, install |-> FALSE, remove |-> FALSE, service |-> FALSE,
     redirectstdin |-> TRUE, debug |-> FALSE, wait |-> 0, umask |-> 63,
     opts |-> <<>>, clas |-> Null, args |-> <<>>] : garbage \in BOOLEAN }

\* The options that set one member to the word that follows them.
Member ==
  [ word \in {"-jvm", "-home", "-java-home", "-user", "-cwd", "-pidfile",
              "-outfile", "-errfile", "-procname"} |->
      CASE word = "-jvm"     -> "name"    [] word = "-user"     -> "user"
        [] word = "-cwd"     -> "cwd"     [] word = "-pidfile"  -> "pidf"
        [] word = "-outfile" -> "outfile" [] word = "-errfile"  -> "errfile"
        [] word = "-procname" -> "procname"
        [] OTHER             -> "home" ]

\* The options that stand alone, with the members they set.
Flag ==
  [ word \in {"-client", "-server", "-version", "-showversion", "-check", "-nodetach",
              "-stop", "-keepstdin", "-service", "-install", "-remove", "-debug", "-X"} |->
      CASE word = "-client"      -> [name |-> "client"]
        [] word = "-server"      -> [name |-> "server"]
        [] word = "-version"     -> [vers |-> TRUE, dtch |-> FALSE]
        [] word = "-showversion" -> [vershow |-> TRUE]
        [] word = "-check"       -> [chck |-> TRUE, dtch |-> FALSE]
        [] word = "-nodetach"    -> [dtch |-> FALSE]
        [] word = "-stop"        -> [stop |-> TRUE]
        [] word = "-keepstdin"   -> [redirectstdin |-> FALSE]
        [] word = "-service"     -> [service |-> TRUE]
        [] word = "-install"     -> [install |-> TRUE]
        [] word = "-remove"      -> [remove |-> TRUE]
        [] word = "-debug"       -> [debug |-> TRUE]
        [] OTHER                 -> <<>> ]

Empty == ""

Setting(args, new) == [m \in DOMAIN args |-> IF m \in DOMAIN new THEN new[m] ELSE args[m]]

Help       == {"-?", "-help", "--help"}
ClassPath  == {"-cp", "-classpath"}
Valued     == DOMAIN Member \cup ClassPath \cup {"-wait", "-umask"}
IsOption(word) == word \in Valued \cup DOMAIN Flag \cup Help \cup VmOptions \cup BadOptions

\* A word belongs to one branch of parse().
ASSUME WordsAssumption ==
  /\ (VmOptions \cup BadOptions) \cap (Valued \cup DOMAIN Flag \cup Help) = {}
  /\ VmOptions \cap BadOptions = {}

ASSUME ClassPathsAssumption ==
  /\ \A word \in DOMAIN ClassPaths :
       LET parts == ClassPaths[word] IN IsSeq(parts) /\ parts # <<>> /\ ":" \notin ToSet(parts)
  /\ Empty \notin DOMAIN Jars
  /\ \A part \in DOMAIN Jars : IsSeq(Jars[part]) /\ {Empty, ":"} \cap ToSet(Jars[part]) = {}

\* optional(): the word after an option, unless it is an option itself.
Optional(argv, x) ==
  IF x + 1 > Len(argv) THEN <<>>
  ELSE IF IsOption(argv[x + 1]) THEN <<>>
  ELSE <<argv[x + 1]>>

\* atoi and strtol, which read 0 from a word without a number.
ReadNumber(word) == IF word \in DOMAIN Number THEN Number[word] ELSE 0

(* eval_ppath: a part that ends with an asterisk becomes the jars of its   *)
(* directory, with colons between them and nothing when there are none.    *)
(* eval_cpath: every part, after a colon unless it is the first, and an    *)
(* empty last part is left out.                                            *)
EvalPath(part) ==
  LET jars == Jars[part]
  IN  IF part \notin DOMAIN Jars THEN <<part>>
      ELSE [i \in 1 .. 2 * Len(jars) - (IF jars = <<>> THEN 0 ELSE 1) |->
              IF i % 2 = 0 THEN ":" ELSE jars[(i + 1) \div 2]]

EvalClassPath(word) ==
  LET parts == ClassPaths[word]
      used  == IF Last(parts) = Empty THEN Len(parts) - 1 ELSE Len(parts)
  IN  Joined([i \in 1 .. used |-> (IF i = 1 THEN <<>> ELSE <<":">>) \o EvalPath(parts[i])])
=============================================================================
