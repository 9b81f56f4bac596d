---------------------------- MODULE MCJsvcLaunch ----------------------------
(* Command lines of two options and a rest, eight machines and three names.  *)
EXTENDS JsvcLaunch, TLC

MCVmOptions  == {"-Da=b", "-Xmx9m"}
MCBadOptions == {"-D", "-bad"}
MCNumber     == "5" :> 5 @@ "20" :> 20 @@ "022" :> 18 @@ "1" :> 1
MCClassPaths == "lib/*:x" :> <<"lib/*", "x">> @@ "y:no/*::lib/*:" :> <<"y", "no/*", "", "lib/*", "">>
MCJars       == "lib/*" :> <<"lib/a.jar", "lib/b.jar">> @@ "no/*" :> <<>>

MCOptions ==
  { <<"-jvm", "server">>, <<"-jvm">>, <<"-client">>, <<"-home", "/opt/jdk">>, <<"-home", "/">>,
    <<"-cp", "lib/*:x">>, <<"-classpath", "y:no/*::lib/*:">>, <<"-wait", "20">>, <<"-wait", "5">>,
    <<"-wait">>, <<"-umask", "022">>, <<"-umask", "1">>, <<"-user", "u">>, <<"-debug">>,
    <<"-outfile", "SYSLOG">>, <<"-outfile", "&1">>, <<"-outfile", "&2">>, <<"-outfile", "o">>,
    <<"-errfile", "SYSLOG">>, <<"-errfile", "&1">>, <<"-errfile", "&2">>, <<"-errfile", "e">>,
    <<"-Da=b">>, <<"-Xmx9m">>, <<"-bad">>, <<"-procname", "svc">>, <<"-nodetach">>, <<"-stop">>,
    <<"-remove">>, <<"-help">> }

Rests == { <<"Main">>, <<"Main", "-stop", "y">>, <<>> }

\* Directories of Java: a JDK with both virtual machines, a JRE that lists
\* two and has the second, one with a default library and one with none.
Cfg(dir, place) == <<dir, place>>
Lib(dir, place, vm) == <<dir, place, vm, "/libjvm.so">>

Machine(dirs, files, vms, env) == [dirs |-> dirs, files |-> files, vms |-> vms, env |-> env]

Jdk(dir) ==
  Machine({dir}, {Cfg(dir, "/jre/lib/jvm.cfg"), Lib(dir, "/jre/lib/CPU/", "client"),
                   Lib(dir, "/jre/lib/CPU/", "server")},
          Cfg(dir, "/jre/lib/jvm.cfg") :> <<"client", "server">>, Null)

Jre(dir) ==
  Machine({dir}, {Cfg(dir, "/lib/jvm.cfg"), Lib(dir, "/lib/CPU/", "server")},
          Cfg(dir, "/lib/jvm.cfg") :> <<"client", "server", TooLong, "other">>, Null)

\* One whose first configuration file leaves out what the second lists, and
\* one whose only virtual machine comes after a name that is too long.
Two(dir) ==
  [Jdk(dir) EXCEPT !.files = @ \cup {Cfg(dir, "/lib/jvm.cfg")},
                   !.vms = Cfg(dir, "/jre/lib/jvm.cfg") :> <<"client">>
                           @@ Cfg(dir, "/lib/jvm.cfg") :> <<"server">>]

Late(dir) ==
  [Jdk(dir) EXCEPT !.vms = Cfg(dir, "/jre/lib/jvm.cfg") :> <<"other", TooLong, "server">>]

MCMachines ==
  { Jdk("/usr/java/default"), Jre("/opt/jdk"), Two("/usr/java/default"), Late("/usr/java"),
    [Jdk("/opt/jdk") EXCEPT !.env = "/opt/jdk"],
    [Jre("/usr/lib/jvm/java") EXCEPT !.env = "/"],
    [Jdk("/usr/lib/jvm/java") EXCEPT !.dirs = @ \cup {"/usr/java"}],
    Machine({"/usr/java"}, {<<"/usr/java", "/jre/lib/", "client", "/libjvm.so">>}, <<>>, Null) }

Lines == { a \o b \o r : a \in MCOptions, b \in MCOptions, r \in Rests }

MCLaunches ==
  { <<line, "./jsvc", Jdk("/usr/java/default")>> : line \in Lines }
  \cup { <<a \o <<"Main">>, name, m>> : a \in MCOptions, name \in {"./jsvc", "jsvc", "jsvc.exec"},
                                        m \in MCMachines }
=============================================================================
