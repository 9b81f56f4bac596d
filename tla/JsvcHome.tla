------------------------------ MODULE JsvcHome ------------------------------
(***************************************************************************)
(* Where jsvc finds Java: home.c, location.c (the lists of a 64 bit        *)
(* Linux), replace.c and java_library of java.c.  A path is a sequence of  *)
(* pieces, of which $JAVA_HOME and $VM_NAME stand for something else; a    *)
(* machine is a record of its directories, its files and, for each         *)
(* jvm.cfg, the names of the virtual machines it lists.                    *)
(***************************************************************************)
EXTENDS Naturals, Sequences, SequencesExt

Null == "null"                              \* a string that was not given
NoFile == <<>>
NoHome == [path |-> Null, jvms |-> <<>>]
TooLong == "too long"                      \* a name that overruns the buffer

Locations ==
  << "/usr/java/default", "/usr/java", "/usr/local/java",
     "/usr/lib/jvm/default-java", "/usr/lib/jvm/java",
     "/etc/alternatives/java_sdk", "/etc/alternatives/java_sdk_openjdk",
     "/etc/alternatives/jre", "/lib64/jvm/java", "/lib64/jvm/java-openjdk",
     "/lib/jvm/java", "/lib/jvm/java-openjdk" >>

In(place) == <<"$JAVA_HOME", place>>

ConfigFiles == << In("/jre/lib/jvm.cfg"), In("/lib/jvm.cfg"),
                  In("/jre/lib/CPU/jvm.cfg"), In("/lib/CPU/jvm.cfg") >>

Under(dir, places) ==
  [i \in DOMAIN places |-> <<"$JAVA_HOME", dir, places[i], "/libjvm.so">>]

DefaultLibraries ==
  Under("/jre/lib/CPU/", <<"classic", "server", "client", "">>)
  \o Under("/lib/CPU/", <<"classic", "server", "client", "">>)
  \o Under("/jre/bin/CPU/", <<"classic", "">>) \o Under("/bin/CPU/", <<"classic", "">>)
  \o Under("/jre/lib/CPU/", <<"classic/green_threads">>)
  \o Under("/jre/lib/", <<"classic", "client", "">>) \o Under("/lib/", <<"classic", "client", "">>)
  \o Under("/jre/bin/", <<"classic", "client", "">>) \o Under("/bin/", <<"classic", "client", "">>)
  \o Under("/jre/lib/CPU/", <<"fast64", "fast32">>) \o Under("/lib/CPU/", <<"fast64", "fast32">>)
  \o << <<"/usr/lib/libgcj.so.7">>, <<"/usr/lib/libgcj.so.6">> >>

ConfiguredLibraries ==
  << <<"$JAVA_HOME", "/jre/lib/CPU/", "$VM_NAME", "/libjvm.so">>,
     <<"$JAVA_HOME", "/lib/CPU/", "$VM_NAME", "/libjvm.so">> >>

\* Every occurrence of mch in a path becomes rpl; the caller's buffer has
\* room for every path but one with a piece that is too long.
Replace(old, mch, rpl) ==
  [i \in DOMAIN old |-> IF old[i] = mch THEN rpl ELSE old[i]]
Fits(path) == TooLong \notin ToSet(path)

\* The first path of a list that names a file.
FirstFile(machine, paths) ==
  LET found == { i \in DOMAIN paths : paths[i] \in machine.files }
  IN  IF found = {} THEN NoFile ELSE paths[Min(found)]

Resolved(list, home, vm) ==
  [i \in DOMAIN list |-> Replace(Replace(list[i], "$JAVA_HOME", home), "$VM_NAME", vm)]

IsSeq(list) == list \in Seq(ToSet(list))

\* A machine: no directory has the name of a placeholder, no virtual machine
\* that of Null, and every configuration file of a directory has contents.
IsMachine(machine) ==
  /\ {"$VM_NAME", Null} \cap machine.dirs = {}
  /\ \A c \in DOMAIN machine.vms : IsSeq(machine.vms[c]) /\ Null \notin ToSet(machine.vms[c])
  /\ \A d \in machine.dirs :
       ToSet(Resolved(ConfigFiles, d, Null)) \cap machine.files \subseteq DOMAIN machine.vms

-----------------------------------------------------------------------------
\* Sequences one after the other.
Joined(pieces) ==
  LET list[i \in 0 .. Len(pieces)] == IF i = 0 THEN <<>> ELSE list[i - 1] \o pieces[i]
  IN  list[Len(pieces)]

\* What is left of a sequence without the members of a set, in its order.
Without(list, dropped) ==
  Joined([i \in DOMAIN list |-> IF list[i] \in dropped THEN <<>> ELSE <<list[i]>>])

\* A name too long to put in a path ends the reading of a file.
NamesRead(names) ==
  LET long == { i \in DOMAIN names : names[i] = TooLong }
  IN  IF long = {} THEN names ELSE SubSeq(names, 1, Min(long) - 1)

(* parse: the virtual machines of a configuration file whose library is on *)
(* the machine, in the order of the file.                                  *)
Parse(machine, home, cfg) ==
  LET read == NamesRead(machine.vms[cfg])
      Library(n) == FirstFile(machine, Resolved(ConfiguredLibraries, home, n))
  IN  Without([i \in 1 .. Len(read) |-> [name |-> read[i], libr |-> Library(read[i])]],
              [name : ToSet(read), libr : {NoFile}])

(* build: what is known of a Java home, or NoHome when the path is no        *)
(* directory or too long.  Without a configuration file the first of the   *)
(* default libraries is the only virtual machine, and it has no name.      *)
Build(machine, home) ==
  LET cfg == FirstFile(machine, Resolved(ConfigFiles, home, Null))
      default == FirstFile(machine, Resolved(DefaultLibraries, home, Null))
  IN  IF home \notin machine.dirs \/ ~Fits(<<home>>) THEN NoHome
      ELSE [path |-> home,
            jvms |-> IF cfg # NoFile THEN Parse(machine, home, cfg)
                     ELSE IF default = NoFile THEN <<>>
                     ELSE <<[name |-> Null, libr |-> default]>>]

\* What a home offers, read as a whole: the virtual machines it has that its
\* first configuration file lists before a name that is too long.
Offers(machine, home, vm) ==
  LET configs == Resolved(ConfigFiles, home, Null)
      Lists(config) ==
        \E k \in DOMAIN machine.vms[config] :
          machine.vms[config][k] = vm /\ \A j \in 1 .. k : machine.vms[config][j] # TooLong
  IN  /\ \E i \in DOMAIN configs :
           /\ configs[i] \in machine.files /\ Lists(configs[i])
           /\ \A j \in 1 .. i - 1 : configs[j] \notin machine.files
      /\ ToSet(Resolved(ConfiguredLibraries, home, vm)) \cap machine.files # {}

\* find: the paths that are tried, one after the other.
Candidates(machine, named) ==
  LET Given(p) == p \notin {Null, "", "/"}
  IN  IF Given(named) THEN <<named>>
      ELSE IF Given(machine.env) THEN <<machine.env>>
      ELSE Locations

(* java_library: the library of the virtual machine asked for by name, or  *)
(* of the first one.                                                       *)
JavaLibraryOrFirst(name, home) ==
  LET named == { i \in DOMAIN home.jvms : home.jvms[i].name = name }
  IN  IF home.jvms = <<>> THEN NoFile
      ELSE home.jvms[IF named = {} THEN 1 ELSE Min(named)].libr

JavaLibrary(name, home) ==
  LET named == { i \in DOMAIN home.jvms : home.jvms[i].name = name }
  IN  IF home.jvms = <<>> THEN NoFile
      ELSE IF name = Null THEN home.jvms[1].libr
      ELSE IF named = {} THEN NoFile
      ELSE home.jvms[Min(named)].libr
=============================================================================
