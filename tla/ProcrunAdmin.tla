---------------------------- MODULE ProcrunAdmin ----------------------------
(* The commands of procrun that manage a service: install, update, delete,  *)
(* start and stop, each in a process of its own, with some of the options   *)
(* given on the command line.                                               *)
EXTENDS ServiceControl

CONSTANTS Commands     \* the processes

ASSUME CommandsAssumption == Commands \subseteq Clients

VARIABLES kind, given, \* the command and the options found on its command line
          loaded,      \* what loadConfiguration has read of the others
          at           \* where it is

commandVars == <<kind, given, loaded, at>>

Kinds == {"install", "update", "delete", "start", "stop"}
Places == {"new", "load", "open", "names", "describe", "options", "create", "label", "save", "Params",
           "finish", "window", "closing", "query", "control", "wait", "remove", "unregister"}
Done == {"succeeded", "failed"}

CommandsOK ==
  /\ kind \in [Commands -> Kinds]
  /\ given \in [Commands -> SUBSET Options]
  /\ loaded \in [Commands -> [Options -> Values]]
  /\ at \in [Commands -> Places \cup Done]

CommandsInit ==
  /\ kind = [c \in Commands |-> "stop"] /\ given = [c \in Commands |-> {}]
  /\ loaded = [c \in Commands |-> [o \in Options |-> NoClient]]
  /\ at = [c \in Commands |-> "new"]

Go(c, from, to) == at[c] = from /\ at' = [at EXCEPT ![c] = to]
----------------------------------------------------------------------------
(* main: the command line, then the configuration for all but install and   *)
(* delete.  Only update goes on without one.                                *)
Begin(c, k, g) ==
  /\ Go(c, "new", CASE k = "install" -> "create" [] k = "delete" -> "open" [] OTHER -> "load")
  /\ kind' = [kind EXCEPT ![c] = k] /\ given' = [given EXCEPT ![c] = g]
  /\ loaded' = [loaded EXCEPT ![c] = [o \in Options |-> IF o \in g THEN c ELSE NoClient]]
  /\ UNCHANGED sharedVars

Load(c) ==
  /\ \/ /\ installed /\ key
        /\ loaded' = [loaded EXCEPT ![c] = [o \in Options |->
                         IF o \in given[c] THEN c ELSE setting[o]]]
        /\ Go(c, "load", "open")
     \/ /\ ~(installed /\ key) /\ loaded' = loaded
        /\ Go(c, "load", IF kind[c] = "update" THEN "open" ELSE "failed")
  /\ UNCHANGED <<kind, given, sharedVars>>

(* apxServiceOpen.  An update of what is not there becomes an install. *)
OpenService(c) ==
  /\ \/ /\ Open(c)
        /\ Go(c, "open", CASE kind[c] = "update" -> "names"
                           [] kind[c] = "delete" -> "window" [] OTHER -> "control")
        /\ UNCHANGED control
     \/ /\ ~installed /\ UNCHANGED <<handles, control>>
        /\ Go(c, "open", IF kind[c] = "update" THEN "create" ELSE "failed")
  /\ UNCHANGED <<serviceVars, registryVars, want, kind, given, loaded>>

Finish(c, from, how) == Go(c, from, how) /\ Leave(c) /\ UNCHANGED want
----------------------------------------------------------------------------
(* docmdUpdateService: the names it has loaded are written back, given or   *)
(* not, the display name before the description.                            *)
Rename(c, o, from, to) ==
  /\ \/ /\ ~marked /\ Go(c, from, to)
        /\ setting' = IF loaded[c][o] = NoClient THEN setting
                                                 ELSE [setting EXCEPT ![o] = loaded[c][o]]
        /\ UNCHANGED <<handles, registry, controlVars>>
     \/ marked /\ Finish(c, from, "failed") /\ setting' = setting
  /\ UNCHANGED <<serviceVars, key, kind, given, loaded>>

UpdateNames(c) ==
  \/ Rename(c, "DisplayName", "names", "describe")
  \/ Rename(c, "Description", "describe", "options")

SetOptions(c) ==
  /\ \/ ~marked /\ Go(c, "options", "save") /\ UNCHANGED <<handles, registry, controlVars>>
     \/ marked /\ Finish(c, "options", "failed")
  /\ UNCHANGED <<serviceVars, setting, key, kind, given, loaded>>

(* docmdInstallService: apxServiceInstall, the description if it is given,  *)
(* and the handle is closed before the configuration is saved.              *)
CreateService(c) ==
  /\ \/ /\ ~installed
        /\ installed' = TRUE /\ handles' = handles \cup {c}
        /\ setting' = [setting EXCEPT !["DisplayName"] = loaded[c]["DisplayName"]]
        /\ Go(c, "create", "label")
     \/ /\ installed
        /\ UNCHANGED <<installed, handles, setting>> /\ Go(c, "create", "failed")
  /\ UNCHANGED <<marked, state, endless, key, registry, controlVars, kind, given, loaded>>

Label(c) ==
  /\ Go(c, "label", "save")
  /\ setting' = IF "Description" \in given[c] /\ ~marked
                THEN [setting EXCEPT !["Description"] = c] ELSE setting
  /\ handles' = handles \ {c}
  /\ UNCHANGED <<serviceVars, key, registry, controlVars, kind, given, loaded>>
----------------------------------------------------------------------------
(* saveConfiguration: only what the command line has given is written, one  *)
(* value at a time.  Install ignores that the keys cannot be opened.        *)
Save(c) ==
  /\ OpenKeys(c)
  /\ IF installed THEN Go(c, "save", "Params") /\ UNCHANGED <<handles, controlVars>>
     ELSE /\ Go(c, "save", IF handles \cap {c} = {} THEN "succeeded" ELSE "failed")
          /\ handles' = handles \ {c} /\ UNCHANGED controlVars
  /\ UNCHANGED <<serviceVars, kind, given, loaded>>

\* Mutant of Write: what was loaded is written as well.
WriteAll(c, o, to) ==
  /\ Go(c, o, to)
  /\ IF loaded[c][o] # NoClient THEN Set(c, o, loaded[c][o]) ELSE UNCHANGED registryVars
  /\ UNCHANGED <<serviceVars, handles, controlVars, kind, given, loaded>>

Write(c, o, to) ==
  /\ Go(c, o, to)
  /\ IF o \in given[c] THEN Set(c, o, c) ELSE UNCHANGED registryVars
  /\ UNCHANGED <<serviceVars, handles, controlVars, kind, given, loaded>>

Saved(c) ==
  /\ Finish(c, "finish", "succeeded")
  /\ UNCHANGED <<serviceVars, setting, key, kind, given, loaded>>
----------------------------------------------------------------------------
(* docmdStartService, docmdStopService, and the stop of apxServiceDelete,   *)
(* whose result is ignored.                                                 *)
Wanted(c) == IF kind[c] = "start" THEN "running" ELSE "stopped"

AskService(c) ==
  /\ Go(c, "control", "wait") /\ Ask(c, Wanted(c))
  /\ UNCHANGED <<registryVars, handles, kind, given, loaded>>

ServicePolled(c) ==
  /\ at[c] = "wait" /\ (Depended(c) \/ Polled(c))
  /\ UNCHANGED <<registryVars, handles, commandVars>>

Controlled(c) ==
  /\ Checked(c)
  /\ \/ kind[c] = "delete" /\ Go(c, "wait", "remove") /\ UNCHANGED <<handles, registry>>
     \/ /\ kind[c] # "delete"
        /\ Go(c, "wait", IF Succeeds(c) THEN "succeeded" ELSE "failed")
        /\ handles' = handles \ {c} /\ registry' = registry
  /\ UNCHANGED <<setting, key, kind, given, loaded>>

(* docmdDeleteService: the window of a monitor is closed first, and         *)
(* SendMessage returns when it is.                                          *)
FindMonitor(c, up) ==
  /\ Go(c, "window", IF up THEN "closing" ELSE "query")
  /\ UNCHANGED <<sharedVars, kind, given, loaded>>

WindowClosed(c, up) ==
  /\ ~up /\ Go(c, "closing", "query")
  /\ UNCHANGED <<sharedVars, kind, given, loaded>>

QueryStatus(c) ==
  /\ Go(c, "query", IF state = "stopped" THEN "remove" ELSE "control")
  /\ UNCHANGED <<sharedVars, kind, given, loaded>>

Delete(c) ==
  /\ Go(c, "remove", IF marked THEN "failed" ELSE "unregister")
  /\ marked' = TRUE /\ handles' = handles \ {c}
  /\ UNCHANGED <<installed, state, endless, registryVars, controlVars, kind, given, loaded>>

Unregister(c) ==
  /\ Go(c, "unregister", "succeeded")
  /\ DeleteKeys
  /\ UNCHANGED <<serviceVars, handles, controlVars, kind, given, loaded>>

Step(c) ==
  \/ Load(c) \/ OpenService(c) \/ UpdateNames(c) \/ SetOptions(c) \/ CreateService(c) \/ Label(c)
  \/ Save(c) \/ Write(c, "Params", "finish") \/ Saved(c)
  \/ AskService(c) \/ ServicePolled(c) \/ Controlled(c)
  \/ QueryStatus(c) \/ Delete(c) \/ Unregister(c)

=============================================================================
