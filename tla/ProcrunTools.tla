---------------------------- MODULE ProcrunTools ----------------------------
(* The commands and the monitors of one service, side by side.              *)
EXTENDS ProcrunAdmin, ProcrunManager

CONSTANTS Scenes       \* which clients there are, their command lines, and what their
                       \* users may do how often (bound)

ASSUME ScenesAssumption ==
  \A s \in Scenes :
    /\ s.cast \subseteq Clients /\ s.modes \subseteq Modes
    /\ \A l \in s.lines : l.kind \in Kinds /\ l.given \subseteq Options
    /\ s.edits \in Nat /\ s.boxes \in Nat /\ s.sheets \in Nat /\ s.several \subseteq BOOLEAN

VARIABLES scene

vars == <<sharedVars, commandVars, monitorVars, scene>>

TypeOK == SharedOK /\ CommandsOK /\ MonitorsOK /\ scene \in Scenes

Init ==
  /\ SharedInit /\ CommandsInit /\ MonitorsInit
  /\ scene \in Scenes
  /\ edits = scene.edits /\ boxes = scene.boxes /\ sheets = scene.sheets

\* Mutant of TellMonitor: no monitor is told.
TellNobody(c) ==
  /\ FindMonitor(c, FALSE)
  /\ UNCHANGED <<mode, multi, place, peer, asked, entryVars, sheetVars, boundVars>>
  /\ late' = late \cup {m \in Monitors : place[m] # "closed" /\ ~Up(m)}

(* docmdDeleteService and the window: FindWindow finds one of those there   *)
(* are; a monitor without one, or a second one, is not told.                *)
TellMonitor(c) ==
  /\ FindMonitor(c, WindowUp)
  /\ UNCHANGED <<mode, multi, place, entryVars, sheetVars, boundVars>>
  /\ \E found \in IF WindowUp THEN {{m} : m \in {n \in Monitors : Up(n)}} ELSE {{}} :
       /\ asked' = asked \cup found
       /\ peer' = [peer EXCEPT ![c] = IF found = {} THEN NoClient ELSE CHOOSE m \in found : TRUE]
       /\ late' = late \cup {m \in Monitors \ found : place[m] # "closed"}

Command(c) ==
  \/ Step(c) /\ UNCHANGED monitorVars
  \/ TellMonitor(c)
  \/ WindowClosed(c, ~Gone(c)) /\ UNCHANGED monitorVars

Monitor(m) == Start(m) \/ Shut(m) \/ Refreshed(m) \/ Threads(m) \/ Box(m) \/ Saving(m) \/ User(m)

Enter ==
  \/ /\ \E c \in Commands \cap scene.cast, l \in scene.lines : Begin(c, l.kind, l.given)
     /\ UNCHANGED monitorVars
  \/ /\ \E m \in Monitors \cap scene.cast, k \in scene.modes, f \in scene.several : Launch(m, k, f)
     /\ UNCHANGED <<commandVars, boundVars>>

Next ==
  /\ \/ Service /\ UNCHANGED <<commandVars, monitorVars>>
     \/ Enter
     \/ \E c \in Commands : Command(c)
     \/ \E m \in Monitors : Monitor(m) /\ UNCHANGED commandVars
  /\ scene' = scene

Spec == Init /\ [][Next]_vars

(* Processes and threads that can take a step do, and windows handle their  *)
(* messages; users and the service need not do anything.                    *)
Fairness ==
  /\ WF_vars(Removed /\ UNCHANGED <<commandVars, monitorVars, scene>>)
  /\ \A c \in Commands : WF_vars(Command(c) /\ scene' = scene)
  /\ \A m \in Monitors :
       /\ WF_vars(Start(m) /\ UNCHANGED <<commandVars, scene>>)
       /\ WF_vars(Threads(m) /\ UNCHANGED <<commandVars, scene>>)
       /\ WF_vars(Box(m) /\ UNCHANGED <<commandVars, scene>>)
       /\ WF_vars(Refreshed(m) /\ UNCHANGED <<commandVars, scene>>)
       /\ SF_vars(m \in asked /\ Shut(m) /\ UNCHANGED <<commandVars, scene>>)
       /\ WF_vars(Saving(m) /\ UNCHANGED <<commandVars, scene>>)

LiveSpec == Spec /\ Fairness
----------------------------------------------------------------------------
(* Of the monitors started without --AllowMultiInstances one has a window,  *)
(* even when two are started at once and whatever others were allowed: the  *)
(* mutex decides, not FindWindow.                                           *)
OneMonitor == \A m, n \in Monitors \ multi : Up(m) /\ Up(n) => m = n

(* An option of the service that a command was not given is not touched:    *)
(* what another command has saved meanwhile is never put back.              *)
OnlyGivenWritten ==
  [][\A o \in Reg : setting'[o] # setting[o] =>
       \/ \E c \in Commands : at[c] = o /\ o \in given[c] /\ setting'[o] = c
       \/ \E m \in Monitors : saving[m] = o
       \/ ~key']_vars

(* Applying the sheet saves every field the user has changed, unless the    *)
(* service or its keys are going away, or the last edit of a name typed it  *)
(* back to the first one and took the flag of the general page with it.     *)
EditsAreSaved ==
  [][\A m \in Monitors, o \in Options :
       saving[m] = o /\ saving'[m] # o /\ o \in edited[m] =>
         \/ setting'[o] = page[m][o]
         \/ IF o \in Reg THEN m \notin registry
            ELSE marked \/ m \in back]_vars

----------------------------------------------------------------------------
(* A command ends, also when the service does not follow: it gives up after *)
(* the wait hint.  A service without limit for its stop is waited for, and  *)
(* a dependent one without limit is slept for.                              *)
CommandEnds ==
  \A c \in Commands :
    at[c] # "new" ~> at[c] \in Done \/ (endless /\ state = "stop") \/ control[c] = "asleep"

(* A deleted service leaves the database, since delete closes the monitor,  *)
(* unless the service did not stop, a monitor that was not found, since it  *)
(* had no window yet or had a second one, or a client is asleep with it     *)
(* open.                                                                    *)
DeletedGoes ==
  marked ~> \/ ~marked \/ state # "stopped"
            \/ \E m \in late : m \in handles
            \/ \E c \in handles : control[c] = "asleep"

(* The icon follows the service, also when a progress box or a refresh are  *)
(* under way, except for a change first seen by the menu or by the refresh  *)
(* thread before the window was known to it.                                *)
IconFollows ==
  \A m \in Monitors :
    place[m] = "loop" /\ icon[m] # (state = "running")
      ~> place[m] = "closed" \/ missed[m] \/ icon[m] = (state = "running")
=============================================================================
