------------------------- MODULE ProcrunToolsProofs -------------------------
(* For any commands, monitors and users: there is one monitor, but for      *)
(* those that were allowed beside it, what a command was not given it does  *)
(* not touch, and what the user has typed is saved by the sheet.            *)
EXTENDS ProcrunTools, TLAPS

(* Of the types only what the proofs need: what the variables are defined   *)
(* for.                                                                     *)
Shape ==
  /\ DOMAIN setting = Options
  /\ DOMAIN place = Monitors /\ DOMAIN saving = Monitors /\ DOMAIN sheet = Monitors
  /\ DOMAIN edited = Monitors /\ DOMAIN changed = Monitors
  /\ DOMAIN page = Monitors /\ DOMAIN names = Monitors
  /\ \A m \in Monitors : DOMAIN page[m] = Options

(* One monitor that needs the mutex has got it and not closed it:           *)
(* FindWindow, which only sees a window, is not what keeps the second out.  *)
Holding == {"keys", "create", "created", "loop"}
OneHolder ==
  \A m, n \in Monitors \ multi : place[m] \in Holding /\ place[n] \in Holding => m = n

(* A field the user has changed is on a page whose flag is set, unless the  *)
(* last edit of a name typed it back, and before WinMain nothing was        *)
(* changed.                                                                 *)
EditsKept ==
  \A m \in Monitors, o \in Options :
    o \in edited[m] =>
      \/ PageOf(o) \in changed[m]
      \/ o \in Srv /\ m \in back

NewIsQuiet == \A m \in Monitors : place[m] = "new" => ~sheet[m] /\ edited[m] = {}

IInv == Shape /\ OneHolder /\ EditsKept /\ NewIsQuiet

(* The variables of a monitor the invariant speaks of.                      *)
own == <<multi, place, names, sheet, page, changed, edited, back, saving>>

(* The initial state satisfies it.                                          *)
LEMMA InitIInv == Init => IInv
BY DEF Init, SharedInit, MonitorsInit, Each, IInv, Shape, OneHolder, EditsKept, NewIsQuiet, Holding,
  Options

(* Nothing of it is lost while only settings change.                        *)
LEMMA OwnUnchanged ==
  ASSUME IInv, UNCHANGED own, DOMAIN setting' = Options
  PROVE  IInv'
BY DEF IInv, Shape, OneHolder, EditsKept, NewIsQuiet, own
----------------------------------------------------------------------------
(* What a command does to the settings.                                     *)
LEMMA CommandStep ==
  ASSUME Shape, NEW c \in Commands, Step(c)
  PROVE  /\ DOMAIN setting' = Options
         /\ \A o \in Reg :
              setting'[o] # setting[o] => ~key' \/ (at[c] = o /\ o \in given[c] /\ setting'[o] = c)
<1> USE DEF Shape, Options, Srv, Reg, sharedVars, serviceVars, registryVars, controlVars, commandVars
<1>1. CASE Load(c) \/ OpenService(c) \/ SetOptions(c) \/ Saved(c) \/ Save(c)
  BY <1>1 DEF Load, OpenService, SetOptions, Saved, Save, OpenKeys
<1>2. CASE UpdateNames(c)
  BY <1>2 DEF UpdateNames, Rename
<1>3. CASE CreateService(c)
  BY <1>3 DEF CreateService
<1>4. CASE Label(c)
  BY <1>4 DEF Label
<1>5. CASE Write(c, "Params", "finish")
  BY <1>5 DEF Write, Set, Go
<1>6. CASE AskService(c) \/ ServicePolled(c) \/ Controlled(c) \/ QueryStatus(c) \/ Delete(c)
  BY <1>6 DEF AskService, ServicePolled, Controlled, QueryStatus, Delete
<1>7. CASE Unregister(c)
  BY <1>7 DEF Unregister, DeleteKeys
<1>8. QED
  BY <1>1, <1>2, <1>3, <1>4, <1>5, <1>6, <1>7 DEF Step

(* Nor does the manager of Windows touch the options.                       *)
LEMMA ServiceStep ==
  ASSUME Shape, Service
  PROVE  DOMAIN setting' = Options /\ \A o \in Reg : setting'[o] = setting[o]
BY DEF Shape, Service, Removed, registryVars, Options, Srv, Reg
----------------------------------------------------------------------------
(* A monitor starts: it takes the mutex only when nobody holds it.          *)
LEMMA StartStep ==
  ASSUME IInv, NEW m \in Monitors, Start(m)
  PROVE  IInv' /\ setting' = setting /\ saving' = saving
<1> USE DEF IInv, Shape, OneHolder, EditsKept, NewIsQuiet, Holding, Move, sharedVars, registryVars,
      entryVars, sheetVars
<1>1. CASE TakeMutex(m)
  BY <1>1 DEF TakeMutex, MutexExists
<1>2. CASE Refused(m) /\ Quits(m)
  <2>1. setting' = setting /\ multi' = multi
    BY <1>2 DEF Refused
  <2>2. QED
    BY <1>2, <2>1 DEF Quits
<1>3. CASE Refused(m) /\ ~Quits(m)
  <2>1. PICK w \in Monitors :
          /\ Move(m, "refused", "asking") /\ Up(w)
          /\ UNCHANGED sheetVars \/ Show(w)
    BY <1>3 DEF Refused
  <2>2. setting' = setting /\ multi' = multi
    BY <1>3 DEF Refused
  <2>3. QED
    BY <2>1, <2>2 DEF Show, Up, Options
<1>4. CASE Answered(m)
  BY <1>4 DEF Answered
<1>5. CASE MakeKeys(m)
  BY <1>5 DEF MakeKeys, OpenKeys
<1>6. CASE MakeWindow(m)
  <2>1. UNCHANGED sheetVars \/ Show(m)
    BY <1>6 DEF MakeWindow
  <2>2. Move(m, "create", "created") /\ setting' = setting /\ multi' = multi
    BY <1>6 DEF MakeWindow
  <2>3. QED
    BY <2>1, <2>2 DEF Show, Options
<1>7. CASE WindowMade(m)
  BY <1>7 DEF WindowMade
<1>8. QED
  BY <1>1, <1>2, <1>3, <1>4, <1>5, <1>6, <1>7 DEF Start

LEMMA LaunchStep ==
  ASSUME IInv, NEW m \in Monitors, NEW k, NEW f, Launch(m, k, f)
  PROVE  IInv' /\ setting' = setting /\ saving' = saving
BY DEF Launch, Move, IInv, Shape, OneHolder, EditsKept, NewIsQuiet, Holding, registryVars

(* The window is closed, or its sheet.                                      *)
LEMMA CloseStep ==
  ASSUME IInv, NEW m \in Monitors, Shut(m) \/ CloseSheet(m)
  PROVE  IInv' /\ setting' = setting /\ saving' = saving
BY DEF Shut, Close, CloseSheet, Fold, IInv, Shape, OneHolder, EditsKept, NewIsQuiet, Holding,
  sharedVars, registryVars, windowVars, Options

(* The sheet: shown, filled, and typed into.                                *)
LEMMA SheetStep ==
  ASSUME IInv, NEW m \in Monitors, Configure(m) \/ Visit(m) \/ Apply(m)
  PROVE  IInv' /\ setting' = setting /\ \A n \in Monitors, o \in Options : saving[n] = o => saving'[n] = o
<1> USE DEF IInv, Shape, OneHolder, EditsKept, NewIsQuiet, Holding, sharedVars, registryVars,
      windowVars, Options, Srv, Reg
<1>1. CASE Configure(m)
  BY <1>1 DEF Configure, Show
<1>2. CASE Visit(m)
  BY <1>2 DEF Visit
<1>3. CASE Apply(m)
  BY <1>3 DEF Apply
<1>4. QED
  BY <1>1, <1>2, <1>3

LEMMA TypeStep ==
  ASSUME IInv, NEW m \in Monitors, NEW o \in Options, NEW v, Type(m, o, v)
  PROVE  IInv' /\ setting' = setting /\ saving' = saving
<1> USE DEF Type, IInv, Shape, sharedVars, registryVars, windowVars
<1>1. Shape' /\ setting' = setting /\ saving' = saving
  OBVIOUS
<1>2. OneHolder' /\ NewIsQuiet'
  BY DEF OneHolder, NewIsQuiet, Holding
<1>3. EditsKept'
  BY DEF EditsKept, PageOf, Options, Srv, Reg
<1>4. QED
  BY <1>1, <1>2, <1>3

(* One field is saved, and at the end of a page what it was about is over.  *)
LEMMA SavingStep ==
  ASSUME IInv, NEW m \in Monitors, NEW o \in Options, SaveField(m, o)
  PROVE  /\ IInv'
         /\ \A r \in Reg : setting'[r] # setting[r] => r = o
         /\ \A n \in Monitors \ {m} : saving'[n] = saving[n]
         /\ o \in edited[m] =>
              \/ setting'[o] = page[m][o]
              \/ IF o \in Reg THEN m \notin registry ELSE marked \/ m \in back
<1> USE DEF SaveField, IInv, Shape, windowVars, registryVars, Set
<1>1. Shape' /\ UNCHANGED <<multi, place, names, sheet, page, back>>
  OBVIOUS
<1>2. OneHolder' /\ NewIsQuiet'
  BY <1>1 DEF OneHolder, NewIsQuiet, Holding
<1>3. EditsKept'
  BY <1>1 DEF EditsKept
<1>4. \A r \in Reg : setting'[r] # setting[r] => r = o
  BY DEF Options
<1>5. ASSUME o \in edited[m]
      PROVE  \/ setting'[o] = page[m][o]
             \/ IF o \in Reg THEN m \notin registry ELSE marked \/ m \in back
  <2>1. CASE PageOf(o) \notin changed[m]
    BY <1>5, <2>1 DEF EditsKept, Srv, Reg
  <2>2. CASE PageOf(o) \in changed[m] /\ o \in Reg
    BY <2>2
  <2>3. CASE PageOf(o) \in changed[m] /\ o \notin Reg
    BY <2>3
  <2>4. QED
    BY <2>1, <2>2, <2>3
<1>6. QED
  BY <1>1, <1>2, <1>3, <1>4, <1>5

(* The refresh thread, the menu and the progress box leave all this alone.  *)
LEMMA EntryStep ==
  ASSUME IInv, NEW m \in Monitors,
         \/ Refreshed(m) \/ Threads(m) \/ Box(m) \/ Menu(m)
         \/ \E w \in {"running", "stopped"} : Progress(m, w)
  PROVE  UNCHANGED own /\ setting' = setting
<1> USE DEF own, sharedVars, registryVars, sheetVars, windowVars
<1>1. CASE Refreshed(m) \/ Threads(m) \/ Menu(m)
  BY <1>1 DEF Refreshed, Refresh, Threads, Query, Menu
<1>2. CASE Box(m)
  BY <1>2 DEF Box, Watched, Finished
<1>3. CASE \E w \in {"running", "stopped"} : Progress(m, w)
  BY <1>3 DEF Progress
<1>4. QED
  BY <1>1, <1>2, <1>3
----------------------------------------------------------------------------
(* What a step of Next may do to the settings and to the fields of a sheet. *)
Given(o) == \E c \in Commands : at[c] = o /\ o \in given[c] /\ setting'[o] = c
SavedBy(o) == \E m \in Monitors : saving[m] = o
Kept(m, o) ==
  \/ setting'[o] = page[m][o]
  \/ IF o \in Reg THEN m \notin registry ELSE marked \/ m \in back

Orderly ==
  /\ \A o \in Reg : setting'[o] # setting[o] => Given(o) \/ SavedBy(o) \/ ~key'
  /\ \A m \in Monitors, o \in Options :
       saving[m] = o /\ saving'[m] # o /\ o \in edited[m] => Kept(m, o)

LEMMA OrderlyUnchanged ==
  ASSUME setting' = setting, \A m \in Monitors, o \in Options : saving[m] = o => saving'[m] = o
  PROVE  Orderly
BY DEF Orderly

LEMMA MonitorStep ==
  ASSUME IInv, NEW m \in Monitors, Monitor(m) PROVE IInv' /\ Orderly
<1>1. CASE Start(m)
  BY <1>1, StartStep, OrderlyUnchanged
<1>2. CASE Shut(m) \/ CloseSheet(m)
  BY <1>2, CloseStep, OrderlyUnchanged
<1>3. CASE \/ Refreshed(m) \/ Threads(m) \/ Box(m) \/ Menu(m)
           \/ \E w \in {"running", "stopped"} : Progress(m, w)
  <2>1. UNCHANGED own /\ setting' = setting
    BY <1>3, EntryStep
  <2>2. QED
    BY <2>1, OwnUnchanged, OrderlyUnchanged DEF own, IInv, Shape
<1>4. CASE Saving(m)
  <2>1. PICK o \in Options : SaveField(m, o)
    BY <1>4 DEF Saving
  <2>2. saving[m] = o
    BY <2>1 DEF SaveField
  <2>3. QED
    BY <2>1, <2>2, SavingStep DEF Orderly, SavedBy, Kept
<1>5. CASE Configure(m) \/ Visit(m) \/ Apply(m)
  BY <1>5, SheetStep, OrderlyUnchanged
<1>6. CASE \E o \in Options, v \in Values : Type(m, o, v)
  BY <1>6, TypeStep, OrderlyUnchanged
<1>7. QED
  BY <1>1, <1>2, <1>3, <1>4, <1>5, <1>6 DEF Monitor, User

LEMMA NextStep ==
  ASSUME IInv, [Next]_vars PROVE IInv' /\ Orderly
<1>1. CASE UNCHANGED vars
  <2>1. UNCHANGED own /\ setting' = setting
    BY <1>1 DEF vars, own, sharedVars, registryVars, monitorVars, windowVars, sheetVars
  <2>2. QED
    BY <2>1, OwnUnchanged, OrderlyUnchanged DEF IInv, Shape, own
<1>2. CASE Service /\ UNCHANGED <<commandVars, monitorVars>>
  <2>1. UNCHANGED own
    BY <1>2 DEF own, monitorVars, windowVars, sheetVars
  <2>2. QED
    BY <1>2, <2>1, ServiceStep, OwnUnchanged DEF Orderly, own, IInv
<1>3. CASE Enter
  <2>1. CASE /\ \E c \in Commands \cap scene.cast, l \in scene.lines : Begin(c, l.kind, l.given)
             /\ UNCHANGED monitorVars
    <3>1. UNCHANGED own /\ setting' = setting
      BY <2>1 DEF own, Begin, sharedVars, registryVars, monitorVars, windowVars, sheetVars
    <3>2. QED
      BY <3>1, OwnUnchanged, OrderlyUnchanged DEF IInv, Shape, own
  <2>2. CASE \E m \in Monitors \cap scene.cast, k \in scene.modes, f \in scene.several : Launch(m, k, f)
    BY <2>2, LaunchStep, OrderlyUnchanged
  <2>3. QED
    BY <1>3, <2>1, <2>2 DEF Enter
<1>4. ASSUME NEW c \in Commands, Command(c)
      PROVE  IInv' /\ Orderly
  <2>1. UNCHANGED own
    BY <1>4 DEF Command, own, TellMonitor, monitorVars, windowVars, sheetVars
  <2>2. CASE Step(c)
    BY <2>1, <2>2, CommandStep, OwnUnchanged DEF Orderly, Given, own, IInv
  <2>3. CASE TellMonitor(c) \/ WindowClosed(c, ~Gone(c))
    <3>1. setting' = setting
      BY <2>3 DEF TellMonitor, WindowClosed, FindMonitor, sharedVars, registryVars
    <3>2. QED
      BY <2>1, <3>1, OwnUnchanged, OrderlyUnchanged DEF IInv, Shape, own
  <2>4. QED
    BY <1>4, <2>2, <2>3 DEF Command
<1>5. QED
  BY <1>1, <1>2, <1>3, <1>4, MonitorStep DEF Next

(* The invariant holds in every state.                                      *)
LEMMA Invariance == Spec => []IInv
<1>1. Init => IInv
  BY InitIInv
<1>2. IInv /\ [Next]_vars => IInv'
  BY NextStep
<1>3. QED
  BY <1>1, <1>2, PTL DEF Spec
----------------------------------------------------------------------------
(* One window: two monitors started at once do not both get past the mutex, *)
(* nor does one that was allowed let a second one in.                       *)
THEOREM One == Spec => []OneMonitor
<1>1. IInv => OneMonitor
  BY DEF IInv, OneHolder, OneMonitor, Up, Holding
<1>2. QED
  BY <1>1, Invariance, PTL

(* A command writes only the options it was given, and only its own values. *)
THEOREM OnlyGiven == Spec => OnlyGivenWritten
<1> DEFINE A == \A o \in Reg : setting'[o] # setting[o] =>
                  \/ \E c \in Commands : at[c] = o /\ o \in given[c] /\ setting'[o] = c
                  \/ \E m \in Monitors : saving[m] = o
                  \/ ~key'
<1>1. IInv /\ [Next]_vars => A
  BY NextStep DEF Orderly, Given, SavedBy
<1>2. IInv /\ [Next]_vars => [A]_vars
  BY <1>1
<1> HIDE DEF A
<1>3. Spec => [][A]_vars
  BY <1>2, Invariance, PTL DEF Spec
<1>4. QED
  BY <1>3 DEF A, OnlyGivenWritten

(* What the user has changed is what Apply saves.                           *)
THEOREM Edits == Spec => EditsAreSaved
<1> DEFINE A == \A m \in Monitors, o \in Options :
                  saving[m] = o /\ saving'[m] # o /\ o \in edited[m] =>
                    \/ setting'[o] = page[m][o]
                    \/ IF o \in Reg THEN m \notin registry ELSE marked \/ m \in back
<1>1. IInv /\ [Next]_vars => A
  BY NextStep DEF Orderly, Kept
<1>2. IInv /\ [Next]_vars => [A]_vars
  BY <1>1
<1> HIDE DEF A
<1>3. Spec => [][A]_vars
  BY <1>2, Invariance, PTL DEF Spec
<1>4. QED
  BY <1>3 DEF A, EditsAreSaved
=============================================================================
