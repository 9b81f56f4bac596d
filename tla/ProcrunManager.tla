--------------------------- MODULE ProcrunManager ---------------------------
(* The monitor (prunmgr): one process per user action, of which one keeps   *)
(* an icon, its refresh thread, its menu and the sheet with the settings.   *)
(*                                                                          *)
(* The entry of the service (_currentEntry) is one structure that the       *)
(* window, the refresh thread and the thread of a progress box fill.        *)
EXTENDS Naturals, ServiceControl

CONSTANTS Monitors     \* the processes

ASSUME MonitorsAssumption == Monitors \subseteq Clients

VARIABLES mode,        \* the command
          multi,       \* those started with --AllowMultiInstances
          place,       \* where the main thread is
          peer,        \* the window it has sent a message to
          entry, names,    \* what is known of the service, and of its names
          icon,        \* the icon says that it runs
          posted, asked,   \* IDMS_REFRESH and WM_CLOSE in the queue
          thread,      \* the refresh thread runs
          busy,        \* a progress box starts or stops the service
          sheet, page, changed,    \* the sheet, its fields, _propertyChanged
          edited,      \* fields the user has changed since they were saved
          back,        \* those whose last edit of a name typed it back
          saving,      \* the field PSN_APPLY writes next
          missed, late,    \* for the properties
          edits, boxes, sheets     \* what the users may still do (bound)

boundVars == <<edits, boxes, sheets>>
windowVars == <<mode, multi, place, peer, asked, late>>
entryVars == <<entry, icon, posted, thread, busy, missed>>
sheetVars == <<names, sheet, page, changed, edited, back, saving>>
monitorVars == <<windowVars, entryVars, sheetVars, boundVars>>

Pages == {"general", "params"}
PageOf(o) == IF o \in Srv THEN "general" ELSE "params"
Modes == {"monitor", "start", "manage", "quit"}   \* //MS//, //MR//, //ES//, //MQ//
States == {"stopped", "start", "running", "stop"}

MonitorsOK ==
  /\ mode \in [Monitors -> Modes] /\ multi \subseteq Monitors
  /\ peer \in [Clients -> Monitors \cup {NoClient}]
  /\ place \in [Monitors -> {"new", "mutex", "refused", "asking", "keys", "create", "created",
                             "loop", "closed"}]
  /\ entry \in [Monitors -> States]
  /\ names \in [Monitors -> [Srv -> Values]]
  /\ {icon, posted, thread, busy, sheet, missed} \subseteq [Monitors -> BOOLEAN]
  /\ page \in [Monitors -> [Options -> Values \cup {"hidden"}]]
  /\ changed \in [Monitors -> SUBSET Pages] /\ edited \in [Monitors -> SUBSET Options]
  /\ saving \in [Monitors -> Options \cup {"none"}]
  /\ asked \subseteq Monitors /\ late \subseteq Monitors /\ back \subseteq Monitors
  /\ edits \in Nat /\ boxes \in Nat /\ sheets \in Nat

Each(v) == [m \in Monitors |-> v]

MonitorsInit ==
  /\ mode = Each("monitor") /\ place = Each("new") /\ multi = {}
  /\ peer = [c \in Clients |-> NoClient]
  /\ entry = Each("stopped")
  /\ names = Each([o \in Srv |-> NoClient])
  /\ icon = Each(FALSE) /\ posted = Each(FALSE) /\ busy = Each(FALSE) /\ missed = Each(FALSE)
  /\ thread = Each(FALSE) /\ sheet = Each(FALSE)
  /\ page = Each([o \in Options |-> NoClient])
  /\ changed = Each({}) /\ edited = Each({}) /\ saving = Each("none")
  /\ asked = {} /\ late = {} /\ back = {}

Up(m) == place[m] \in {"created", "loop"}       \* FindWindow finds it
WindowUp == \E m \in Monitors : Up(m)
Pumps(m) == place[m] = "loop" \/ sheet[m]      \* it handles messages
Tray(m) == mode[m] # "manage"                  \* bEnableTry
Move(m, from, to) == place[m] = from /\ place' = [place EXCEPT ![m] = to]
----------------------------------------------------------------------------
(* WinMain, up to the window.  With --AllowMultiInstances no mutex is made  *)
(* and none looked for.                                                     *)
Launch(m, k, several) ==
  /\ place[m] = "new" /\ mode' = [mode EXCEPT ![m] = k]
  /\ multi' = IF several THEN multi \cup {m} ELSE multi
  /\ \/ /\ Open(m) /\ Move(m, "new", IF k = "quit" THEN "refused" ELSE "mutex")
        /\ entry' = [entry EXCEPT ![m] = state]
        /\ names' = [names EXCEPT ![m] = [o \in Srv |-> setting[o]]]
     \/ ~installed /\ Move(m, "new", "closed") /\ UNCHANGED <<handles, entry, names>>
  /\ UNCHANGED <<serviceVars, registryVars, controlVars, peer, asked, late, icon, posted, thread,
                 busy, missed, sheet, page, changed, edited, back, saving>>

MutexExists ==
  \E m \in Monitors \ multi :
    \/ place[m] \in {"keys", "create", "created", "loop"}
    \/ place[m] \in {"refused", "asking"} /\ mode[m] # "quit"

\* Mutant of TakeMutex: the window is looked for instead of the mutex.
TakeMutexByWindow(m) ==
  /\ Move(m, "mutex", IF m \notin multi /\ WindowUp THEN "refused" ELSE "keys")
  /\ UNCHANGED <<sharedVars, mode, multi, peer, asked, late, entryVars, sheetVars>>

TakeMutex(m) ==
  /\ Move(m, "mutex", IF m \notin multi /\ MutexExists THEN "refused" ELSE "keys")
  /\ UNCHANGED <<sharedVars, mode, multi, peer, asked, late, entryVars, sheetVars>>

(* ShowServiceProperties: the general page shows the names as they were     *)
(* when the service was opened.                                             *)
Show(m) ==
  /\ sheet' = [sheet EXCEPT ![m] = TRUE]
  /\ UNCHANGED <<names, back, saving>>
  /\ \/ sheet[m] /\ UNCHANGED <<page, changed, edited>>
     \/ /\ ~sheet[m]
        /\ page' = [page EXCEPT ![m] = [o \in Options |-> IF o \in Srv THEN names[m][o] ELSE "hidden"]]
        /\ changed' = [changed EXCEPT ![m] = {}] /\ edited' = [edited EXCEPT ![m] = {}]

\* The sheet is closed, with what was typed and not applied.
Fold(m) ==
  /\ sheet' = [sheet EXCEPT ![m] = FALSE]
  /\ page' = [page EXCEPT ![m] = [o \in Options |-> NoClient]]
  /\ changed' = [changed EXCEPT ![m] = {}] /\ edited' = [edited EXCEPT ![m] = {}]

(* It ends if FindWindow finds no window, or one whose sheet is open.       *)
Quits(m) ==
  /\ Move(m, "refused", "closed") /\ Leave(m)
  /\ ~WindowUp \/ (mode[m] # "quit" /\ \E w \in Monitors : Up(w) /\ sheet[w])
  /\ UNCHANGED <<peer, asked, sheetVars>>

(* It shows the sheet of a window, or closes it for //MQ//.                 *)
Refused(m) ==
  /\ \/ Quits(m)
     \/ \E w \in Monitors :
          /\ Move(m, "refused", "asking") /\ Up(w) /\ UNCHANGED <<handles, registry, control>>
          /\ peer' = [peer EXCEPT ![m] = w]
          /\ \/ mode[m] = "quit" /\ asked' = asked \cup {w} /\ UNCHANGED sheetVars
             \/ mode[m] # "quit" /\ Pumps(w) /\ ~sheet[w] /\ Show(w) /\ asked' = asked
  /\ UNCHANGED <<serviceVars, setting, key, want, mode, multi, late, entryVars>>

(* SendMessage returns when the sheet it has shown or the window is closed. *)
Gone(c) == peer[c] \in Monitors => ~Up(peer[c])

Answered(m) ==
  /\ Move(m, "asking", "closed") /\ Leave(m)
  /\ Gone(m) \/ (mode[m] # "quit" /\ ~sheet[peer[m]])
  /\ UNCHANGED <<serviceVars, setting, key, want, mode, multi, peer, asked, late, entryVars, sheetVars>>

(* The keys, created if need be, the refresh thread, then the window, which *)
(* draws the icon from what is known, or shows the sheet and nothing else.  *)
MakeKeys(m) ==
  /\ Move(m, "keys", "create") /\ OpenKeys(m)
  /\ thread' = [thread EXCEPT ![m] = TRUE]
  /\ UNCHANGED <<serviceVars, handles, controlVars, mode, multi, peer, asked, late, entry, icon,
                 posted, busy, missed, sheetVars>>

MakeWindow(m) ==
  /\ Move(m, "create", "created")
  /\ icon' = [icon EXCEPT ![m] = entry[m] = "running"]
  /\ IF Tray(m) THEN UNCHANGED sheetVars ELSE Show(m)
  /\ UNCHANGED <<sharedVars, mode, multi, peer, asked, late, entry, posted, thread, busy, missed>>

WindowMade(m) ==
  /\ Tray(m) /\ Move(m, "created", "loop")
  /\ UNCHANGED <<sharedVars, mode, multi, peer, asked, late, entryVars, sheetVars>>

(* WM_CLOSE, from the menu, a delete or //MQ//: whatever else it was doing, *)
(* the process ends, and closes all it has open.                            *)
Close(m) ==
  /\ Up(m) /\ Pumps(m) /\ saving[m] = "none"
  /\ place' = [place EXCEPT ![m] = "closed"] /\ Leave(m)
  /\ asked' = asked \ {m}
  /\ thread' = [thread EXCEPT ![m] = FALSE] /\ entry' = [entry EXCEPT ![m] = "stopped"]
  /\ posted' = [posted EXCEPT ![m] = FALSE] /\ busy' = [busy EXCEPT ![m] = FALSE]
  /\ icon' = [icon EXCEPT ![m] = FALSE] /\ missed' = [missed EXCEPT ![m] = FALSE]
  /\ names' = [names EXCEPT ![m] = [o \in Srv |-> NoClient]] /\ Fold(m)
  /\ UNCHANGED <<serviceVars, setting, key, want, mode, multi, peer, late, back, saving>>
----------------------------------------------------------------------------
(* refreshThread: once per second it compares the state it knows with the   *)
(* one it reads, and posts a refresh when there is a window.  One step:     *)
(* what another thread reads in between only makes it post once more.       *)
\* Mutant of Query: the state it compares with is the one just read.
QueryFirst(m) ==
  /\ thread[m] /\ entry' = [entry EXCEPT ![m] = state]
  /\ UNCHANGED <<sharedVars, windowVars, icon, posted, thread, busy, missed, sheetVars>>

Query(m) ==
  /\ thread[m] /\ entry' = [entry EXCEPT ![m] = state]
  /\ posted' = [posted EXCEPT ![m] = @ \/ (state # entry[m] /\ place[m] = "loop")]
  /\ missed' = [missed EXCEPT ![m] = @ \/ (state # entry[m] /\ place[m] = "created")]
  /\ UNCHANGED <<sharedVars, windowVars, icon, thread, busy, sheetVars>>

(* IDMS_REFRESH, and WM_RBUTTONUP, which reads the entry for the menu but   *)
(* leaves the icon as it is.                                                *)
Refresh(m) ==
  /\ posted[m] /\ Pumps(m) /\ posted' = [posted EXCEPT ![m] = FALSE]
  /\ IF Tray(m) THEN /\ entry' = [entry EXCEPT ![m] = state]
                     /\ icon' = [icon EXCEPT ![m] = state = "running"]
                     /\ missed' = [missed EXCEPT ![m] = FALSE]
                ELSE UNCHANGED <<entry, icon, missed>>
  /\ UNCHANGED <<sharedVars, windowVars, thread, busy, sheetVars>>

Menu(m) ==
  /\ place[m] = "loop" /\ entry[m] # state
  /\ entry' = [entry EXCEPT ![m] = state]
  /\ missed' = [missed EXCEPT ![m] = TRUE]
  /\ UNCHANGED <<sharedVars, windowVars, icon, posted, thread, busy, sheetVars>>

(* The progress box: the commands of the menu do nothing while the sheet is *)
(* shown, which has buttons of its own; //MR// starts whatever the state.   *)
Progress(m, w) ==
  /\ boxes > 0 /\ boxes' = boxes - 1 /\ UNCHANGED <<edits, sheets>>
  /\ Pumps(m) /\ ~busy[m] /\ saving[m] = "none"
  /\ \/ entry[m] = From(w) /\ mode' = mode
     \/ /\ mode[m] = "start" /\ place[m] = "loop" /\ ~sheet[m] /\ w = "running"
        /\ mode' = [mode EXCEPT ![m] = "monitor"]
  /\ Ask(m, w) /\ busy' = [busy EXCEPT ![m] = TRUE]
  /\ UNCHANGED <<registryVars, handles, multi, place, peer, asked, late, entry, icon, posted,
                 thread, missed, sheetVars>>

Watched(m) ==
  /\ Depended(m) \/ Polled(m)
  /\ UNCHANGED <<registryVars, handles, windowVars, entryVars, sheetVars>>

Finished(m) ==
  /\ Checked(m) /\ busy' = [busy EXCEPT ![m] = FALSE]
  /\ entry' = IF Succeeds(m) \/ want[m] = "stopped" THEN [entry EXCEPT ![m] = state] ELSE entry
  /\ posted' = [posted EXCEPT ![m] = TRUE]
  /\ UNCHANGED <<registryVars, handles, windowVars, icon, thread, missed, sheetVars>>
----------------------------------------------------------------------------
(* The sheet.  A page of the registry is filled when it is first shown, and *)
(* filling it counts as a change (EN_CHANGE).                               *)
Configure(m) ==
  /\ sheets > 0 /\ sheets' = sheets - 1 /\ UNCHANGED <<edits, boxes>>
  /\ place[m] = "loop" /\ ~sheet[m] /\ Show(m)
  /\ UNCHANGED <<sharedVars, windowVars, entryVars>>

Visit(m) ==
  /\ sheet[m] /\ saving[m] = "none" /\ \A o \in Reg : page[m][o] = "hidden"
  /\ LET shown == [o \in Reg |-> IF m \in registry THEN setting[o] ELSE NoClient]
     IN /\ page' = [page EXCEPT ![m] = [o \in Options |-> IF o \in Reg THEN shown[o] ELSE page[m][o]]]
        /\ changed' = IF \E o \in Reg : shown[o] # NoClient
                      THEN [changed EXCEPT ![m] = @ \cup {"params"}] ELSE changed
  /\ UNCHANGED <<sharedVars, windowVars, entryVars, names, sheet, edited, back, saving>>

\* Mutant of Type: the field of the display name does not set the flag.
TypeUnnoticed(m, o, v) ==
  /\ edits > 0 /\ edits' = edits - 1 /\ UNCHANGED <<boxes, sheets>>
  /\ sheet[m] /\ saving[m] = "none" /\ page[m][o] \notin {v, "hidden"}
  /\ page' = [page EXCEPT ![m][o] = v] /\ edited' = [edited EXCEPT ![m] = @ \cup {o}]
  /\ changed' = IF o = "DisplayName" THEN changed ELSE [changed EXCEPT ![m] = @ \cup {PageOf(o)}]
  /\ back' = IF o \in Srv THEN back \ {m} ELSE back
  /\ UNCHANGED <<sharedVars, windowVars, entryVars, names, sheet, saving>>

(* A field of the general page that is typed back to what was read first    *)
(* takes the flag of the whole page back.                                   *)
Type(m, o, v) ==
  /\ edits > 0 /\ edits' = edits - 1 /\ UNCHANGED <<boxes, sheets>>
  /\ sheet[m] /\ saving[m] = "none" /\ page[m][o] \notin {v, "hidden"}
  /\ page' = [page EXCEPT ![m][o] = v] /\ edited' = [edited EXCEPT ![m] = @ \cup {o}]
  /\ changed' = IF o \in Srv /\ v = names[m][o]
                THEN [changed EXCEPT ![m] = @ \ {"general"}]
                ELSE [changed EXCEPT ![m] = @ \cup {PageOf(o)}]
  /\ back' = IF o \in Reg THEN back ELSE IF v = names[m][o] THEN back \cup {m} ELSE back \ {m}
  /\ UNCHANGED <<sharedVars, windowVars, entryVars, names, sheet, saving>>

(* PSN_APPLY: every page that has its flag set writes all of its fields.    *)
(* The logon page, the second, ends it for the later ones if the passwords  *)
(* on it differ.                                                            *)
Apply(m) ==
  /\ sheet[m] /\ saving[m] = "none"
  /\ saving' = [saving EXCEPT ![m] = "DisplayName"]
  /\ UNCHANGED <<sharedVars, windowVars, entryVars, names, sheet, page, changed, edited, back>>

After == [DisplayName |-> "Description", Description |-> "Params", Params |-> "none"]
LastOfPage == {"Description", "Params"}

SaveField(m, o) ==
  /\ saving[m] = o
  /\ \E next \in {After[o]} \cup (IF o = "Description" THEN {"none"} ELSE {}) :
       saving' = [saving EXCEPT ![m] = next]
  /\ IF PageOf(o) \in changed[m] /\ (o \in Reg \/ ~marked)
     THEN IF o \in Reg THEN Set(m, o, page[m][o])
          ELSE setting' = [setting EXCEPT ![o] = page[m][o]] /\ UNCHANGED <<key, registry>>
     ELSE UNCHANGED registryVars
  /\ IF o \in LastOfPage
     THEN /\ changed' = [changed EXCEPT ![m] = @ \ {PageOf(o)}]
          /\ edited' = [edited EXCEPT ![m] = {e \in @ : PageOf(e) # PageOf(o)}]
          /\ posted' = [posted EXCEPT ![m] = @ \/ PageOf(o) \in changed[m]]
     ELSE UNCHANGED <<changed, edited, posted>>
  /\ UNCHANGED <<serviceVars, handles, controlVars, windowVars, entry, icon, thread, busy, missed,
                 names, sheet, page, back>>

CloseSheet(m) ==
  /\ sheet[m] /\ saving[m] = "none" /\ ~busy[m] /\ Tray(m) /\ Fold(m)
  /\ UNCHANGED <<sharedVars, windowVars, entryVars, names, back, saving>>

Start(m) ==
  /\ \/ TakeMutex(m) \/ Refused(m) \/ Answered(m) \/ MakeKeys(m) \/ MakeWindow(m) \/ WindowMade(m)
  /\ UNCHANGED boundVars

Shut(m) == Close(m) /\ UNCHANGED boundVars
Refreshed(m) == Refresh(m) /\ UNCHANGED boundVars
Threads(m) == Query(m) /\ UNCHANGED boundVars
Box(m) == (Watched(m) \/ Finished(m)) /\ UNCHANGED boundVars
Saving(m) == (\E o \in Options : SaveField(m, o)) /\ UNCHANGED boundVars

User(m) ==
  \/ (Menu(m) \/ Visit(m) \/ Apply(m) \/ CloseSheet(m)) /\ UNCHANGED boundVars
  \/ Configure(m) \/ \E w \in {"running", "stopped"} : Progress(m, w)
  \/ \E o \in Options, v \in Values : v \in {m} \cup {names[m][e] : e \in {o} \cap Srv} /\ Type(m, o, v)

=============================================================================
