--------------------------- MODULE ServiceControl ---------------------------
(* What the programs of procrun that manage a service share: its entry in   *)
(* the database of the service control manager, its settings in the         *)
(* registry, and apxServiceControl, which starts or stops it and waits.     *)
(*                                                                          *)
(* The manager of Windows is external.  A deleted service is only marked:   *)
(* it leaves the database when it is stopped and nobody has it open.        *)
EXTENDS FiniteSets

CONSTANTS Clients,     \* the processes that manage the service
          NoClient     \* no value, or the value from before all clients

ASSUME ClientsAssumption == IsFiniteSet(Clients) /\ NoClient \notin Clients

VARIABLES installed, marked,   \* in the database; DeleteService was called
          state,               \* dwCurrentState
          endless,             \* its wait hint is INFINITE (StopTimeout -1)
          setting,             \* who each setting comes from
          key,                 \* the Parameters keys of the registry exist
          handles,             \* the clients with the service open
          registry,            \* those with the keys open
          control, want        \* apxServiceControl of each client

serviceVars == <<installed, marked, state, endless>>
registryVars == <<setting, key, registry>>
controlVars == <<control, want>>
sharedVars == <<serviceVars, registryVars, handles, controlVars>>

Srv == {"DisplayName", "Description"}    \* APXCMDOPT_SRV: kept by the manager
Reg == {"Params"}                        \* APXCMDOPT_REG: kept under Parameters (one of 33)
Options == Srv \cup Reg
Values == Clients \cup {"old", NoClient}

SharedOK ==
  /\ {installed, marked, endless, key} \subseteq BOOLEAN
  /\ state \in {"stopped", "start", "running", "stop"}
  /\ setting \in [Options -> Values]
  /\ handles \subseteq Clients /\ registry \subseteq Clients
  /\ control \in [Clients -> {"none", "depend", "asleep", "poll", "check"}]
  /\ want \in [Clients -> {"running", "stopped"}]

SharedInit ==
  /\ installed \in BOOLEAN /\ key = installed
  /\ state \in IF installed THEN {"stopped", "running"} ELSE {"stopped"}
  /\ endless \in BOOLEAN /\ marked = FALSE
  /\ setting = [o \in Options |-> IF installed THEN "old" ELSE NoClient]
  /\ handles = {} /\ registry = {}
  /\ control = [c \in Clients |-> "none"] /\ want = [c \in Clients |-> "stopped"]
----------------------------------------------------------------------------
(* The service process and the manager.  A service whose keys are missing   *)
(* cannot load its configuration and exits; a service may hang in a stop.   *)
Runs == state = "start" /\ key /\ state' = "running"
Fails == state \in {"start", "running"} /\ state' = "stopped"
Stops == state = "stop" /\ state' = "stopped"

\* Windows drops the entry once nothing keeps it.
Removed ==
  /\ installed /\ marked /\ state = "stopped" /\ handles = {}
  /\ installed' = FALSE /\ marked' = FALSE
  /\ setting' = [o \in Options |-> IF o \in Srv THEN NoClient ELSE setting[o]]
  /\ UNCHANGED <<state, endless, key, registry, handles, controlVars>>

Service ==
  \/ Removed
  \/ /\ Runs \/ Fails \/ Stops
     /\ UNCHANGED <<installed, marked, endless, registryVars, handles, controlVars>>

(* apxServiceOpen, as all clients use it, and the end of a client. *)
Open(c) == installed /\ handles' = handles \cup {c}

Leave(c) ==
  /\ handles' = handles \ {c} /\ registry' = registry \ {c}
  /\ control' = [control EXCEPT ![c] = "none"]
----------------------------------------------------------------------------
(* apxCreateRegistryW for writing: the keys under Software are created      *)
(* before it finds out that the service has none of its own.                *)
OpenKeys(c) ==
  /\ key' = TRUE
  /\ registry' = IF installed THEN registry \cup {c} ELSE registry
  /\ UNCHANGED setting

(* apxRegistrySetStrW and the like.  The result is ignored: once somebody   *)
(* has deleted the keys nothing is written.                                 *)
Set(c, o, v) ==
  /\ setting' = IF c \in registry THEN [setting EXCEPT ![o] = v] ELSE setting
  /\ UNCHANGED <<key, registry>>

(* apxDeleteRegistryW: handles that are open lose their key. *)
DeleteKeys ==
  /\ key' = FALSE /\ registry' = {}
  /\ setting' = [o \in Options |-> IF o \in Reg THEN NoClient ELSE setting[o]]
----------------------------------------------------------------------------
(* apxServiceControl, step by step. *)
Pending(w) == IF w = "running" THEN "start" ELSE "stop"
From(w) == IF w = "running" THEN "stopped" ELSE "running"

(* StartService and ControlService succeed only from the opposite state,    *)
(* and StartService not for a service that is marked; both may fail for     *)
(* other reasons (disabled, access).                                        *)
Send(c, w) ==
  \/ /\ state = From(w) /\ (w = "running" => ~marked)
     /\ state' = Pending(w)
     /\ control' = [control EXCEPT ![c] = "poll"]
  \/ control' = [control EXCEPT ![c] = "check"] /\ state' = state

(* Before a stop come the dependent services.                               *)
Ask(c, w) ==
  /\ control[c] = "none" /\ c \in handles
  /\ want' = [want EXCEPT ![c] = w]
  /\ IF w = "running" THEN Send(c, w)
     ELSE control' = [control EXCEPT ![c] = "depend"] /\ state' = state
  /\ UNCHANGED <<installed, marked, endless>>

(* __apxStopDependentServices waits 30 seconds for all of them, but first   *)
(* sleeps for the wait hint of each: one whose hint is INFINITE, as that of *)
(* a procrun service without limit is, is never woken up from.  If it gives *)
(* up nothing is sent, which Send allows for.                               *)
Depended(c) ==
  /\ control[c] = "depend"
  /\ Send(c, "stopped") \/ (control' = [control EXCEPT ![c] = "asleep"] /\ state' = state)
  /\ UNCHANGED <<want, installed, marked, endless>>

\* Mutant of Polled: the time without progress is not looked at.
PolledPatiently(c) ==
  /\ control[c] = "poll" /\ state # Pending(want[c])
  /\ control' = [control EXCEPT ![c] = "check"]
  /\ UNCHANGED <<want, serviceVars>>

(* The loop around QueryServiceStatus ends when the state is not pending    *)
(* any more, or without progress within the wait hint, if that is finite.   *)
Polled(c) ==
  /\ control[c] = "poll"
  /\ state = Pending(want[c]) => ~(endless /\ state = "stop")
  /\ control' = [control EXCEPT ![c] = "check"]
  /\ UNCHANGED <<want, serviceVars>>

(* The state when all is over decides the result. *)
Succeeds(c) == state = want[c]

Checked(c) ==
  /\ control[c] = "check"
  /\ control' = [control EXCEPT ![c] = "none"]
  /\ UNCHANGED <<want, serviceVars>>
=============================================================================
