------------------------------ MODULE JsvcLoop ------------------------------
(***************************************************************************)
(* The loop in which a jsvc child serves (child() in jsvc-unix.c) and the  *)
(* signal handler that interrupts it (handler()), one step per statement   *)
(* between which a signal can arrive.  The handler runs to its end before  *)
(* the loop goes on; it ends a sleep only if the loop is inside sleep(60)  *)
(* when it arrives, not when the loop is still on its way there.           *)
(***************************************************************************)
EXTENDS Naturals

CONSTANT MaxSignals  \* bound: signals the child is sent

ASSUME MaxSignalsAssumption == MaxSignals \in Nat

VARIABLES
  pc,       \* the loop: test, doze (about to sleep), sleep, reopen?, reopen,
            \* signal?, signal, left
  flags,    \* those of stopping, doreload, doreopen, dosignal that are true
  signals,  \* signals sent so far
  first,    \* history: the first request, TERM or HUP
  naps,     \* history: whole 60 s sleeps since the first request
  unserved  \* history: USR1 and USR2 that arrived after the last time the
            \* loop began to serve their kind

vars == <<pc, flags, signals, first, naps, unserved>>

TypeOK ==
  /\ pc \in {"test", "doze", "sleep", "reopen?", "reopen", "signal?", "signal", "left"}
  /\ flags \subseteq {"stopping", "doreload", "doreopen", "dosignal"}
  /\ signals \in 0..MaxSignals
  /\ first \in {"none", "TERM", "HUP"}
  /\ naps \in Nat
  /\ unserved \subseteq {"USR1", "USR2"}

Init ==
  /\ pc = "test"
  /\ flags = {}
  /\ signals = 0
  /\ first = "none"
  /\ naps = 0
  /\ unserved = {}

----------------------------------------------------------------------------
(* The flags each signal raises; SIGINT does what SIGTERM does.            *)
Raises == [TERM |-> {"stopping"}, HUP  |-> {"stopping", "doreload"},
           USR1 |-> {"doreopen"}, USR2 |-> {"dosignal"}]

(* handler(sig): a reload is dropped when a request is already scheduled.  *)
Handle(sig) ==
  flags' = IF sig = "HUP" /\ "stopping" \in flags THEN flags ELSE flags \cup Raises[sig]

(* A signal arrives; a sleep in progress returns early.                    *)
Signal(sig) ==
  /\ signals < MaxSignals
  /\ signals' = signals + 1
  /\ Handle(sig)
  /\ pc' = IF pc = "sleep" THEN "reopen?" ELSE pc
  /\ first' = IF first = "none" /\ sig \in {"TERM", "HUP"} THEN sig ELSE first
  /\ unserved' = unserved \cup ({sig} \cap {"USR1", "USR2"})
  /\ UNCHANGED naps

(* while (!stopping).                                                      *)
Test ==
  /\ pc = "test"
  /\ pc' = IF "stopping" \in flags THEN "left" ELSE "doze"
  /\ UNCHANGED <<flags, signals, first, naps, unserved>>

(* sleep(60) is entered.                                                   *)
FallAsleep ==
  /\ pc = "doze"
  /\ pc' = "sleep"
  /\ UNCHANGED <<flags, signals, first, naps, unserved>>

(* Mutant of WakeUp: the sleep is resumed until a request has come         *)
(* (a restarted nanosleep).                                                *)
WakeUpAgain ==
  /\ pc = "sleep"
  /\ pc' \in {"sleep", "reopen?"}
  /\ naps' = IF first = "none" THEN naps ELSE naps + 1
  /\ naps < 3
  /\ UNCHANGED <<flags, signals, first, unserved>>

(* The 60 seconds are over.                                                *)
WakeUp ==
  /\ pc = "sleep"
  /\ pc' = "reopen?"
  /\ naps' = IF first = "none" THEN naps ELSE naps + 1
  /\ UNCHANGED <<flags, signals, first, unserved>>

(* if (doreopen) { doreopen = false; ...                                   *)
TestReopen ==
  /\ pc = "reopen?"
  /\ pc' = IF "doreopen" \in flags THEN "reopen" ELSE "signal?"
  /\ flags' = flags \ {"doreopen"}
  /\ unserved' = IF "doreopen" \in flags THEN unserved \ {"USR1"} ELSE unserved
  /\ UNCHANGED <<signals, first, naps>>

(* Mutant of Reopen: doreopen is cleared after set_output.                 *)
ReopenClearing ==
  /\ pc = "reopen"
  /\ pc' = "signal?"
  /\ flags' = flags \ {"doreopen"}
  /\ UNCHANGED <<signals, first, naps, unserved>>

(* ... set_output(...) }                                                   *)
Reopen ==
  /\ pc = "reopen"
  /\ pc' = "signal?"
  /\ UNCHANGED <<flags, signals, first, naps, unserved>>

(* if (dosignal) { dosignal = false; ...                                   *)
TestSignal ==
  /\ pc = "signal?"
  /\ pc' = IF "dosignal" \in flags THEN "signal" ELSE "test"
  /\ flags' = flags \ {"dosignal"}
  /\ unserved' = IF "dosignal" \in flags THEN unserved \ {"USR2"} ELSE unserved
  /\ UNCHANGED <<signals, first, naps>>

(* Mutant of CallSignal: all flags are reset once java_signal is done.     *)
CallSignalResetting ==
  /\ pc = "signal"
  /\ pc' = "test"
  /\ flags' = {}
  /\ UNCHANGED <<signals, first, naps, unserved>>

(* ... java_signal() }; it returns.                                        *)
CallSignal ==
  /\ pc = "signal"
  /\ pc' = "test"
  /\ UNCHANGED <<flags, signals, first, naps, unserved>>

Loop == \/ Test \/ FallAsleep \/ WakeUp
        \/ TestReopen \/ Reopen \/ TestSignal \/ CallSignal

Next == Loop \/ \E sig \in {"TERM", "HUP", "USR1", "USR2"} : Signal(sig)

(* The loop is scheduled and sleep(60) ends; signals need not come.        *)
Spec == Init /\ [][Next]_vars /\ WF_vars(Loop)

----------------------------------------------------------------------------
(* The loop ends with the request that came first: a HUP after a TERM does *)
(* not turn the shutdown into a restart, nor a TERM a restart into a       *)
(* shutdown (the exit code 123 or 0 of child()).                           *)
FirstRequestWins ==
  pc = "left" => /\ first # "none"
                 /\ "doreload" \in flags <=> first = "HUP"

(* A request that arrives between the test of stopping and the sleep is    *)
(* not forgotten but slept over, once: the loop is left at most one sleep  *)
(* of 60 s after the request.                                              *)
AtMostOneSleep == naps <= 1

(* A USR1 or USR2 that arrives while an earlier one is being served is     *)
(* served again, unless the loop is left: its flag is cleared before       *)
(* set_output or java_signal runs.                                         *)
UserSignalsServed ==
  /\ "USR1" \in unserved ~> "USR1" \notin unserved \/ pc = "left"
  /\ "USR2" \in unserved ~> "USR2" \notin unserved \/ pc = "left"

(* The loop is what the supervisor takes it to be.                         *)
Promise == INSTANCE RequestLoop WITH
  asked <- IF "stopping" \notin flags THEN "none"
           ELSE IF "doreload" \in flags THEN "reload" ELSE "stop",
  left  <- pc = "left"

ImplementsRequestLoop == Promise!Spec
=============================================================================
