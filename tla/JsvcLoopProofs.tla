-------------------------- MODULE JsvcLoopProofs --------------------------
(***************************************************************************)
(* The loop of a jsvc child for any number of signals: the first request   *)
(* wins, it is slept over at most once, and every step of the loop and of  *)
(* the handler is one the promise made to the supervisor allows.           *)
(***************************************************************************)
EXTENDS JsvcLoop, TLAPS

(* The flags stopping and doreload record the first request.               *)
FlagsOK == /\ "stopping" \in flags <=> first # "none"
           /\ "doreload" \in flags <=> first = "HUP"
           /\ pc = "left" => first # "none"

(* Once a request has been slept over the loop never sleeps again.         *)
NapsOK == \/ naps = 0
          \/ naps = 1 /\ first # "none" /\ pc \notin {"doze", "sleep"}

IInv == TypeOK /\ FlagsOK /\ NapsOK

(* No request, no sleep in the initial state.                              *)
LEMMA InitIInv == Init => IInv
BY MaxSignalsAssumption DEF Init, IInv, TypeOK, FlagsOK, NapsOK

(* Every statement of the loop and every signal preserve it.               *)
LEMMA NextIInv == IInv /\ [Next]_vars => IInv'
<1> SUFFICES ASSUME IInv, [Next]_vars PROVE IInv'
  OBVIOUS
<1> USE MaxSignalsAssumption DEF IInv, TypeOK, FlagsOK, NapsOK
<1>1. ASSUME NEW sig \in {"TERM", "HUP", "USR1", "USR2"}, Signal(sig) PROVE IInv'
  <2>1. CASE sig = "TERM"
    BY <1>1, <2>1 DEF Signal, Handle, Raises
  <2>2. CASE sig = "HUP"
    BY <1>1, <2>2 DEF Signal, Handle, Raises
  <2>3. CASE sig = "USR1"
    BY <1>1, <2>3 DEF Signal, Handle, Raises
  <2>4. CASE sig = "USR2"
    BY <1>1, <2>4 DEF Signal, Handle, Raises
  <2>5. QED
    BY <1>1, <2>1, <2>2, <2>3, <2>4
<1>2. CASE Test
  BY <1>2 DEF Test
<1>3. CASE FallAsleep
  BY <1>3 DEF FallAsleep
<1>4. CASE WakeUp
  BY <1>4 DEF WakeUp
<1>5. CASE TestReopen
  BY <1>5 DEF TestReopen
<1>6. CASE Reopen
  BY <1>6 DEF Reopen
<1>7. CASE TestSignal
  BY <1>7 DEF TestSignal
<1>8. CASE CallSignal
  BY <1>8 DEF CallSignal
<1>9. CASE UNCHANGED vars
  BY <1>9 DEF vars
<1> HIDE DEF IInv
<1>10. QED
  BY <1>1, <1>2, <1>3, <1>4, <1>5, <1>6, <1>7, <1>8, <1>9 DEF Next, Loop

(* The flags always record the first request, and naps the sleeps over it. *)
THEOREM Invariance == Spec => []IInv
BY InitIInv, NextIInv, PTL DEF Spec

(* The exit code of the child is the one of the first request.             *)
THEOREM FirstWins == Spec => []FirstRequestWins
<1>1. IInv => FirstRequestWins
  BY DEF IInv, FlagsOK, FirstRequestWins
<1>2. QED
  BY <1>1, Invariance, PTL

(* A request is slept over at most once.                                   *)
THEOREM OneSleep == Spec => []AtMostOneSleep
<1>1. IInv => AtMostOneSleep
  BY DEF IInv, NapsOK, AtMostOneSleep
<1>2. QED
  BY <1>1, Invariance, PTL

(* The loop implements the safety of RequestLoop: it starts as it does and *)
(* takes only its steps.                                                   *)
THEOREM Refinement == Init /\ [][Next]_vars => Promise!Init /\ [][Promise!Next]_(Promise!rvars)
<1>1. Init => Promise!Init
  BY DEF Init, Promise!Init
<1>2. IInv /\ [Next]_vars => [Promise!Next]_(Promise!rvars)
  <2> SUFFICES ASSUME IInv, [Next]_vars PROVE [Promise!Next]_(Promise!rvars)
    OBVIOUS
  <2> USE DEF IInv, TypeOK, FlagsOK, NapsOK, Promise!Next, Promise!Accept, Promise!Leave,
              Promise!rvars
  <2>1. ASSUME NEW sig \in {"TERM", "HUP", "USR1", "USR2"}, Signal(sig)
        PROVE [Promise!Next]_(Promise!rvars)
    <3>1. CASE sig = "TERM"
      BY <2>1, <3>1 DEF Signal, Handle, Raises
    <3>2. CASE sig = "HUP"
      BY <2>1, <3>2 DEF Signal, Handle, Raises
    <3>3. CASE sig \in {"USR1", "USR2"}
      BY <2>1, <3>3 DEF Signal, Handle, Raises
    <3>4. QED
      BY <3>1, <3>2, <3>3
  <2>2. CASE Test
    BY <2>2 DEF Test
  <2>3. CASE FallAsleep \/ WakeUp \/ TestReopen \/ Reopen \/ TestSignal \/ CallSignal
    BY <2>3 DEF FallAsleep, WakeUp, TestReopen, Reopen, TestSignal, CallSignal
  <2>4. CASE UNCHANGED vars
    BY <2>4 DEF vars
  <2>5. QED
    BY <2>1, <2>2, <2>3, <2>4 DEF Next, Loop
<1>3. QED
  BY <1>1, <1>2, InitIInv, NextIInv, PTL
=============================================================================
