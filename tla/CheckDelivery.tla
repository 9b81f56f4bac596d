--------------------------- MODULE CheckDelivery ---------------------------
(***************************************************************************)
(* What the service check application promises of the tests it performs:   *)
(* a request takes on all its tests at once, each test of a poll is taken  *)
(* on at most once, and every test taken on is settled at most once, with  *)
(* its event accepted by the Boundary API or with the loss of it.  Nothing *)
(* says that a test is settled: a call may hang.  ServiceCheck has the     *)
(* routes and implements this.                                             *)
(***************************************************************************)
CONSTANTS Polls, Tests, checkOf

VARIABLE fate \* none, owed, posted or lost, for each test of each poll

(* A request of one service check is split into its tests.                 *)
Owe(p, S) ==
  /\ S \subseteq {t \in Tests : fate[<<p, t>>] = "none"}
  /\ \A t, u \in S : checkOf[t] = checkOf[u]
  /\ fate' = [j \in Polls \X Tests |->
                IF j[1] = p /\ j[2] \in S THEN "owed" ELSE fate[j]]

(* A test is over.                                                         *)
Settle(j) ==
  /\ fate[j] = "owed"
  /\ \E end \in {"posted", "lost"} : fate' = [fate EXCEPT ![j] = end]

(* The process dies: what it held in memory is gone.                       *)
Forget ==
  fate' = [j \in Polls \X Tests |->
             IF fate[j] = "owed" THEN "lost" ELSE fate[j]]

Init == fate = [j \in Polls \X Tests |-> "none"]

Next ==
  \/ \E p \in Polls : \E S \in SUBSET Tests : Owe(p, S)
  \/ \E j \in Polls \X Tests : Settle(j)
  \/ Forget

Spec == Init /\ [][Next]_fate
=============================================================================
