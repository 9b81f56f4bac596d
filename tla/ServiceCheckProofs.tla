------------------------ MODULE ServiceCheckProofs ------------------------
(***************************************************************************)
(* Proofs about the service check application, for every database, number  *)
(* of polls, consumers and crashes: requests are whole, failures local,    *)
(* the router meets no unknown type, and the routes implement              *)
(* CheckDelivery.                                                          *)
(*                                                                         *)
(* The invariant says of each poll which of its rows have become jobs:     *)
(* of a check still to be dealt with none, of the one being split the      *)
(* request, and of one dealt with all the rows of a known type, or none if *)
(* the check failed.  A check is on the list once, and what was found of   *)
(* it is empty until it is read: without this the request of one check     *)
(* could hold a test that is already on its way.                           *)
(***************************************************************************)
EXTENDS ServiceCheck, TLAPS

Shape ==
  /\ thread \in [Polls -> {"waiting", "listing", "between", "parsing",
                           "splitting", "hung", "done", "dead"}]
  /\ todo \in [Polls -> SUBSET Checks]
  /\ check \in [Polls -> Checks \cup {NoCheck}]
  /\ rows \in [Polls -> SUBSET Tests] /\ broken \in [Polls -> SUBSET Tests]
  /\ request \in [Polls -> SUBSET Tests]
  /\ at \in [Jobs -> Places]
  /\ listed \in [Polls -> SUBSET Checks]
  /\ found \in [Polls -> SUBSET Tests]
  /\ failed \in [Polls -> SUBSET Checks]

(* Where the thread of a poll stands and what it holds.                    *)
Held(p) ==
  /\ todo[p] \subseteq listed[p]
  /\ failed[p] \subseteq listed[p] \ todo[p]
  /\ thread[p] \in {"waiting", "listing"} => listed[p] = {} /\ found[p] = {}
  /\ thread[p] = "done" => todo[p] = {}
  /\ IF thread[p] \in {"parsing", "splitting"}
     THEN check[p] \in todo[p]
     ELSE check[p] = NoCheck /\ request[p] = {}
  /\ thread[p] = "splitting" => rows[p] = {}

(* The rows of the check at hand are in the request or still to be parsed; *)
(* nothing is known of the checks to come.                                 *)
Found(p) ==
  \A t \in Tests :
    /\ t \in rows[p] \cup request[p] /\ thread[p] \in {"parsing", "splitting"}
         => checkOf[t] = check[p]
    /\ t \in request[p] => t \in Known
    /\ checkOf[t] = check[p] =>
         (t \in found[p] /\ t \in Known <=> t \in request[p] \/ (t \in rows[p] /\ t \in Known))
    /\ checkOf[t] \in todo[p] /\ checkOf[t] # check[p] /\ thread[p] # "dead"
         => t \notin found[p]

(* Which tests of the poll are jobs.                                       *)
Sent(p) ==
  \A t \in Tests :
    /\ at[<<p, t>>] # "none" => t \in Known /\ checkOf[t] \in listed[p]
    /\ checkOf[t] \in todo[p] /\ thread[p] # "dead" =>
         (at[<<p, t>>] # "none" <=>
            thread[p] = "splitting" /\ checkOf[t] = check[p] /\ t \in request[p])
    /\ checkOf[t] \in listed[p] \ todo[p] =>
         (at[<<p, t>>] # "none" <=>
            checkOf[t] \notin failed[p] /\ t \in found[p] /\ t \in Known)

IInv == Shape /\ \A p \in Polls : Held(p) /\ Found(p) /\ Sent(p)

LEMMA Initially == Init => IInv
BY DataAssumption DEF Init, IInv, Shape, Held, Found, Sent, Jobs, Places, Polls, Known

(* A step of poll p keeps the invariant of every poll if it keeps that of  *)
(* p and changes nothing of the others.                                    *)
LEMMA OnlyOne ==
  ASSUME IInv, NEW p \in Polls, Shape', Held(p)', Found(p)', Sent(p)',
         \A q \in Polls \ {p} :
           /\ thread'[q] = thread[q] /\ todo'[q] = todo[q] /\ check'[q] = check[q]
           /\ rows'[q] = rows[q] /\ request'[q] = request[q]
           /\ listed'[q] = listed[q] /\ found'[q] = found[q]
           /\ failed'[q] = failed[q]
           /\ \A t \in Tests : at'[<<q, t>>] = at[<<q, t>>]
  PROVE IInv'
<1> SUFFICES ASSUME NEW q \in Polls \ {p}
             PROVE  (Held(q) /\ Found(q) /\ Sent(q))'
  BY DEF IInv
<1>1. Held(q) /\ Found(q) /\ Sent(q)
  BY DEF IInv
<1>2. Held(q)'
  BY <1>1 DEF Held
<1>3. Found(q)'
  BY <1>1 DEF Found, Known
<1>4. Sent(q)'
  BY <1>1 DEF Sent, Known
<1> QED
  BY <1>2, <1>3, <1>4

(* A job on its way stays a job: the invariant looks no further.           *)
LEMMA JobStep ==
  ASSUME IInv, UNCHANGED <<thread, config, history>>,
         NEW j \in Jobs, NEW to \in Places \ {"none"}, at[j] # "none",
         at' = [at EXCEPT ![j] = to]
  PROVE IInv'
<1>1. Shape'
  BY DEF IInv, Shape, config, history
<1>2. \A p \in Polls, t \in Tests : at'[<<p, t>>] # "none" <=> at[<<p, t>>] # "none"
  BY DEF IInv, Shape, Jobs, Places
<1> SUFFICES ASSUME NEW p \in Polls PROVE (Held(p) /\ Found(p) /\ Sent(p))'
  BY <1>1 DEF IInv
<1>3. Held(p)' /\ Found(p)'
  BY DEF IInv, Held, Found, config, history, Known
<1>4. Sent(p)'
  BY <1>2 DEF IInv, Sent, config, history, Known
<1> QED
  BY <1>3, <1>4

(* Leaving a check for the next one, with or without having failed it.     *)
LEMMA LeaveStep ==
  ASSUME IInv, NEW p \in Polls, NEW c \in Checks, c \in todo[p], Leave(p, c),
         thread[p] \in {"between", "parsing", "splitting"},
         thread[p] # "between" => check[p] = c,
         UNCHANGED <<at, listed, found>>,
         \/ thread[p] # "splitting" /\ failed' = [failed EXCEPT ![p] = @ \cup {c}]
         \/ thread[p] = "splitting" /\ UNCHANGED failed
  PROVE IInv'
<1> USE DEF Leave, Go
<1>1. Shape'
  BY DEF IInv, Shape
<1>2. Held(p) /\ Found(p) /\ Sent(p) /\ Shape
  BY DEF IInv
<1>3. Held(p)'
  BY <1>2 DEF Held, Shape
<1>4. Found(p)'
  BY <1>2, DataAssumption DEF Held, Found, Shape, Known
<1>5. Sent(p)'
  BY <1>2, DataAssumption DEF Held, Found, Sent, Shape, Known
<1>6. ASSUME NEW q \in Polls \ {p}
      PROVE  /\ thread'[q] = thread[q] /\ todo'[q] = todo[q] /\ check'[q] = check[q]
             /\ rows'[q] = rows[q] /\ request'[q] = request[q]
             /\ listed'[q] = listed[q] /\ found'[q] = found[q]
             /\ failed'[q] = failed[q]
             /\ \A t \in Tests : at'[<<q, t>>] = at[<<q, t>>]
  BY <1>2 DEF Shape
<1> QED
  BY <1>1, <1>3, <1>4, <1>5, <1>6, OnlyOne

(* Each step of a poll keeps the invariant.                                *)
LEMMA PollStep ==
  ASSUME IInv, NEW p \in Polls, Fire(p) \/ Poll(p)
  PROVE  IInv'
<1> USE DEF Go, config, history
<1>0. Held(p) /\ Found(p) /\ Sent(p) /\ Shape
  BY DEF IInv
<1>1. CASE Fire(p) \/ ListFails(p) \/ QueryHangs(p) \/ PollEnds(p)
  <2>1. Shape' /\ Held(p)'
    BY <1>0, <1>1 DEF Fire, ListFails, QueryHangs, PollEnds, Shape, Held
  <2>2. Found(p)' /\ Sent(p)'
    BY <1>0, <1>1 DEF Fire, ListFails, QueryHangs, PollEnds, Shape, Held, Found, Sent, Known
  <2> QED
    BY <1>0, <1>1, <2>1, <2>2, OnlyOne DEF Fire, ListFails, QueryHangs, PollEnds, Shape
<1>2. CASE ListChecks(p)
  <2>1. Shape' /\ Held(p)'
    BY <1>0, <1>2 DEF ListChecks, Shape, Held
  <2>2. Found(p)' /\ Sent(p)'
    BY <1>0, <1>2, DataAssumption DEF ListChecks, Shape, Held, Found, Sent, Known
  <2> QED
    BY <1>0, <1>2, <2>1, <2>2, OnlyOne DEF ListChecks, Shape
<1>3. ASSUME NEW c \in Checks, ReadRows(p, c) PROVE IInv'
  <2> PICK rs \in SUBSET RowsOf(c) : \E bad \in SUBSET rs :
         /\ rows' = [rows EXCEPT ![p] = rs]
         /\ broken' = [broken EXCEPT ![p] = bad]
         /\ found' = [found EXCEPT ![p] = @ \cup rs]
    BY <1>3 DEF ReadRows
  <2>1. Shape' /\ Held(p)'
    BY <1>0, <1>3 DEF ReadRows, Shape, Held, RowsOf
  <2>2. Found(p)'
    BY <1>0, <1>3, DataAssumption DEF ReadRows, Shape, Held, Found, Known, RowsOf
  <2>3. Sent(p)'
    BY <1>0, <1>3, DataAssumption DEF ReadRows, Shape, Held, Sent, Known, RowsOf
  <2> QED
    BY <1>0, <1>3, <2>1, <2>2, <2>3, OnlyOne DEF ReadRows, Shape
<1>4. ASSUME NEW c \in Checks, ReadFails(p, c) PROVE IInv'
  BY <1>4, LeaveStep DEF ReadFails
<1>5. ASSUME NEW t \in Tests, ParseRow(p, t) PROVE IInv'
  <2>1. Shape' /\ Held(p)'
    BY <1>0, <1>5 DEF ParseRow, Shape, Held
  <2>2. Found(p)' /\ Sent(p)'
    BY <1>0, <1>5 DEF ParseRow, Shape, Held, Found, Sent, Known
  <2> QED
    BY <1>0, <1>5, <2>1, <2>2, OnlyOne DEF ParseRow, Shape
<1>6. CASE RejectRow(p)
  BY <1>0, <1>6, LeaveStep DEF RejectRow, Held, Shape
<1>7. CASE Distribute(p)
  <2>1. \A q \in Polls, t \in Tests :
           at'[<<q, t>>] = IF q = p /\ t \in request[p] THEN "split" ELSE at[<<q, t>>]
    BY <1>7 DEF Distribute, Jobs
  <2>2. Shape' /\ Held(p)'
    BY <1>0, <1>7 DEF Distribute, Shape, Held, Jobs, Places
  <2>3. Found(p)'
    BY <1>0, <1>7 DEF Distribute, Shape, Held, Found, Known
  <2>4. Sent(p)'
    BY <1>0, <1>7, <2>1 DEF Distribute, Shape, Held, Found, Sent, Known
  <2> QED
    BY <1>0, <1>7, <2>1, <2>2, <2>3, <2>4, OnlyOne DEF Distribute, Shape
<1>8. CASE SplitEnds(p)
  BY <1>0, <1>8, LeaveStep DEF SplitEnds, Held, Shape
<1> QED
  BY <1>1, <1>2, <1>3, <1>4, <1>5, <1>6, <1>7, <1>8 DEF Poll

LEMMA CrashStep == ASSUME IInv, Crash PROVE IInv'
<1>1. Shape'
  BY DEF IInv, Shape, Crash, config, history, Jobs, Places
<1>2. \A p \in Polls, t \in Tests : at'[<<p, t>>] # "none" <=> at[<<p, t>>] # "none"
  BY DEF IInv, Shape, Jobs, Places, Crash, Over
<1> SUFFICES ASSUME NEW p \in Polls PROVE (Held(p) /\ Found(p) /\ Sent(p))'
  BY <1>1 DEF IInv
<1>3. Held(p) /\ Found(p) /\ Sent(p) /\ Shape
  BY DEF IInv
<1>4. Held(p)' /\ Found(p)'
  BY <1>3, DataAssumption DEF Crash, Held, Found, Shape, history, Known
<1>5. Sent(p)'
  BY <1>2, <1>3 DEF Crash, Held, Sent, Shape, history, Known
<1> QED
  BY <1>4, <1>5

LEMMA WorkStep == ASSUME IInv, NEW j \in Jobs, Work(j) PROVE IInv'
<1> USE DEF Pass, Places
<1>1. CASE Route(j)
  BY <1>1, JobStep DEF Route
<1>2. CASE ~Route(j)
  BY <1>2, JobStep DEF Work, Enqueue, BeginTest, EndTest, FailTest, HangTest, BeginPost,
    EndPost, FailPost, HangPost
<1> QED
  BY <1>1, <1>2

LEMMA Stutter ==
  ASSUME IInv, UNCHANGED <<thread, config, at, history>> PROVE IInv'
BY DEF IInv, Shape, Held, Found, Sent, config, history, Known

LEMMA Invariance == Spec => []IInv
<1>1. ASSUME IInv, [Next]_vars PROVE IInv'
  <2>1. ASSUME NEW j \in Jobs, Measure(j) PROVE IInv'
    BY <1>1, <2>1, Stutter DEF Measure, TranslateMeasure, BeginMeasure, ExecMeasure
  <2>2. CASE UNCHANGED vars
    BY <1>1, <2>2, Stutter DEF vars
  <2> QED
    BY <1>1, <2>1, <2>2, PollStep, WorkStep, CrashStep DEF Next
<1> QED
  BY <1>1, Initially, PTL DEF Spec

-----------------------------------------------------------------------------
(* A request is sent whole or not at all.                                  *)
THEOREM Whole == Spec => []WholeRequests
<1>1. ASSUME IInv PROVE WholeRequests
  <2> SUFFICES ASSUME NEW p \in Polls, NEW c \in listed[p] \ todo[p]
               PROVE  {t \in RowsOf(c) : at[<<p, t>>] # "none"} =
                        IF c \in failed[p] THEN {}
                        ELSE found[p] \cap RowsOf(c) \cap Known
    BY DEF WholeRequests
  <2>1. \A t \in RowsOf(c) :
           at[<<p, t>>] # "none" <=> c \notin failed[p] /\ t \in found[p] /\ t \in Known
    BY <1>1 DEF IInv, Sent, RowsOf
  <2> QED
    BY <2>1
<1> QED
  BY <1>1, Invariance, PTL

(* A poll that ends has dealt with every check on its list.                *)
THEOREM Local == Spec => []FailureIsLocal
<1>1. ASSUME IInv PROVE FailureIsLocal
  BY <1>1 DEF IInv, Held, FailureIsLocal
<1> QED
  BY <1>1, Invariance, PTL

(* No job of an unknown type reaches the router.                           *)
THEOREM Knows == Spec => []RouterKnows
<1>1. ASSUME IInv PROVE RouterKnows
  <2> SUFFICES ASSUME NEW p \in Polls, NEW t \in Tests, at[<<p, t>>] = "router"
               PROVE  typeOf[t] \in Types
    BY DEF RouterKnows, Jobs, TypeOf
  <2> QED
    BY <1>1 DEF IInv, Sent, Known
<1> QED
  BY <1>1, Invariance, PTL

-----------------------------------------------------------------------------
(* The split of a request takes on all its tests at once.                  *)
LEMMA DistributeOwes ==
  ASSUME IInv, NEW p \in Polls, Distribute(p), NEW S, S = request[p]
  PROVE  Delivery!Owe(p, S)
<1>0. Held(p) /\ Found(p) /\ Sent(p) /\ Shape
  BY DEF IInv
<1>1. check[p] \in todo[p] /\ thread[p] = "parsing"
  BY <1>0 DEF Held, Distribute
<1>2. \A t \in request[p] : t \in Tests /\ checkOf[t] = check[p] /\ at[<<p, t>>] = "none"
  BY <1>0, <1>1 DEF Shape, Found, Sent
<1>3. request[p] \subseteq {t \in Tests : Fate[<<p, t>>] = "none"}
  BY <1>2 DEF Fate, Jobs, Over
<1>4. Fate' = [j \in Polls \X Tests |->
                 IF j[1] = p /\ j[2] \in request[p] THEN "owed" ELSE Fate[j]]
  BY DEF Distribute, Fate, Jobs, Over
<1> QED
  BY <1>2, <1>3, <1>4 DEF Delivery!Owe

(* What happens to a job afterwards settles it or is no business of the    *)
(* promise.                                                                *)
LEMMA WorkSettles ==
  ASSUME IInv, NEW j \in Jobs, Work(j)
  PROVE  Delivery!Settle(j) \/ UNCHANGED Fate
<1> USE DEF Pass, Over
<1>0. at \in [Jobs -> Places]
  BY DEF IInv, Shape
<1>1. CASE FailTest(j) \/ EndPost(j) \/ FailPost(j)
  <2>1. Fate[j] = "owed"
    BY <1>1 DEF FailTest, EndPost, FailPost, Fate
  <2>2. Fate' = [Fate EXCEPT ![j] = at'[j]] /\ at'[j] \in {"posted", "lost"}
    BY <1>0, <1>1 DEF FailTest, EndPost, FailPost, Fate
  <2> QED
    BY <2>1, <2>2 DEF Delivery!Settle, Fate
<1>2. CASE Route(j)
  <2>1. CASE TypeOf(j) \in Types
    BY <1>0, <1>2, <2>1 DEF Route, Fate
  <2>2. CASE TypeOf(j) \notin Types
    <3>1. Fate[j] = "owed"
      BY <1>2 DEF Route, Fate
    <3>2. Fate' = [Fate EXCEPT ![j] = "lost"]
      BY <1>0, <1>2, <2>2 DEF Route, Fate
    <3> QED
      BY <3>1, <3>2 DEF Delivery!Settle, Fate
  <2> QED
    BY <2>1, <2>2
<1>3. CASE Enqueue(j) \/ BeginTest(j) \/ EndTest(j) \/ BeginPost(j)
  BY <1>0, <1>3 DEF Enqueue, BeginTest, EndTest, BeginPost, Fate
<1>4. CASE HangTest(j) \/ HangPost(j)
  BY <1>0, <1>4 DEF HangTest, HangPost, Fate
<1> QED
  BY <1>1, <1>2, <1>3, <1>4 DEF Work

LEMMA CrashForgets == ASSUME IInv, Crash PROVE Delivery!Forget
<1>1. Fate' = [j \in Jobs |-> IF Fate[j] = "owed" THEN "lost" ELSE Fate[j]]
  BY DEF IInv, Shape, Crash, Fate, Over
<1> QED
  BY <1>1 DEF Delivery!Forget, Fate, Jobs

(* The routes implement the promise: whole requests, each test of a poll   *)
(* taken on once and settled once.                                         *)
THEOREM Refinement == Spec => DeliverySafety
<1>1. Init => Delivery!Init
  BY DEF Init, Delivery!Init, Fate, Jobs, Over
<1>2. ASSUME IInv, [Next]_vars PROVE Delivery!Next \/ UNCHANGED Fate
  <2>1. ASSUME NEW p \in Polls, Distribute(p) PROVE Delivery!Next
    <3>1. PICK S \in SUBSET Tests : S = request[p]
      BY <1>2 DEF IInv, Shape
    <3>2. Delivery!Owe(p, S)
      BY <1>2, <2>1, <3>1, DistributeOwes
    <3> QED
      BY <3>2 DEF Delivery!Next
  <2>2. ASSUME NEW p \in Polls, Fire(p) \/ Poll(p), ~Distribute(p) PROVE UNCHANGED Fate
    <3>1. UNCHANGED at
      BY <2>2 DEF Poll, Fire, ListChecks, ListFails, QueryHangs, RejectRow, SplitEnds, PollEnds,
                  ParseRow, ReadRows, ReadFails
    <3> QED
      BY <3>1 DEF Fate
  <2>3. ASSUME NEW j \in Jobs, Work(j) PROVE Delivery!Next \/ UNCHANGED Fate
    BY <1>2, <2>3, WorkSettles DEF Delivery!Next, Jobs
  <2>4. ASSUME NEW j \in Jobs, Measure(j) PROVE UNCHANGED Fate
    BY <2>4 DEF Measure, TranslateMeasure, BeginMeasure, ExecMeasure, Fate
  <2>5. CASE Crash
    BY <1>2, <2>5, CrashForgets DEF Delivery!Next
  <2>6. CASE UNCHANGED vars
    BY <2>6 DEF vars, Fate
  <2> QED
    BY <1>2, <2>1, <2>2, <2>3, <2>4, <2>5, <2>6 DEF Next
<1>3. IInv /\ [Next]_vars => [Delivery!Next]_Fate
  BY <1>2
<1> QED
  BY <1>1, <1>3, Invariance, PTL DEF Spec, DeliverySafety, Delivery!Spec
=============================================================================
