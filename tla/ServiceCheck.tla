---------------------------- MODULE ServiceCheck ----------------------------
(***************************************************************************)
(* The service check application (META-INF/spring/service-check.xml): a    *)
(* Quartz poll lists the service checks in the database, reads the rows of *)
(* each, builds one request of them, splits it into tests on parallel      *)
(* threads, and lets the tests run through in-memory queues with a bounded *)
(* number of consumers: router, check of the test's type, sender to the    *)
(* Boundary API, and for a URL also a measure to an external command.  No  *)
(* time-out is configured for the database, the API or the command, and    *)
(* that of an endpoint is its own: each of these calls may never return,   *)
(* and then keeps its thread.                                              *)
(*                                                                         *)
(* A job is a test of a poll, <<p, t>>.  at[job] is its place on the way   *)
(* of the event; measure[job] that of the measure.  A poll runs on its own *)
(* Quartz thread and the next one fires whether or not it has ended.  The  *)
(* queues are unbounded, and the order in which several consumers take     *)
(* from one is not kept: any waiting job may be the next.                  *)
(***************************************************************************)
EXTENDS Naturals, FiniteSets

CONSTANTS Checks,    \* service checks that may be in the database
          Tests,     \* tests (rows) that may be in the database
          Types,     \* service types the processors know: ping, port, ...
          Url,       \* the type whose result is measured too
          NoCheck,   \* a poll between two checks
          checkOf,   \* the check each test belongs to
          typeOf,    \* the service type each row names, known or not
          MaxPolls,  \* bound: how often the cron trigger fires
          Consumers, \* concurrentConsumers of each check queue, of exec-in (10)
          Senders,   \* concurrentConsumers of the event queue (35)
          MaxCrashes \* bound: how often the process dies

ASSUME DataAssumption ==
  /\ checkOf \in [Tests -> Checks] /\ DOMAIN typeOf = Tests
  /\ NoCheck \notin Checks /\ Url \in Types
ASSUME NumberAssumption ==
  /\ MaxPolls \in Nat /\ MaxCrashes \in Nat
  /\ Consumers \in Nat \ {0} /\ Senders \in Nat \ {0}

Polls == 1..MaxPolls
Jobs == Polls \X Tests
Known == {t \in Tests : typeOf[t] \in Types}
RowsOf(c) == {t \in Tests : checkOf[t] = c}

VARIABLES thread,  \* what the Quartz thread of each poll does
          todo,    \* checks of its list the poll has yet to deal with
          check,   \* check the poll deals with, or NoCheck
          rows,    \* rows it has read and not yet turned into tests
          broken,  \* those of them with a null or malformed column
          request, \* tests of the ServiceCheckRequest it builds
          at,      \* place of each job's event
          measure, \* place of each job's measure
          busy,    \* consumers at work, by type
          posting, \* senders at work
          crashes, \* how often the process has died
          listed, found, failed \* history: the checks each poll has listed,
                                \* rows it has read, checks it gave up

config == <<todo, check, rows, broken, request>>
history == <<listed, found, failed>>
vars == <<thread, config, at, measure, busy, posting, crashes, history>>

Places == {"none", "split", "router", "check", "testing", "hungTest", "event",
           "posting", "hungPost", "posted", "lost"}
Over == {"none", "posted", "lost"}

TypeOK ==
  /\ thread \in [Polls -> {"waiting", "listing", "between", "parsing",
                           "splitting", "hung", "done", "dead"}]
  /\ todo \in [Polls -> SUBSET Checks]
  /\ check \in [Polls -> Checks \cup {NoCheck}]
  /\ rows \in [Polls -> SUBSET Tests] /\ broken \in [Polls -> SUBSET Tests]
  /\ request \in [Polls -> SUBSET Known]
  /\ at \in [Jobs -> Places]
  /\ measure \in [Jobs -> {"none", "translate", "exec", "running", "hung", "sent", "lost"}]
  /\ busy \in [Types -> 0..Consumers]
  /\ posting \in 0..Senders
  /\ crashes \in 0..MaxCrashes
  /\ listed \in [Polls -> SUBSET Checks]
  /\ found \in [Polls -> SUBSET Tests]
  /\ failed \in [Polls -> SUBSET Checks]

Init ==
  /\ thread = [p \in Polls |-> "waiting"]
  /\ todo = [p \in Polls |-> {}]
  /\ check = [p \in Polls |-> NoCheck]
  /\ rows = [p \in Polls |-> {}] /\ broken = [p \in Polls |-> {}]
  /\ request = [p \in Polls |-> {}]
  /\ at = [j \in Jobs |-> "none"] /\ measure = [j \in Jobs |-> "none"]
  /\ busy = [k \in Types |-> 0] /\ posting = 0 /\ crashes = 0
  /\ listed = [p \in Polls |-> {}] /\ found = [p \in Polls |-> {}]
  /\ failed = [p \in Polls |-> {}]

-----------------------------------------------------------------------------
(* The poll: one thread, from the trigger to the end of the outer split.   *)

Go(p, where) == thread' = [thread EXCEPT ![p] = where]

(* The cron trigger fires; an earlier poll may still be at work.           *)
Fire(p) ==
  /\ thread[p] = "waiting" /\ \A q \in 1..(p - 1) : thread[q] # "waiting"
  /\ Go(p, "listing")
  /\ UNCHANGED <<config, at, measure, busy, posting, crashes, history>>

(* SELECT serviceCheckId of the checks with something enabled, whatever    *)
(* those are at the time.                                                  *)
ListChecks(p) ==
  /\ thread[p] = "listing"
  /\ \E cs \in SUBSET Checks : /\ todo' = [todo EXCEPT ![p] = cs]
                               /\ listed' = [listed EXCEPT ![p] = cs]
  /\ Go(p, "between")
  /\ UNCHANGED <<check, rows, broken, request, at, measure, busy, posting,
                 crashes, found, failed>>

(* The database does not answer the first query: this poll is over.        *)
ListFails(p) ==
  /\ thread[p] = "listing"
  /\ Go(p, "done")
  /\ UNCHANGED <<config, at, measure, busy, posting, crashes, history>>

(* The database never answers one of the two queries.                      *)
QueryHangs(p) ==
  /\ thread[p] = "listing" \/ (thread[p] = "between" /\ todo[p] # {})
  /\ Go(p, "hung")
  /\ UNCHANGED <<config, at, measure, busy, posting, crashes, history>>

(* SELECT * of one check: some of its rows, some of them broken.  The      *)
(* request they are added to is new, and empty.                            *)
ReadRows(p, c) ==
  /\ thread[p] = "between" /\ c \in todo[p]
  /\ check' = [check EXCEPT ![p] = c]
  /\ \E rs \in SUBSET RowsOf(c) : \E bad \in SUBSET rs :
       /\ rows' = [rows EXCEPT ![p] = rs]
       /\ broken' = [broken EXCEPT ![p] = bad]
       /\ found' = [found EXCEPT ![p] = @ \cup rs]
  /\ Go(p, "parsing")
  /\ UNCHANGED <<todo, request, at, measure, busy, posting, crashes, listed, failed>>

(* Mutant of Leave: the request is kept and the next check adds to it.     *)
LeaveKeepingRequest(p, c) ==
  /\ todo' = [todo EXCEPT ![p] = @ \ {c}]
  /\ check' = [check EXCEPT ![p] = NoCheck]
  /\ rows' = [rows EXCEPT ![p] = {}] /\ broken' = [broken EXCEPT ![p] = {}]
  /\ UNCHANGED request
  /\ Go(p, "between")

(* The poll is through with check c, the locals of its handling are gone,  *)
(* and the split goes on to the next.                                      *)
Leave(p, c) ==
  /\ todo' = [todo EXCEPT ![p] = @ \ {c}]
  /\ check' = [check EXCEPT ![p] = NoCheck]
  /\ rows' = [rows EXCEPT ![p] = {}] /\ broken' = [broken EXCEPT ![p] = {}]
  /\ request' = [request EXCEPT ![p] = {}]
  /\ Go(p, "between")

(* Mutant of ReadFails: the outer split stops on an exception.             *)
ReadFailsEndingPoll(p, c) ==
  /\ thread[p] = "between" /\ c \in todo[p]
  /\ Go(p, "done")
  /\ failed' = [failed EXCEPT ![p] = @ \cup {c}]
  /\ UNCHANGED <<config, at, measure, busy, posting, crashes, listed, found>>

(* The second query fails: the error handler of the route logs it, and     *)
(* the split goes on with the next check.                                  *)
ReadFails(p, c) ==
  /\ thread[p] = "between" /\ c \in todo[p]
  /\ Leave(p, c)
  /\ failed' = [failed EXCEPT ![p] = @ \cup {c}]
  /\ UNCHANGED <<at, measure, busy, posting, crashes, listed, found>>

(* One turn of the loop over the rows; a row of another type is skipped.   *)
ParseRow(p, t) ==
  /\ thread[p] = "parsing" /\ t \in rows[p] \ broken[p]
  /\ rows' = [rows EXCEPT ![p] = @ \ {t}]
  /\ request' = [request EXCEPT ![p] =
                   IF typeOf[t] \in Types THEN @ \cup {t} ELSE @]
  /\ UNCHANGED <<thread, todo, check, broken, at, measure, busy, posting,
                 crashes, history>>

(* Mutant of RejectRow: only the row that throws is left out.              *)
RejectRowAlone(p) ==
  /\ thread[p] = "parsing" /\ rows[p] \cap broken[p] # {}
  /\ rows' = [rows EXCEPT ![p] = @ \ broken[p]]
  /\ failed' = [failed EXCEPT ![p] = @ \cup {check[p]}]
  /\ UNCHANGED <<thread, todo, check, broken, request, at, measure, busy,
                 posting, crashes, listed, found>>

(* A row throws (a null column, a number that is none): the request built  *)
(* so far is dropped with the exchange.                                    *)
RejectRow(p) ==
  /\ thread[p] = "parsing" /\ rows[p] \cap broken[p] # {}
  /\ Leave(p, check[p])
  /\ failed' = [failed EXCEPT ![p] = @ \cup {check[p]}]
  /\ UNCHANGED <<at, measure, busy, posting, crashes, listed, found>>

(* <split parallelProcessing="true"> hands each test to a thread.          *)
Distribute(p) ==
  /\ thread[p] = "parsing" /\ rows[p] = {}
  /\ at' = [j \in Jobs |-> IF j[1] = p /\ j[2] \in request[p]
                           THEN "split" ELSE at[j]]
  /\ Go(p, "splitting")
  /\ UNCHANGED <<config, measure, busy, posting, crashes, history>>

(* The split waits for its threads, and the poll for the split.            *)
SplitEnds(p) ==
  /\ thread[p] = "splitting" /\ \A t \in Tests : at[<<p, t>>] # "split"
  /\ Leave(p, check[p])
  /\ UNCHANGED <<at, measure, busy, posting, crashes, history>>

PollEnds(p) ==
  /\ thread[p] = "between" /\ todo[p] = {}
  /\ Go(p, "done")
  /\ UNCHANGED <<config, at, measure, busy, posting, crashes, history>>

-----------------------------------------------------------------------------
(* The job: one action per thread that takes it further.                   *)

TypeOf(j) == typeOf[j[2]]
Pass(j, from, to) == at[j] = from /\ at' = [at EXCEPT ![j] = to]
Take(k) == busy[k] < Consumers /\ busy' = [busy EXCEPT ![k] = @ + 1]
Free(k) == busy' = [busy EXCEPT ![k] = @ - 1]

(* A thread of the split puts the test on seda:service-checks-router.      *)
Enqueue(j) ==
  /\ Pass(j, "split", "router")
  /\ UNCHANGED <<thread, config, measure, busy, posting, crashes, history>>

(* The single consumer of the router sends it to the queue of its type;    *)
(* <otherwise> is empty and drops it.                                      *)
Route(j) ==
  /\ Pass(j, "router", IF TypeOf(j) \in Types THEN "check" ELSE "lost")
  /\ UNCHANGED <<thread, config, measure, busy, posting, crashes, history>>

(* A consumer takes the test and calls the endpoint.                       *)
BeginTest(j) ==
  /\ Pass(j, "check", "testing") /\ Take(TypeOf(j))
  /\ UNCHANGED <<thread, config, measure, posting, crashes, history>>

(* The result, good or bad, becomes an event on seda:boundary-event; of a  *)
(* URL the multicast sends a copy to seda:url-metrics.                     *)
EndTest(j) ==
  /\ Pass(j, "testing", "event") /\ Free(TypeOf(j))
  /\ measure' = [measure EXCEPT ![j] =
                   IF TypeOf(j) = Url THEN "translate" ELSE @]
  /\ UNCHANGED <<thread, config, posting, crashes, history>>

(* Mutant of FailTest: an exception costs the consumer.                    *)
FailTestKeepingConsumer(j) ==
  /\ Pass(j, "testing", "lost")
  /\ UNCHANGED <<thread, config, measure, busy, posting, crashes, history>>

(* The endpoint or the translation throws: logged, and the consumer is     *)
(* free for the next test.                                                 *)
FailTest(j) ==
  /\ Pass(j, "testing", "lost") /\ Free(TypeOf(j))
  /\ UNCHANGED <<thread, config, measure, posting, crashes, history>>

(* The endpoint does not return: the consumer is gone.                     *)
HangTest(j) ==
  /\ Pass(j, "testing", "hungTest")
  /\ UNCHANGED <<thread, config, measure, busy, posting, crashes, history>>

(* A sender takes the event and posts it.                                  *)
BeginPost(j) ==
  /\ Pass(j, "event", "posting")
  /\ posting < Senders /\ posting' = posting + 1
  /\ UNCHANGED <<thread, config, measure, busy, crashes, history>>

EndPost(j) ==
  /\ Pass(j, "posting", "posted") /\ posting' = posting - 1
  /\ UNCHANGED <<thread, config, measure, busy, crashes, history>>

(* No connection, or a response that is no success: there is no retry.     *)
FailPost(j) ==
  /\ Pass(j, "posting", "lost") /\ posting' = posting - 1
  /\ UNCHANGED <<thread, config, measure, busy, crashes, history>>

(* The API does not answer, and the sender is gone.                        *)
HangPost(j) ==
  /\ Pass(j, "posting", "hungPost")
  /\ UNCHANGED <<thread, config, measure, busy, posting, crashes, history>>

(* UrlToExecProcessor turns the result into arguments for exec:command.    *)
(* It calls nobody: its consumers are never all gone.                      *)
TranslateMeasure(j) ==
  /\ measure[j] = "translate"
  /\ \E to \in {"exec", "lost"} : measure' = [measure EXCEPT ![j] = to]
  /\ UNCHANGED <<thread, config, at, busy, posting, crashes, history>>

Running == {j \in Jobs : measure[j] \in {"running", "hung"}}

(* Mutant of BeginMeasure: a command that ran keeps its consumer.          *)
BeginMeasureOnce(j) ==
  /\ measure[j] = "exec"
  /\ Cardinality({i \in Jobs : measure[i] \in {"running", "hung", "sent"}}) < Consumers
  /\ measure' = [measure EXCEPT ![j] = "running"]
  /\ UNCHANGED <<thread, config, at, busy, posting, crashes, history>>

(* A consumer of seda:exec-in takes the measure and runs the command.      *)
BeginMeasure(j) ==
  /\ measure[j] = "exec" /\ Cardinality(Running) < Consumers
  /\ measure' = [measure EXCEPT ![j] = "running"]
  /\ UNCHANGED <<thread, config, at, busy, posting, crashes, history>>

(* The command ends, cannot be run, or never ends.                         *)
ExecMeasure(j) ==
  /\ measure[j] = "running"
  /\ \E to \in {"sent", "lost", "hung"} : measure' = [measure EXCEPT ![j] = to]
  /\ UNCHANGED <<thread, config, at, busy, posting, crashes, history>>

(* The process dies and is started again: the queues were in memory.       *)
Crash ==
  /\ crashes < MaxCrashes /\ crashes' = crashes + 1
  /\ thread' = [p \in Polls |-> IF thread[p] \in {"waiting", "done"}
                                THEN thread[p] ELSE "dead"]
  /\ at' = [j \in Jobs |-> IF at[j] \in Over THEN at[j] ELSE "lost"]
  /\ measure' = [j \in Jobs |-> IF measure[j] \in {"none", "sent"}
                                THEN measure[j] ELSE "lost"]
  /\ check' = [p \in Polls |-> NoCheck]
  /\ rows' = [p \in Polls |-> {}] /\ broken' = [p \in Polls |-> {}]
  /\ request' = [p \in Polls |-> {}]
  /\ busy' = [k \in Types |-> 0] /\ posting' = 0
  /\ UNCHANGED <<todo, history>>

Poll(p) ==
  \/ ListChecks(p) \/ ListFails(p) \/ QueryHangs(p) \/ RejectRow(p) \/ Distribute(p)
  \/ SplitEnds(p) \/ PollEnds(p) \/ \E t \in Tests : ParseRow(p, t)
  \/ \E c \in Checks : ReadRows(p, c) \/ ReadFails(p, c)

Work(j) ==
  \/ Enqueue(j) \/ Route(j) \/ BeginTest(j) \/ EndTest(j) \/ FailTest(j) \/ HangTest(j)
  \/ BeginPost(j) \/ EndPost(j) \/ FailPost(j) \/ HangPost(j)

Measure(j) == TranslateMeasure(j) \/ BeginMeasure(j) \/ ExecMeasure(j)

Next ==
  \/ \E p \in Polls : Fire(p) \/ Poll(p)
  \/ \E j \in Jobs : Work(j) \/ Measure(j)
  \/ Crash

(* Threads of the process run.  Every call they make returns, throws or    *)
(* hangs: nothing says that it ends.  A consumer that is free again and    *)
(* again gets to every waiting job, the queues being first in, first out.  *)
Fairness ==
  /\ \A p \in Polls : WF_vars(Poll(p))
  /\ \A j \in Jobs : SF_vars(Work(j)) /\ SF_vars(Measure(j))

Spec == Init /\ [][Next]_vars
LiveSpec == Spec /\ Fairness

-----------------------------------------------------------------------------
(* Properties.                                                             *)

(* A request is sent whole or not at all: of a check a poll is through     *)
(* with, every row of a known type became a job, or none if the check      *)
(* failed (ServiceChecksDatabase.process builds the request before the     *)
(* distribution route sees any of it).                                     *)
WholeRequests ==
  \A p \in Polls : \A c \in listed[p] \ todo[p] :
    {t \in RowsOf(c) : at[<<p, t>>] # "none"} =
      IF c \in failed[p] THEN {} ELSE found[p] \cap RowsOf(c) \cap Known

(* A failure stays with its check: a poll that ends has dealt with every   *)
(* check on its list, whichever of them failed before.                     *)
FailureIsLocal == \A p \in Polls : thread[p] = "done" => todo[p] = {}

(* The parser and the router agree on the service types: nothing the       *)
(* parser let through falls into the empty <otherwise>.                    *)
RouterKnows == \A j \in Jobs : at[j] = "router" => TypeOf(j) \in Types

(* What the routes promise of each test: requests are taken on whole, a    *)
(* test at most once, and it is settled at most once (a request is a local *)
(* of ServiceChecksDatabase.process, and no route puts a test back).       *)
Fate == [j \in Jobs |-> IF at[j] \in Over THEN at[j] ELSE "owed"]
Delivery == INSTANCE CheckDelivery WITH fate <- Fate
DeliverySafety == Delivery!Spec

(* A call that hangs costs one thread: a test taken on is settled, unless  *)
(* a call made for it hangs, or as many calls hang as the queue it waits   *)
(* in has consumers; those of other types and failed ones cost nothing.    *)
Starved(j) ==
  \/ /\ at[j] = "check"
     /\ Cardinality({i \in Jobs : at[i] = "hungTest" /\ TypeOf(i) = TypeOf(j)}) = Consumers
  \/ /\ at[j] = "event"
     /\ Cardinality({i \in Jobs : at[i] = "hungPost"}) = Senders

TestsEnd ==
  \A j \in Jobs :
    at[j] = "split" ~> at[j] \in {"posted", "lost", "hungTest", "hungPost"} \/ Starved(j)

(* The same of the measures of a URL: they wait for no event, and only     *)
(* when a hung command keeps each consumer is one of them left waiting.    *)
MeasuresEnd ==
  \A j \in Jobs :
    measure[j] = "translate" ~>
      \/ measure[j] \in {"sent", "lost", "hung"}
      \/ measure[j] = "exec" /\ Cardinality({i \in Jobs : measure[i] = "hung"}) = Consumers
=============================================================================
