--------------------------- MODULE PropertyCache ---------------------------
(***************************************************************************)
(* The lazily loaded translation tables of the SDK: a static               *)
(* java.util.Properties that every processor thread fills from a resource  *)
(* of the class path the first time it finds it empty, and then reads      *)
(* (PropertyUtils.getProperties and its copy in SyslogToEventProcessor).   *)
(* The routes that use the tables run up to ten consumers each, and no     *)
(* lock covers the test, the load and the read together: the only          *)
(* exclusion is the monitor of the Properties object, which isEmpty, load  *)
(* and getProperty each hold while they run (Java 8: Properties is a       *)
(* Hashtable with synchronized methods).                                   *)
(***************************************************************************)
EXTENDS Naturals, FiniteSets

CONSTANTS Threads,    \* consumer threads of the routes that translate
          Keys,       \* the keys of the resource file
          NoThread,   \* no thread holds the monitor
          MaxFailures \* bound: how many reads of the resource may fail

ASSUME NoThreadAssumption == NoThread \notin Threads
ASSUME MaxFailuresAssumption == MaxFailures \in Nat

VARIABLES table,     \* keys present in the static Properties object
          monitor,   \* thread inside load(), or NoThread
          pc,        \* where each thread is in one process() call
          wanted,    \* the key each thread translates
          answer,    \* what getProperty last gave the thread
          failures   \* loads that ended in an IOException

cacheVars == <<table, monitor, pc, wanted, answer, failures>>

CacheTypeOK ==
    /\ table \subseteq Keys
    /\ monitor \in Threads \cup {NoThread}
    /\ pc \in [Threads -> {"idle", "test", "load", "loading", "lookup", "done"}]
    /\ wanted \in [Threads -> Keys]
    /\ answer \in [Threads -> {"value", "none"}]
    /\ failures \in 0..MaxFailures

CacheInit ==
    /\ table = {}
    /\ monitor = NoThread
    /\ pc = [t \in Threads |-> "idle"]
    /\ wanted \in [Threads -> Keys]
    /\ answer = [t \in Threads |-> "none"]
    /\ failures = 0

(* An exchange whose key is in the resource reaches getMetricName,         *)
(* getEventSeverity or getEventStatus.                                     *)
Call(t) ==
    /\ pc[t] = "idle"
    /\ pc' = [pc EXCEPT ![t] = "test"]
    /\ \E k \in Keys : wanted' = [wanted EXCEPT ![t] = k]
    /\ UNCHANGED <<table, monitor, answer, failures>>

(* properties.isEmpty(), holding the monitor for the call only.            *)
TestEmpty(t) ==
    /\ pc[t] = "test"
    /\ monitor = NoThread
    /\ pc' = [pc EXCEPT ![t] = IF table = {} THEN "load" ELSE "lookup"]
    /\ UNCHANGED <<table, monitor, wanted, answer, failures>>

(* Mutant of BeginLoad: a load outside the monitor.                        *)
BeginLoadUnsynchronized(t) ==
    /\ pc[t] = "load"
    /\ pc' = [pc EXCEPT ![t] = "loading"]
    /\ UNCHANGED <<table, monitor, wanted, answer, failures>>

(* properties.load(...) is entered: the monitor is held until it returns.  *)
BeginLoad(t) ==
    /\ pc[t] = "load"
    /\ monitor = NoThread
    /\ monitor' = t
    /\ pc' = [pc EXCEPT ![t] = "loading"]
    /\ UNCHANGED <<table, wanted, answer, failures>>

(* One line of the resource is parsed and put.                             *)
LoadLine(t) ==
    /\ pc[t] = "loading"
    /\ \E k \in Keys \ table : table' = table \cup {k}
    /\ UNCHANGED <<monitor, pc, wanted, answer, failures>>

(* load() returns: every line has been put.                                *)
EndLoad(t) ==
    /\ pc[t] = "loading"
    /\ table = Keys
    /\ monitor' = NoThread
    /\ pc' = [pc EXCEPT ![t] = "lookup"]
    /\ UNCHANGED <<table, wanted, answer, failures>>

(* load() throws IOException: it is printed and swallowed, what was put    *)
(* before it stays.                                                        *)
FailLoad(t) ==
    /\ pc[t] = "loading"
    /\ failures < MaxFailures
    /\ failures' = failures + 1
    /\ monitor' = NoThread
    /\ pc' = [pc EXCEPT ![t] = "lookup"]
    /\ UNCHANGED <<table, wanted, answer>>

(* properties.getProperty(key): no value means the metric "UNKNOWN", or    *)
(* Severity.valueOf(null) and a failed exchange.                           *)
Lookup(t) ==
    /\ pc[t] = "lookup"
    /\ monitor = NoThread
    /\ answer' = [answer EXCEPT ![t] = IF wanted[t] \in table THEN "value" ELSE "none"]
    /\ pc' = [pc EXCEPT ![t] = "done"]
    /\ UNCHANGED <<table, monitor, wanted, failures>>

(* The exchange leaves the processor, the thread takes the next one.       *)
Return(t) ==
    /\ pc[t] = "done"
    /\ pc' = [pc EXCEPT ![t] = "idle"]
    /\ UNCHANGED <<table, monitor, wanted, answer, failures>>

Step(t) == \/ TestEmpty(t) \/ BeginLoad(t) \/ LoadLine(t) \/ EndLoad(t)
           \/ FailLoad(t) \/ Lookup(t) \/ Return(t)

CacheNext == \E t \in Threads : Call(t) \/ Step(t)

CacheSpec == CacheInit /\ [][CacheNext]_cacheVars

----------------------------------------------------------------------------
(* A key of the resource is missed only when some load has failed: a       *)
(* thread that finds the table non-empty while another is still filling it *)
(* never reads the half-filled table (getMetricName, getEventSeverity).    *)
MissOnlyAfterFailedLoad ==
    \A t \in Threads : pc[t] = "done" /\ answer[t] = "none" => failures > 0
=============================================================================
