---------------------------- MODULE PrunsrvProofs ----------------------------
(* The process a service runs, for any threads of the service and any       *)
(* output: what a wait that returned and a process that was closed mean.    *)
(* And the options prunsrv reads, for any table of options and any command  *)
(* line: the last word about one wins (ReadInv), and a list keeps every     *)
(* piece of the texts that count (ListInv).                                 *)
EXTENDS RProcess, ProcrunOptions, FiniteSetTheorems, WellFoundedInduction, TLAPS

(* Before the process is executed nothing of it exists, and nobody can wait *)
(* for it.                                                                  *)
Unborn ==
  ~executed => /\ child = "none" /\ monitor = "none" /\ ~running
               /\ \A o \in Streams : reader[o] = "none"
               /\ \A c \in Callers : caller[c] \in {"idle", "closed"}

(* CHILD_RUNNING and the handle of the child come and go together, and stay *)
(* until somebody closes; who has forgotten the child has seen its end or   *)
(* failed to bring it about.                                                *)
Kept ==
  /\ handle = running
  /\ executed /\ Untouched => running /\ \A o \in Streams : output[o]
  /\ executed /\ ~running /\ child = "alive" => "remote" \in failed
  /\ \A c \in Callers : caller[c] \in {"join", "closed"} => ~running

(* What a closed process has given back.                                    *)
Returned ==
  /\ inner => "pipe" \in failed
  /\ \A c \in Callers : caller[c] = "closed" =>
       ~input /\ std = "own" /\ \A o \in Streams : ~output[o]

(* What the end of each thread means while nobody closes.                   *)
ThreadsTell ==
  /\ monitor \in {"exit", "ended"} => child = "ended"
  /\ Untouched =>
       /\ monitor = "ended" => recorded = status \/ foreign
       /\ \A o \in Streams : reader[o] = "ended" =>
            \/ child = "ended" /\ ~heir /\ delivered[o] = written[o]
            \/ AtEmpty(o)
       /\ \A c \in Callers : caller[c] = "waited" => ThreadsEnded

IInv == TypeOK /\ Unborn /\ Kept /\ Returned /\ ThreadsTell

(* The initial state satisfies it.                                          *)
LEMMA InitIInv == Init => IInv
<1> SUFFICES ASSUME Init PROVE IInv
  OBVIOUS
<1> USE DEF Init
<1>1. TypeOK
  <2>1. 0 \in 0..MaxOutput /\ 0 \in Statuses
    BY MaxOutputAssumption DEF Statuses
  <2>2. {running, executed, heir, input, inner, handle, joinable} \subseteq BOOLEAN
    OBVIOUS
  <2>3. QED
    BY <2>1, <2>2 DEF TypeOK
<1>2. Unborn /\ Kept /\ Returned
  BY DEF Unborn, Kept, Returned, Untouched, Closing, Streams
<1>3. ThreadsTell
  BY DEF ThreadsTell, AtEmpty, Untouched, Closing, Streams, ThreadsEnded
<1>4. QED
  BY <1>1, <1>2, <1>3 DEF IInv

(* apxProcessExecute.                                                       *)
LEMMA ExecuteStep ==
  ASSUME IInv, Execute \/ \E why \in {"pipe", "create"} : ExecuteFails(why)
  PROVE  IInv'
<1> USE DEF IInv, Unborn, Kept, Returned, ThreadsTell, AtEmpty, Untouched, Closing, Streams, ThreadsEnded,
            TypeOK, Statuses, Killed
<1>1. CASE Execute
  BY <1>1 DEF Execute, Fresh, codeVars
<1>2. ASSUME NEW why \in {"pipe", "create"}, ExecuteFails(why)
      PROVE  IInv'
  BY <1>2 DEF ExecuteFails, Fresh, childVars, threadVars, codeVars
<1>3. QED
  BY <1>1, <1>2

(* The child and the program it starts.                                     *)
LEMMA ChildStep == ASSUME IInv, Child PROVE IInv'
<1> USE MaxOutputAssumption, OthersAssumption DEF IInv, Unborn, Kept, Returned, ThreadsTell, AtEmpty, Untouched, Closing,
            Streams, ThreadsEnded, TypeOK, Statuses, Killed, threadVars, codeVars, handleVars
<1>1. ASSUME NEW o \in Streams, Write(o) PROVE IInv'
  BY <1>1 DEF Write
<1>2. CASE Starts
  BY <1>2 DEF Starts
<1>3. CASE HeirEnds
  <2> USE <1>3 DEF HeirEnds
  <2>1. TypeOK'
    OBVIOUS
  <2>2. (Unborn /\ Kept /\ Returned /\ ThreadsTell)'
    OBVIOUS
  <2>3. QED
    BY <2>1, <2>2
<1>4. ASSUME NEW code \in 0..1, Ends(code) PROVE IInv'
  <2> USE <1>4 DEF Ends
  <2>1. TypeOK'
    <3>1. status' \in Statuses
      BY SMT
    <3>2. child' \in {"none", "alive", "ended"}
      OBVIOUS
    <3>3. QED
      BY <3>1, <3>2
  <2>2. (Unborn /\ Kept /\ Returned /\ ThreadsTell)'
    OBVIOUS
  <2>3. QED
    BY <2>1, <2>2
<1>5. QED
  BY <1>1, <1>2, <1>3, <1>4 DEF Child

(* The threads that read and wait.                                          *)
LEMMA ThreadStep == ASSUME IInv, Threads PROVE IInv'
<1> USE MaxOutputAssumption, OthersAssumption DEF IInv, Unborn, Kept, Returned, ThreadsTell, AtEmpty, Untouched, Closing,
            Streams, ThreadsEnded, TypeOK, Statuses, Killed, childVars, codeVars, handleVars
<1>1. ASSUME NEW o \in Streams, TestRunning(o) PROVE IInv'
  BY <1>1 DEF TestRunning
<1>2. ASSUME NEW o \in Streams, ReadOutput(o) PROVE IInv'
  BY <1>2 DEF ReadOutput
<1>3. CASE ChildSeen
  BY <1>3 DEF ChildSeen
<1>4. CASE RecordExit
  BY <1>4 DEF RecordExit
<1>5. ASSUME NEW code \in Others, RecordElsewhere(code) PROVE IInv'
  BY <1>5 DEF RecordElsewhere
<1>6. QED
  BY <1>1, <1>2, <1>3, <1>4, <1>5 DEF Threads

(* apxProcessWait.                                                          *)
LEMMA WaitStep ==
  ASSUME IInv, NEW c \in Callers, WaitBegins(c) \/ WaitReturns(c) \/ WaitTimesOut(c)
  PROVE  IInv'
<1> USE DEF IInv, Unborn, Kept, Returned, ThreadsTell, AtEmpty, Untouched, Closing, Streams, ThreadsEnded,
            TypeOK, Statuses, Killed, Move, childVars, threadVars, codeVars, handleVars
<1>1. CASE WaitBegins(c)
  BY <1>1 DEF WaitBegins
<1>2. CASE WaitReturns(c)
  BY <1>2 DEF WaitReturns
<1>3. CASE WaitTimesOut(c)
  BY <1>3 DEF WaitTimesOut
<1>4. QED
  BY <1>1, <1>2, <1>3

(* WM_CLOSE.                                                                *)
LEMMA CloseStep == ASSUME IInv, NEW c \in Callers, Close(c) PROVE IInv'
<1> USE DEF IInv, Unborn, Kept, Returned, ThreadsTell, AtEmpty, Untouched, Closing, Streams, ThreadsEnded,
            TypeOK, Statuses, Killed, Move, Active, ForgetChild, childVars, threadVars, codeVars
<1>1. CASE CloseBegins(c)
  <2> USE <1>1 DEF CloseBegins
  <2>1. TypeOK'
    OBVIOUS
  <2>2. (Unborn /\ Returned)'
    BY ZenonT(60)
  <2>3. Kept'
    BY ZenonT(60)
  <2>4. ThreadsTell'
    BY ZenonT(60)
  <2>5. QED
    BY <2>1, <2>2, <2>3, <2>4
<1>2. CASE StdinWaited(c)
  <2> USE <1>2 DEF StdinWaited, Terminate
  <2>1. TypeOK'
    OBVIOUS
  <2>2. (Unborn /\ Returned)'
    OBVIOUS
  <2>3. Kept'
    BY ZenonT(60)
  <2>4. ThreadsTell'
    OBVIOUS
  <2>5. QED
    BY <2>1, <2>2, <2>3, <2>4
<1>3. CASE RemoteWaited(c)
  BY <1>3, ZenonT(60) DEF RemoteWaited, Terminate
<1>4. CASE Released(c)
  BY <1>4, ZenonT(60) DEF Released
<1>5. QED
  BY <1>1, <1>2, <1>3, <1>4 DEF Close

(* Every step.                                                              *)
LEMMA NextIInv == IInv /\ [Next]_vars => IInv'
<1>1. CASE Next
  BY <1>1, ExecuteStep, ChildStep, ThreadStep, WaitStep, CloseStep DEF Next
<1>2. CASE UNCHANGED vars
  BY <1>2 DEF vars, childVars, threadVars, codeVars, handleVars, IInv, TypeOK, Unborn, Kept, Returned,
    ThreadsTell, AtEmpty, Untouched, ThreadsEnded
<1>3. QED
  BY <1>1, <1>2

(* Every variable of the child process keeps its type: in particular the    *)
(* readers hand on no more than was written.                                *)
THEOREM TypeCorrect == Spec => []TypeOK
<1>1. IInv => TypeOK
  BY DEF IInv
<1>2. QED
  BY <1>1, InitIInv, NextIInv, PTL DEF Spec

(* A wait that has returned has let all output through (apxProcessWait), up *)
(* to a write of no length.                                                 *)
THEOREM Complete == Spec => []OutputComplete
<1>1. IInv => OutputComplete
  BY DEF IInv, ThreadsTell, ThreadsEnded, AtEmpty, OutputComplete
<1>2. QED
  BY <1>1, InitIInv, NextIInv, PTL DEF Spec

(* The exit code is recorded before the wait returns, and stays unless      *)
(* somebody else records one.                                               *)
THEOREM CodeKnown == Spec => []ExitCodeKnown
<1>1. IInv => ExitCodeKnown
  BY DEF IInv, ThreadsTell, ThreadsEnded, ExitCodeKnown
<1>2. QED
  BY <1>1, InitIInv, NextIInv, PTL DEF Spec

(* A closed process is gone and has given back what it held, but for the    *)
(* two failures nothing is cleaned up after.                                *)
THEOREM Gone == Spec => []ClosedIsGone
<1>1. IInv => ClosedIsGone
  <2> SUFFICES ASSUME IInv, NEW c \in Callers, caller[c] = "closed"
               PROVE  /\ child = "alive" => "remote" \in failed
                      /\ inner => "pipe" \in failed
                      /\ ~input /\ ~handle /\ std = "own" /\ \A o \in Streams : ~output[o]
    BY DEF ClosedIsGone
  <2> QED
    BY DEF IInv, Kept, Returned, Unborn
<1>2. QED
  BY <1>1, InitIInv, NextIInv, PTL DEF Spec

-----------------------------------------------------------------------------
(***************************************************************************)
(* The options.                                                            *)
(***************************************************************************)
(* A list is made of its elements.                                          *)
IsList(s) == s \in Seq({s[j] : j \in DOMAIN s})

(* A list by its places, and a longer one.                                  *)
LEMMA ListIs ==
  ASSUME NEW s, IsList(s)
  PROVE  /\ Len(s) \in Nat /\ DOMAIN s = 1 .. Len(s)
         /\ s # <<>> <=> Len(s) > 0
BY DEF IsList

(* What was appended is the last.                                           *)
LEMMA Appended ==
  ASSUME NEW s, IsList(s), NEW e
  PROVE  /\ IsList(Append(s, e)) /\ Append(s, e) # <<>> /\ Last(Append(s, e)) = e
<1> DEFINE S == {s[j] : j \in DOMAIN s} \cup {e}
           t == Append(s, e)
<1>1. s \in Seq(S) /\ e \in S
  <2>1. \A j \in 1 .. Len(s) : s[j] \in S
    BY ListIs
  <2>2. s = [j \in 1 .. Len(s) |-> s[j]]
    BY DEF IsList
  <2> HIDE DEF S
  <2>3. QED
    BY <2>1, <2>2, ListIs DEF S
<1> HIDE DEF S
<1>2. t \in Seq(S) /\ Len(t) = Len(s) + 1 /\ t[Len(t)] = e
  BY <1>1
<1> HIDE DEF t
<1>3. t = [j \in 1 .. Len(t) |-> t[j]] /\ Len(t) \in Nat /\ DOMAIN t = 1 .. Len(t) /\ Len(t) > 0
  BY <1>2, ListIs
<1>4. IsList(t)
  BY <1>3 DEF IsList
<1>5. t # <<>>
  BY <1>3
<1>6. QED
  BY <1>2, <1>4, <1>5 DEF t, Last

Below == {p \in Nat \X Nat : p[1] < p[2]}

(* A set of numbers that is not empty has a smallest, which is its Min.     *)
LEMMA MinIs ==
  ASSUME NEW S, S \subseteq Nat, S # {}
  PROVE  Min(S) \in S /\ \A n \in S : Min(S) <= n
<1>1. IsWellFoundedOn(Below, Nat)
  BY NatLessThanWellFounded DEF OpToRel, Below
<1>2. PICK m \in S : \A n \in S : ~(<<n, m>> \in Below)
  BY <1>1, WFMin
<1>3. \A n \in Nat : n < m => <<n, m>> \in Below
  BY DEF Below
<1>4. \A n \in S : ~(n < m) /\ n \in Nat /\ m \in Nat
  BY <1>2, <1>3
<1>5. \A n \in S : m <= n
  BY <1>4
<1>6. QED
  BY <1>5 DEF Min

(***************************************************************************)
(* The texts that count.                                                    *)
(***************************************************************************)
(* A variable alone counts.                                                 *)
LEMMA EnvTexts ==
  ASSUME NEW name, Prevails(name)
  PROVE  Texts(name) # <<>> /\ Last(Texts(name)) = env[name][1]
<1>1. Texts(name) = <<env[name][1]>>
  BY DEF Texts
<1>2. QED
  BY <1>1 DEF Last

(* Without one the last that was given counts.                              *)
LEMMA GivenTexts ==
  ASSUME NEW name, ~Prevails(name), IsList(given[name])
  PROVE  /\ Texts(name) # <<>> <=> given[name] # <<>>
         /\ given[name] # <<>> => Last(Texts(name)) = Last(given[name])[2]
<1> DEFINE g == given[name]
           sets == { j \in DOMAIN g : g[j][1] = "--" }
           from == IF sets = {} \/ g[1][1] = "--" THEN 1 ELSE Min(sets)
           n == Len(g) + 1 - from
           t == [j \in 1 .. n |-> g[from + j - 1][2]]
<1>1. Texts(name) = t
  BY DEF Texts, Counting
<1>2. Len(g) \in Nat /\ DOMAIN g = 1 .. Len(g) /\ (g # <<>> <=> Len(g) > 0)
  BY ListIs
<1>3. from \in Nat /\ from >= 1 /\ (g # <<>> => from <= Len(g))
  <2>1. CASE sets = {} \/ g[1][1] = "--"
    BY <1>2, <2>1
  <2>2. CASE ~(sets = {} \/ g[1][1] = "--")
    <3>1. sets \subseteq Nat /\ sets # {}
      BY <1>2, <2>2
    <3> HIDE DEF sets
    <3>2. Min(sets) \in sets
      BY <3>1, MinIs
    <3>3. Min(sets) \in 1 .. Len(g)
      BY <1>2, <3>2 DEF sets
    <3>4. QED
      BY <1>2, <2>2, <3>3
  <2>3. QED
    BY <2>1, <2>2
<1>4. g = <<>> => from = 1
  <2>1. g = <<>> => sets = {}
    BY <1>2
  <2>2. QED
    BY <2>1
<1> HIDE DEF g, from, sets
<1>5. CASE g # <<>>
  <2>1. n \in Nat /\ n > 0 /\ from + n - 1 = Len(g)
    BY <1>2, <1>3, <1>5
  <2>2. DOMAIN t = 1 .. n
    OBVIOUS
  <2>3. t[n] = g[Len(g)][2]
    BY <2>1
  <2> HIDE DEF t, n
  <2>4. t # <<>> /\ Len(t) = n
    BY <2>1, <2>2
  <2>5. QED
    BY <1>1, <1>5, <2>3, <2>4 DEF Last, g
<1>6. CASE g = <<>>
  <2>1. n = 0
    BY <1>2, <1>4, <1>6
  <2>2. t = <<>>
    BY <2>1
  <2>3. QED
    BY <1>1, <1>6, <2>2 DEF g
<1>7. QED
  BY <1>5, <1>6

(* A row of _options has its members.                                       *)
IsRow(o) ==
  /\ o = [value |-> o.value, num |-> o.num, length |-> o.length, found |-> o.found, add |-> o.add]
  /\ o.found \in BOOLEAN

(* A row says that something was given, and which text was the last.        *)
Says(name, some, last, o) ==
  /\ o.found = some
  /\ some /\ Kind[name] = "str" => o.value = <<last>>
  /\ some /\ Kind[name] = "int" => o.num = Number(last)

(* For what was given so far, and for what counts in the end.               *)
Parsed(name) == Says(name, given[name] # <<>>, Last(given[name])[2], opts[name])
Settled(name) == Says(name, Texts(name) # <<>>, Last(Texts(name)), opts[name])

(* What a save writes.                                                      *)
Written(name) == Stores(name, opts[name])

(* No variable up to the turn of the loop has failed.                       *)
Readable == \A j \in 1 .. k - 1 : ~Fails(Options[j])

(* Until the environment is read a row says what was given, then row by row *)
(* what counts; and a save has written the rows it has passed.              *)
ReadInv ==
  /\ at \in {"command", "parse", "refused", "env", "load", "ready", "run", "save", "saved"}
  /\ k \in 1 .. Len(Options)
  /\ at \notin {"env", "load", "save"} => k = 1
  /\ DOMAIN opts = Names /\ DOMAIN given = Names /\ DOMAIN env = Names /\ DOMAIN reg = Names
  /\ \A name \in Names : IsRow(opts[name]) /\ IsList(given[name])
  /\ at \in {"command", "parse"} => \A name \in Names : Parsed(name)
  /\ at = "env" => /\ \A name \in Names : Parsed(name) \/ Settled(name)
                   /\ \A j \in 1 .. k - 1 : Settled(Options[j])
                   /\ Readable
  /\ at \in {"load", "ready", "run", "save", "saved"} => \A name \in Names : Settled(name)
  /\ at = "save" => \A j \in 1 .. k - 1 : opts[Options[j]].found => reg[Options[j]] = Written(Options[j])

(* The table of options by its places.                                      *)
LEMMA OptionsIs ==
  /\ Len(Options) \in Nat /\ Len(Options) > 0 /\ DOMAIN Options = 1 .. Len(Options)
  /\ \A j \in 1 .. Len(Options) : Options[j] \in Names
  /\ \A name \in Names : \E j \in 1 .. Len(Options) : Options[j] = name
  /\ \A name \in Names : Kind[name] \in {"str", "int", "msz"}
<1>1. Len(Options) \in Nat /\ Len(Options) > 0 /\ DOMAIN Options = 1 .. Len(Options)
  BY OptionsAssumption
<1>2. Names = {Options[j] : j \in DOMAIN Options}
  BY DEF Names, ToSet
<1>3. QED
  BY <1>1, <1>2, OptionsAssumption DEF Names

(* What sets a member of a row leaves a row.                                *)
Row(v, n, l, f, a) == [value |-> v, num |-> n, length |-> l, found |-> f, add |-> a]

(* Setting a member of a row.                                               *)
LEMMA RowSet ==
  ASSUME NEW v, NEW n, NEW l, NEW f, NEW a, NEW x
  PROVE  /\ [Row(v, n, l, f, a) EXCEPT !.found = x] = Row(v, n, l, x, a)
         /\ [Row(v, n, l, f, a) EXCEPT !.add = x] = Row(v, n, l, f, x)
BY DEF Row

(* The truth values, by a name: the provers read them as formulas.          *)
Yes == TRUE
No == FALSE

(* Whatever has the members of a row is one.                                *)
LEMMA RowIs ==
  ASSUME NEW o
  PROVE  IsRow(o) <=> \E v, n, l, a : \E f \in BOOLEAN : o = Row(v, n, l, f, a)
<1>1. ASSUME IsRow(o) PROVE o = Row(o.value, o.num, o.length, o.found, o.add) /\ o.found \in BOOLEAN
  BY <1>1 DEF IsRow, Row
<1>2. ASSUME NEW v, NEW n, NEW l, NEW a, NEW f \in BOOLEAN, o = Row(v, n, l, f, a) PROVE IsRow(o)
  BY <1>2 DEF IsRow, Row
<1>3. QED
  BY <1>1, <1>2

(* A value is put into a row.                                               *)
LEMMA PutIs ==
  ASSUME NEW name \in Names, NEW o, IsRow(o), NEW val
  PROVE  LET p == [Put(o, name, val) EXCEPT !.found = TRUE] IN
         IsRow(p) /\ Says(name, TRUE, val, p)
<1> DEFINE put == Put(o, name, val)
           p == [put EXCEPT !.found = TRUE]
<1>1. PICK w, n, l, a : \E f \in BOOLEAN : o = Row(w, n, l, f, a)
  BY RowIs
<1>2. PICK f \in BOOLEAN : o = Row(w, n, l, f, a)
  BY <1>1
<1>3. \E v, m, c : put = Row(v, c, m, f, a) /\ Says(name, TRUE, val, Row(v, c, m, Yes, a))
  <2>1. CASE Kind[name] = "str"
    <3>1. put = [o EXCEPT !.value = <<val>>]
      BY <2>1 DEF Put
    <3> HIDE DEF put
    <3>2. put = Row(<<val>>, n, l, f, a)
      BY <1>2, <3>1 DEF Row
    <3>3. Row(<<val>>, n, l, Yes, a).found = TRUE /\ Row(<<val>>, n, l, Yes, a).value = <<val>>
      BY DEF Row, Yes
    <3>4. QED
      BY <2>1, <3>2, <3>3 DEF Says
  <2>2. CASE Kind[name] = "int"
    <3>1. put = [o EXCEPT !.num = Number(val)]
      BY <2>2 DEF Put
    <3> HIDE DEF put
    <3>2. put = Row(w, Number(val), l, f, a)
      BY <1>2, <3>1 DEF Row
    <3>3. Row(w, Number(val), l, Yes, a).found = TRUE /\ Row(w, Number(val), l, Yes, a).num = Number(val)
      BY DEF Row, Yes
    <3>4. QED
      BY <2>2, <3>2, <3>3 DEF Says
  <2>3. CASE Kind[name] = "msz"
    <3>1. put = AppendList(o, val)
      BY <2>3 DEF Put
    <3>2. PICK m, v : put = [o EXCEPT !.length = m, !.value = v]
      BY <3>1 DEF AppendList
    <3> HIDE DEF put
    <3>3. put = Row(v, n, m, f, a)
      BY <1>2, <3>2 DEF Row
    <3>4. Row(v, n, m, Yes, a).found = TRUE
      BY DEF Row, Yes
    <3>5. QED
      BY <2>3, <3>3, <3>4 DEF Says
  <2>4. QED
    BY <2>1, <2>2, <2>3, OptionsIs
<1> HIDE DEF put
<1>4. PICK v, m, c : put = Row(v, c, m, f, a) /\ Says(name, TRUE, val, Row(v, c, m, Yes, a))
  BY <1>3
<1>5. p = [put EXCEPT !.found = Yes]
  BY DEF Yes
<1> HIDE DEF p
<1>6. p = Row(v, c, m, Yes, a)
  BY <1>4, <1>5 DEF Row
<1>7. IsRow(p)
  BY <1>6, RowIs, Yes \in BOOLEAN DEF Yes
<1>8. QED
  BY <1>4, <1>6, <1>7 DEF p, put

(* Marking an addition or discarding them leaves a row.                     *)
LEMMA MarkIs == ASSUME NEW o, IsRow(o), NEW sign PROVE IsRow(Mark(o, sign))
<1>1. PICK v, n, l, a : \E f \in BOOLEAN : o = Row(v, n, l, f, a)
  BY RowIs
<1>2. PICK f \in BOOLEAN : o = Row(v, n, l, f, a)
  BY <1>1
<1> DEFINE added == [o EXCEPT !.add = TRUE]
           fresh == [NotGiven EXCEPT !.found = o.found]
<1>3. Mark(o, sign) \in {o, added, fresh}
  BY DEF Mark
<1>4. added = [o EXCEPT !.add = Yes]
  BY DEF Yes
<1>5. NotGiven = Row(Null, 0, 0, No, No)
  BY DEF NotGiven, Row, No
<1>6. fresh = [Row(Null, 0, 0, No, No) EXCEPT !.found = f]
  BY <1>2, <1>5 DEF Row
<1> HIDE DEF added, fresh
<1>7. added = Row(v, n, l, f, Yes)
  BY <1>2, <1>4, RowSet
<1>8. fresh = Row(Null, 0, 0, f, No)
  BY <1>6 DEF Row
<1>9. QED
  BY <1>2, <1>3, <1>7, <1>8, RowIs

(* A row as it is at first.                                                 *)
LEMMA NotGivenIs == IsRow(NotGiven) /\ NotGiven.found = FALSE
BY DEF IsRow, NotGiven

(* A variable replaces what was given, and without one that counts.         *)
LEMMA FromEnvIs ==
  ASSUME NEW name \in Names, IsRow(opts[name]), IsList(given[name]), Parsed(name) \/ Settled(name),
         Prevails(name) <=> env[name] # Null /\ Fits(env[name][1])
  PROVE  LET o == FromEnv(name, opts[name]) IN
         IsRow(o) /\ Says(name, Texts(name) # <<>>, Last(Texts(name)), o)
<1> DEFINE o == FromEnv(name, opts[name])
<1>1. CASE ~Prevails(name)
  <2>1. o = opts[name]
    BY <1>1 DEF FromEnv
  <2>2. Settled(name)
    BY <1>1, GivenTexts DEF Parsed, Settled, Says
  <2>3. QED
    BY <2>1, <2>2 DEF Settled
<1>2. CASE Prevails(name) /\ Kind[name] # "msz"
  <2> DEFINE was == opts[name]
             p == [Put(was, name, env[name][1]) EXCEPT !.found = TRUE]
  <2>1. o = p
    BY <1>2 DEF FromEnv
  <2>2. IsRow(p) /\ Says(name, TRUE, env[name][1], p)
    BY PutIs
  <2> HIDE DEF o, p, was
  <2>3. Texts(name) # <<>> /\ Last(Texts(name)) = env[name][1]
    BY <1>2, EnvTexts
  <2>4. IsRow(o) /\ Says(name, Texts(name) # <<>>, Last(Texts(name)), o)
    BY <2>1, <2>2, <2>3 DEF Says
  <2>5. QED
    BY <2>4 DEF o
<1>3. CASE Prevails(name) /\ Kind[name] = "msz"
  <2>1. PICK n, v : o = [[NotGiven EXCEPT !.length = n, !.value = v] EXCEPT !.found = TRUE, !.add = TRUE]
    BY <1>3 DEF FromEnv, AppendList
  <2> HIDE DEF o
  <2>2. o = Row(v, 0, n, TRUE, TRUE)
    BY <2>1 DEF NotGiven, Row
  <2>3. IsRow(o) /\ o.found = TRUE
    BY <2>2, RowIs DEF Row
  <2>4. Texts(name) # <<>>
    BY <1>3, EnvTexts
  <2>5. IsRow(o) /\ Says(name, Texts(name) # <<>>, Last(Texts(name)), o)
    BY <1>3, <2>3, <2>4 DEF Says
  <2>6. QED
    BY <2>5 DEF o
<1>4. QED
  BY <1>1, <1>2, <1>3

(* The registry gives what was not given, and a list to add to.             *)
LEMMA FromRegistryIs ==
  ASSUME NEW name \in Names, IsRow(opts[name]), Settled(name)
  PROVE  LET o == FromRegistry(name, opts[name]) IN
         IsRow(o) /\ Says(name, Texts(name) # <<>>, Last(Texts(name)), o)
<1> DEFINE was == opts[name]
           o == FromRegistry(name, was)
<1>1. CASE o = was
  BY <1>1 DEF Settled
<1>2. CASE ~was.found
  <2>1. PICK v : o = [was EXCEPT !.num = v] \/ o = [was EXCEPT !.value = v]
    BY <1>2 DEF FromRegistry
  <2> HIDE DEF o, was
  <2>2. IsRow(o) /\ o.found = was.found
    BY <2>1 DEF IsRow, was
  <2>3. QED
    BY <1>2, <2>2 DEF Settled, Says, was, o
<1>3. CASE was.found /\ o # was
  <2>1. PICK v, n : o = [was EXCEPT !.value = v, !.length = n]
    BY <1>3 DEF FromRegistry
  <2>2. Kind[name] = "msz"
    BY <1>3 DEF FromRegistry
  <2> HIDE DEF o, was
  <2>3. IsRow(o) /\ o.found = was.found
    BY <2>1 DEF IsRow, was
  <2>4. QED
    BY <2>2, <2>3 DEF Settled, Says, was, o
<1>4. QED
  BY <1>1, <1>2, <1>3

(* What is said of a name stays while nothing of it changes.                *)
LEMMA NameStays ==
  ASSUME NEW name, env' = env, given'[name] = given[name]
  PROVE  /\ Texts(name)' = Texts(name)
         /\ opts'[name] = opts[name] =>
              /\ Parsed(name)' <=> Parsed(name)
              /\ Settled(name)' <=> Settled(name)
              /\ Written(name)' = Written(name)
<1>1. Texts(name)' = Texts(name)
  BY DEF Texts, Prevails, Fails
<1>2. QED
  BY <1>1 DEF Parsed, Settled, Written, Stores

(* At first nothing is given.                                               *)
LEMMA ReadInit == OptionsInit => ReadInv
<1> SUFFICES ASSUME OptionsInit PROVE ReadInv
  OBVIOUS
<1>1. PICK case \in Cases : argv = case[1] /\ env = case[2] /\ reg = case[3]
  BY DEF OptionsInit
<1>2. /\ at = "command" /\ k = 1
      /\ opts = [n \in Names |-> NotGiven] /\ given = [n \in Names |-> <<>>]
  BY DEF OptionsInit
<1>3. DOMAIN env = Names /\ DOMAIN reg = Names
  BY <1>1, CasesAssumption DEF Names
<1>4. k \in 1 .. Len(Options)
  BY <1>2, OptionsIs
<1>5. IsList(<<>>)
  BY DEF IsList
<1>6. ASSUME NEW name \in Names PROVE IsRow(opts[name]) /\ IsList(given[name]) /\ Parsed(name)
  <2>1. opts[name] = NotGiven /\ given[name] = <<>>
    BY <1>2
  <2>2. QED
    BY <1>5, <2>1, NotGivenIs DEF Parsed, Says
<1>7. QED
  BY <1>2, <1>3, <1>4, <1>6 DEF ReadInv

(* A word is read.                                                          *)
LEMMA ReadOptionKeeps == ASSUME ReadInv, ReadOption PROVE ReadInv'
<1> DEFINE w == argv[i]
           joined == w.text # <<>>
           val == IF joined THEN w.text[1] ELSE Text(argv[i + 1])
<1> PICK name, text, sign : name = w.name /\ text = val /\ sign = w.sign
  OBVIOUS
<1> DEFINE p == [Put(Mark(opts[name], sign), name, text) EXCEPT !.found = TRUE]
<1>1. /\ at = "parse" /\ k = 1 /\ UNCHANGED <<env, reg, k>>
      /\ DOMAIN opts = Names /\ DOMAIN given = Names /\ DOMAIN env = Names /\ DOMAIN reg = Names
      /\ \A n \in Names : /\ IsRow(opts[n]) /\ IsList(given[n]) /\ Parsed(n)
  BY DEF ReadInv, ReadOption
<1>2. CASE name \in Names /\ (joined \/ i < Len(argv))
  <2>1. /\ opts' = [opts EXCEPT ![name] = p] /\ given' = [given EXCEPT ![name] = Append(@, <<sign, text>>)]
        /\ at' = at
    BY <1>2 DEF ReadOption
  <2>2. IsRow(p) /\ Says(name, TRUE, text, p)
    BY <1>1, <1>2, MarkIs, PutIs
  <2> DEFINE g == Append(given[name], <<sign, text>>)
  <2>3. IsList(g) /\ g # <<>> /\ Last(g) = <<sign, text>>
    BY <1>1, <1>2, Appended
  <2>4. opts'[name] = p /\ given'[name] = g /\ DOMAIN opts' = Names /\ DOMAIN given' = Names
    BY <1>1, <1>2, <2>1
  <2> HIDE DEF p, g, val, joined, w
  <2>5. Parsed(name)' /\ IsRow(opts'[name]) /\ IsList(given'[name])
    <3>1. Last(given'[name])[2] = text /\ given'[name] # <<>>
      BY <2>3, <2>4
    <3>2. /\ opts'[name].found = TRUE
          /\ Kind[name] = "str" => opts'[name].value = <<text>>
          /\ Kind[name] = "int" => opts'[name].num = Number(text)
      BY <2>2, <2>4 DEF Says
    <3>3. Parsed(name)'
      BY <3>1, <3>2 DEF Parsed, Says
    <3>4. QED
      BY <2>2, <2>3, <2>4, <3>3
  <2>6. ASSUME NEW n \in Names, n # name
        PROVE  Parsed(n)' /\ IsRow(opts'[n]) /\ IsList(given'[n])
    <3>1. opts'[n] = opts[n] /\ given'[n] = given[n]
      BY <2>1, <2>6
    <3>2. QED
      BY <1>1, <3>1, NameStays
  <2>7. \A n \in Names : IsRow(opts'[n]) /\ IsList(given'[n]) /\ Parsed(n)'
    BY <2>5, <2>6
  <2>8. QED
    BY <1>1, <2>1, <2>4, <2>7, OptionsIs DEF ReadInv
<1>3. CASE ~(name \in Names /\ (joined \/ i < Len(argv)))
  <2>1. at' = "refused" /\ UNCHANGED <<opts, given>>
    BY <1>3 DEF ReadOption
  <2>2. QED
    BY <1>1, <2>1 DEF ReadInv, IsList
<1>4. QED
  BY <1>2, <1>3

(* A turn of a loop over the table that settles a row: what loops have      *)
(* in common.                                                               *)
LEMMA LoopIs ==
  ASSUME NEW here, NEW next, Loop(here, next), k \in 1 .. Len(Options)
  PROVE  /\ at = here /\ UNCHANGED <<env, given>> /\ k' \in 1 .. Len(Options) /\ Options[k] \in Names
         /\ \/ at' = at /\ k' = k + 1 /\ \A j \in 1 .. k' - 1 : j \in 1 .. k - 1 \/ j = k
            \/ at' = next /\ k' = 1 /\ k = Len(Options)
<1>1. at = here /\ UNCHANGED <<env, given>>
  BY DEF Loop
<1>2. (k < Len(Options) /\ k' = k + 1 /\ at' = at) \/ (~(k < Len(Options)) /\ k' = 1 /\ at' = next)
  BY DEF Loop
<1>3. \A j \in 1 .. k : j \in 1 .. k - 1 \/ j = k
  OBVIOUS
<1>4. Options[k] \in Names
  BY OptionsIs
<1>5. CASE k < Len(Options)
  <2>1. k' = k + 1 /\ k' - 1 = k /\ k' \in 1 .. Len(Options) /\ at' = at
    BY <1>2, <1>5, OptionsIs
  <2>2. QED
    BY <1>1, <1>3, <1>4, <2>1
<1>6. CASE ~(k < Len(Options))
  <2>1. Len(Options) \in Nat /\ Len(Options) > 0
    BY OptionsIs
  <2>2. k = Len(Options) /\ 1 \in 1 .. Len(Options)
    BY <1>6, <2>1
  <2>3. QED
    BY <1>1, <1>2, <1>4, <1>6, <2>2
<1>7. QED
  BY <1>5, <1>6

(* Which variables prevail, at their turn and when the loop is ended.       *)
LEMMA PrevailsIs ==
  ASSUME Readable, k \in 1 .. Len(Options)
  PROVE  /\ ~Fails(Options[k]) =>
              (Prevails(Options[k]) <=> env[Options[k]] # Null /\ Fits(env[Options[k]][1]))
         /\ Fails(Options[k]) => \A h \in k .. Len(Options) : ~Prevails(Options[h])
<1>1. ASSUME ~Fails(Options[k]), NEW j \in DOMAIN Options, NEW h \in DOMAIN Options,
             Options[h] = Options[k], j <= h
      PROVE  ~Fails(Options[j])
  <2>1. h = k
    BY <1>1, OptionsIs, OptionsAssumption DEF IsInjective
  <2>2. j \in 1 .. k - 1 \/ j = k
    BY <1>1, <2>1, OptionsIs
  <2>3. QED
    BY <1>1, <2>2 DEF Readable
<1>2. ASSUME Fails(Options[k]), NEW h \in k .. Len(Options) PROVE ~Prevails(Options[h])
  <2>1. k \in DOMAIN Options /\ h \in DOMAIN Options /\ k <= h
    BY <1>2, OptionsIs
  <2>2. QED
    BY <1>2, <2>1 DEF Prevails
<1>3. QED
  BY <1>1, <1>2 DEF Prevails

(* A variable that fails ends the loop: what was given counts for the rest. *)
LEMMA EnvFailsKeeps == ASSUME ReadInv, EnvFails PROVE ReadInv'
<1>1. /\ at = "env" /\ Fails(Options[k]) /\ at' = "load" /\ k' = 1
      /\ UNCHANGED <<opts, env, reg, given>>
  BY DEF EnvFails
<1>2. /\ k \in 1 .. Len(Options) /\ Readable
      /\ \A n \in Names : IsRow(opts[n]) /\ IsList(given[n]) /\ (Parsed(n) \/ Settled(n))
      /\ \A j \in 1 .. k - 1 : Settled(Options[j])
  BY <1>1 DEF ReadInv
<1>3. ASSUME NEW n \in Names PROVE Settled(n)
  <2>1. PICK h \in 1 .. Len(Options) : Options[h] = n
    BY OptionsIs
  <2>2. CASE h \in 1 .. k - 1
    BY <1>2, <2>1, <2>2
  <2>3. CASE h \in k .. Len(Options)
    <3>1. ~Prevails(n)
      BY <1>1, <1>2, <2>1, <2>3, PrevailsIs
    <3>2. QED
      BY <1>2, <3>1, GivenTexts DEF Parsed, Settled, Says
  <2>4. QED
    BY <1>2, <2>2, <2>3, OptionsIs
<1>4. \A n \in Names : Settled(n)'
  BY <1>1, <1>3, NameStays
<1>5. 1 \in 1 .. Len(Options)
  BY OptionsIs
<1>6. QED
  BY <1>1, <1>4, <1>5 DEF ReadInv, IsList

(* A turn of the loop over the variables settles a row.                     *)
LEMMA LoadEnvVarKeeps == ASSUME ReadInv, LoadEnvVar PROVE ReadInv'
<1> PICK name : name = Options[k]
  OBVIOUS
<1> DEFINE p == FromEnv(name, opts[name])
<1>1. /\ at = "env" /\ k \in 1 .. Len(Options)
      /\ DOMAIN opts = Names /\ DOMAIN given = Names /\ DOMAIN env = Names /\ DOMAIN reg = Names
      /\ \A n \in Names : /\ IsRow(opts[n]) /\ IsList(given[n]) /\ (Parsed(n) \/ Settled(n))
      /\ \A j \in 1 .. k - 1 : Settled(Options[j])
      /\ Readable /\ ~Fails(Options[k])
  BY DEF ReadInv, LoadEnvVar, Loop
<1>2. /\ UNCHANGED <<env, given, reg>> /\ k' \in 1 .. Len(Options) /\ name \in Names
      /\ \/ at' = at /\ k' = k + 1 /\ \A j \in 1 .. k' - 1 : j \in 1 .. k - 1 \/ j = k
         \/ at' = "load" /\ k' = 1 /\ k = Len(Options)
  BY <1>1, LoopIs DEF LoadEnvVar
<1>3. opts' = [opts EXCEPT ![name] = p]
  BY DEF LoadEnvVar
<1>4. IsRow(p) /\ Says(name, Texts(name) # <<>>, Last(Texts(name)), p)
  BY <1>1, <1>2, FromEnvIs, PrevailsIs
<1>5. opts'[name] = p /\ DOMAIN opts' = Names
  BY <1>1, <1>2, <1>3
<1> HIDE DEF p
<1>6. Settled(name)' /\ IsRow(opts'[name])
  BY <1>2, <1>4, <1>5, NameStays DEF Settled
<1>7. ASSUME NEW n \in Names
      PROVE  /\ IsRow(opts'[n]) /\ IsList(given'[n]) /\ (Parsed(n)' \/ Settled(n)')
             /\ Settled(n) => Settled(n)'
  <2>1. CASE n = name
    BY <1>1, <1>2, <1>6, <2>1
  <2>2. CASE n # name
    <3>1. opts'[n] = opts[n] /\ given'[n] = given[n]
      BY <1>2, <1>3, <2>2
    <3>2. QED
      BY <1>1, <1>2, <3>1, NameStays
  <2>3. QED
    BY <2>1, <2>2
<1>8. \A j \in 1 .. k : Settled(Options[j])'
  <2>1. ASSUME NEW j \in 1 .. k PROVE Settled(Options[j])'
    <3>1. CASE j = k
      BY <1>6, <3>1
    <3>2. CASE j # k
      <4>1. j \in 1 .. k - 1 /\ j \in 1 .. Len(Options)
        BY <1>1, <3>2
      <4>2. QED
        BY <1>1, <1>7, <4>1, OptionsIs
    <3>3. QED
      BY <3>1, <3>2
  <2>2. QED
    BY <2>1
<1>9. CASE at' = at /\ k' = k + 1
  <2>1. (\A j \in 1 .. k' - 1 : Settled(Options[j])') /\ Readable'
    <3>1. k' - 1 = k /\ \A j \in 1 .. k : j \in 1 .. k - 1 \/ j = k
      BY <1>1, <1>9
    <3>2. Readable'
      BY <1>1, <1>2, <3>1 DEF Readable, Fails
    <3>3. QED
      BY <1>8, <3>1, <3>2
  <2>2. QED
    BY <1>1, <1>2, <1>5, <1>7, <1>9, <2>1 DEF ReadInv, IsList
<1>10. CASE at' = "load" /\ k' = 1 /\ k = Len(Options)
  <2>1. \A n \in Names : Settled(n)'
    BY <1>8, <1>10, OptionsIs
  <2>2. QED
    BY <1>1, <1>2, <1>5, <1>7, <1>10, <2>1 DEF ReadInv, IsList
<1>11. QED
  BY <1>2, <1>9, <1>10

(* A turn of the loop over the registry leaves the settled rows so.         *)
LEMMA LoadKeeps == ASSUME ReadInv, Load PROVE ReadInv'
<1> PICK name : name = Options[k]
  OBVIOUS
<1> DEFINE p == FromRegistry(name, opts[name])
<1>1. /\ at = "load" /\ k \in 1 .. Len(Options)
      /\ DOMAIN opts = Names /\ DOMAIN given = Names /\ DOMAIN env = Names /\ DOMAIN reg = Names
      /\ \A n \in Names : /\ IsRow(opts[n]) /\ IsList(given[n]) /\ Settled(n)
  BY DEF ReadInv, Load, Loop
<1>2. /\ UNCHANGED <<env, given, reg>> /\ k' \in 1 .. Len(Options) /\ name \in Names
      /\ \/ at' = at
         \/ at' = "ready" /\ k' = 1
  BY <1>1, LoopIs DEF Load
<1>3. opts' = [opts EXCEPT ![name] = p]
  BY DEF Load
<1>4. IsRow(p) /\ Says(name, Texts(name) # <<>>, Last(Texts(name)), p)
  BY <1>1, <1>2, FromRegistryIs
<1>5. opts'[name] = p /\ DOMAIN opts' = Names
  BY <1>1, <1>2, <1>3
<1> HIDE DEF p
<1>6. Settled(name)' /\ IsRow(opts'[name])
  BY <1>2, <1>4, <1>5, NameStays DEF Settled
<1>7. ASSUME NEW n \in Names
      PROVE  IsRow(opts'[n]) /\ IsList(given'[n]) /\ Settled(n)'
  <2>1. CASE n = name
    BY <1>1, <1>2, <1>6, <2>1
  <2>2. CASE n # name
    <3>1. opts'[n] = opts[n] /\ given'[n] = given[n]
      BY <1>2, <1>3, <2>2
    <3>2. QED
      BY <1>1, <1>2, <3>1, NameStays
  <2>3. QED
    BY <2>1, <2>2
<1>8. QED
  BY <1>1, <1>2, <1>5, <1>7 DEF ReadInv, IsList

(* A save writes what was given, row by row.                                *)
LEMMA SaveIs ==
  ASSUME ReadInv, Save
  PROVE  /\ UNCHANGED <<env, given, opts>>
         /\ \A n \in Names : opts[n].found /\ reg'[n] # reg[n] => reg'[n] = Written(n)
         /\ \A n \in Names : ~opts[n].found => reg'[n] = reg[n]
         /\ DOMAIN reg' = Names /\ k' \in 1 .. Len(Options)
         /\ \A j \in 1 .. k : opts[Options[j]].found => reg'[Options[j]] = Written(Options[j])
         /\ ((at' = at /\ k' = k + 1) \/ (at' = "saved" /\ k' = 1 /\ k = Len(Options)))
<1> DEFINE name == Options[k]
           v == IF ~opts[name].found THEN reg[name] ELSE Written(name)
<1>1. /\ k \in 1 .. Len(Options) /\ at = "save" /\ DOMAIN reg = Names
      /\ \A j \in 1 .. k - 1 : opts[Options[j]].found => reg[Options[j]] = Written(Options[j])
  BY DEF ReadInv, Save, Loop
<1>2. /\ UNCHANGED <<env, given, opts>> /\ k' \in 1 .. Len(Options) /\ name \in Names
      /\ ((at' = at /\ k' = k + 1) \/ (at' = "saved" /\ k' = 1 /\ k = Len(Options)))
  BY <1>1, LoopIs DEF Save
<1>3. reg' = [reg EXCEPT ![name] = v]
  <2>1. reg' = [reg EXCEPT ![name] = IF opts[name].found THEN Stores(name, opts[name]) ELSE reg[name]]
    BY DEF Save
  <2>2. QED
    BY <2>1 DEF Written
<1> HIDE DEF v
<1>4. reg'[name] = v /\ \A n \in Names : n # name => reg'[n] = reg[n]
  BY <1>1, <1>2, <1>3
<1>5. \A j \in 1 .. k : j = k \/ j \in 1 .. k - 1
  BY <1>1
<1>6. \A j \in 1 .. k : Options[j] \in Names
  BY <1>1, OptionsIs
<1>7. v \in {reg[name], Written(name)} /\ (opts[name].found => v = Written(name))
      /\ (~opts[name].found => v = reg[name])
  BY DEF v
<1>8. DOMAIN reg' = Names
  BY <1>1, <1>3
<1>9. ASSUME NEW j \in 1 .. k, opts[Options[j]].found PROVE reg'[Options[j]] = Written(Options[j])
  <2>1. CASE Options[j] = name
    BY <1>4, <1>7, <1>9, <2>1
  <2>2. CASE Options[j] # name
    BY <1>1, <1>4, <1>5, <1>6, <1>9, <2>2
  <2>3. QED
    BY <2>1, <2>2
<1>10. QED
  BY <1>2, <1>4, <1>7, <1>8, <1>9

(* A turn of the loop that saves.                                           *)
LEMMA SaveKeeps == ASSUME ReadInv, Save PROVE ReadInv'
<1>1. /\ at = "save" /\ DOMAIN opts = Names /\ DOMAIN given = Names /\ DOMAIN env = Names
      /\ \A n \in Names : /\ IsRow(opts[n]) /\ IsList(given[n]) /\ Settled(n)
      /\ k \in 1 .. Len(Options)
  BY DEF ReadInv, Save, Loop
<1>2. /\ UNCHANGED <<env, given, opts>> /\ DOMAIN reg' = Names /\ k' \in 1 .. Len(Options)
      /\ \A j \in 1 .. k : opts[Options[j]].found => reg'[Options[j]] = Written(Options[j])
      /\ ((at' = at /\ k' = k + 1) \/ (at' = "saved" /\ k' = 1 /\ k = Len(Options)))
  BY SaveIs
<1>3. \A n \in Names : Settled(n)' /\ Written(n)' = Written(n)
  BY <1>1, <1>2, NameStays
<1>4. at' = "save" => \A j \in 1 .. k' - 1 : opts'[Options[j]].found => reg'[Options[j]] = Written(Options[j])'
  <2>1. at' = "save" => k' = k + 1 /\ k' - 1 = k
    BY <1>1, <1>2
  <2>2. \A j \in 1 .. k : Options[j] \in Names
    BY <1>1, OptionsIs
  <2>3. QED
    BY <1>2, <1>3, <2>1, <2>2
<1>5. opts' = opts /\ given' = given /\ env' = env /\ at' \in {"save", "saved"} /\ (at' = "saved" => k' = 1)
  BY <1>1, <1>2
<1>6. \A n \in Names : Settled(n)'
  BY <1>3
<1>7. QED
  BY <1>1, <1>2, <1>4, <1>5, <1>6 DEF ReadInv

(* Every step keeps the invariant.                                          *)
LEMMA ReadNext == ReadInv /\ [OptionsNext]_optionsVars => ReadInv'
<1> SUFFICES ASSUME ReadInv, [OptionsNext]_optionsVars PROVE ReadInv'
  OBVIOUS
<1>1. ASSUME UNCHANGED <<opts, env, reg, k, given>>,
             at' = at \/ (at \in {"command", "parse"} /\ at' \in {"parse", "refused", "env"})
                      \/ (at = "ready" /\ at' \in {"save", "run"}),
             at' = "parse" => at \in {"command", "parse"}
      PROVE  ReadInv'
  <2>1. \A n \in Names : (Parsed(n)' <=> Parsed(n)) /\ (Settled(n)' <=> Settled(n)) /\ Written(n)' = Written(n)
    BY <1>1, NameStays
  <2>2. \A j \in 1 .. k - 1 : Options[j] \in Names
    <3>1. k \in 1 .. Len(Options)
      BY DEF ReadInv
    <3>2. QED
      BY <3>1, OptionsIs
  <2>3. at # at' => 1 .. k' - 1 = {}
    BY <1>1 DEF ReadInv
  <2>4. at' = "env" => Readable'
    BY <1>1, <2>3 DEF ReadInv, Readable, Fails
  <2>5. QED
    BY <1>1, <2>1, <2>2, <2>3, <2>4 DEF ReadInv, IsList
<1>2. CASE ReadCommand
  BY <1>1, <1>2 DEF ReadCommand
<1>3. CASE ReadOption
  BY <1>3, ReadOptionKeeps
<1>4. CASE EndOptions
  BY <1>1, <1>4 DEF EndOptions
<1>5. CASE LoadEnvVar \/ EnvFails
  BY <1>5, LoadEnvVarKeeps, EnvFailsKeeps
<1>6. CASE Load
  BY <1>6, LoadKeeps
<1>7. CASE Ready
  BY <1>1, <1>7 DEF Ready
<1>8. CASE Save
  BY <1>8, SaveKeeps
<1>9. CASE UNCHANGED optionsVars
  BY <1>1, <1>9 DEF optionsVars
<1>10. QED
  BY <1>2, <1>3, <1>4, <1>5, <1>6, <1>7, <1>8, <1>9 DEF OptionsNext

(* A save that starts or goes on does what the texts say.                   *)
LEMMA StepLastWord == ReadInv /\ [OptionsNext]_optionsVars => [LastWord]_optionsVars
<1> SUFFICES ASSUME ReadInv, OptionsNext, at' = "save" \/ at = "save", NEW name \in Names
             PROVE  /\ Texts(name) = <<>> => reg'[name] = reg[name]
                    /\ Texts(name) # <<>> /\ Kind[name] = "str" => opts[name].value = <<Last(Texts(name))>>
                    /\ Texts(name) # <<>> /\ Kind[name] = "int" => opts[name].num = Number(Last(Texts(name)))
                    /\ Texts(name) # <<>> /\ (at' = "saved" \/ reg'[name] # reg[name]) =>
                         reg'[name] = Final(name)
  BY DEF LastWord
<1>1. Save \/ (Ready /\ at' = "save")
  BY DEF OptionsNext, ReadCommand, ReadOption, EndOptions, LoadEnvVar, EnvFails, Load, Loop, Ready
<1>2. Settled(name) /\ (IsRow(opts[name]))
  BY <1>1 DEF ReadInv, Save, Loop, Ready
<1>3. /\ opts[name].found <=> Texts(name) # <<>>
      /\ Texts(name) # <<>> /\ Kind[name] = "str" => opts[name].value = <<Last(Texts(name))>>
      /\ Texts(name) # <<>> /\ Kind[name] = "int" => opts[name].num = Number(Last(Texts(name)))
  BY <1>2 DEF Settled, Says
<1>4. CASE Save
  <2>1. /\ opts[name].found /\ reg'[name] # reg[name] => reg'[name] = Written(name)
        /\ ~opts[name].found => reg'[name] = reg[name]
        /\ \A j \in 1 .. k : opts[Options[j]].found => reg'[Options[j]] = Written(Options[j])
        /\ at' = at \/ k = Len(Options)
        /\ at = "save"
    BY <1>4, SaveIs DEF Save, Loop
  <2>2. at' = "saved" /\ opts[name].found => reg'[name] = Written(name)
    BY <2>1, OptionsIs
  <2>3. Texts(name) # <<>> => Written(name) = Final(name)
    <3>1. CASE Kind[name] = "str" /\ Texts(name) # <<>>
      <4>1. PICK l, e, v : l = Last(Texts(name)) /\ e = <<>> /\ v = opts[name].value /\ v = <<l>>
        BY <1>3, <3>1
      <4>2. v = <<e>> <=> l = e
        BY <4>1
      <4>3. Written(name) = (IF v = <<e>> THEN Null ELSE v)
        BY <3>1, <4>1 DEF Written, Stores
      <4>4. Final(name) = (IF l = e THEN Null ELSE <<l>>)
        BY <3>1, <4>1 DEF Final
      <4>5. QED
        BY <4>1, <4>2, <4>3, <4>4
    <3>2. CASE Kind[name] # "str" /\ Texts(name) # <<>>
      BY <1>3, <3>2, OptionsIs DEF Written, Stores, Final
    <3>3. QED
      BY <3>1, <3>2
  <2>4. QED
    BY <1>3, <2>1, <2>2, <2>3
<1>5. CASE Ready /\ at' = "save"
  BY <1>3, <1>5 DEF Ready
<1>6. QED
  BY <1>1, <1>4, <1>5

(* Whatever is neither a list nor given keeps the value of the registry,    *)
(* which a save leaves alone; for the rest the last text counts and is what *)
(* a save writes (apxCmdlineParse, loadConfiguration, saveConfiguration).   *)
THEOREM LastWordSound == OptionsSpec => LastWordWins
BY ReadInit, ReadNext, StepLastWord, PTL DEF OptionsSpec, LastWordWins

(* A set with 0 and with the successor of each of its numbers has all.      *)
LEMMA SetInduction ==
  ASSUME NEW S, 0 \in S, \A n \in Nat : n \in S => n + 1 \in S
  PROVE  Nat \subseteq S
<1>1. SUFFICES ASSUME Nat \ S # {} PROVE FALSE
  OBVIOUS
<1>2. PICK m \in Nat \ S : \A n \in Nat \ S : m <= n
  BY <1>1, MinIs
<1>3. QED
  BY <1>2, m - 1 \in Nat, m - 1 + 1 = m

(***************************************************************************)
(* Characters at some of the places of a text.                              *)
(***************************************************************************)
(* Sets of places are finite.                                               *)
LEMMA PlacesFinite ==
  ASSUME NEW n \in Nat, NEW S, S \subseteq 1 .. n
  PROVE  IsFiniteSet(S) /\ Cardinality(S) \in Nat
<1>1. S \in SUBSET Nat /\ \A s \in S : s <= n
  OBVIOUS
<1>2. QED
  BY <1>1, FS_BoundedSetOfNaturals, FS_CardinalityType

(* The next place after all others.                                         *)
LEMMA RankNext ==
  ASSUME NEW n \in Nat, NEW S, S \subseteq 1 .. n
  PROVE  /\ Cardinality(S \cup {n + 1}) = Cardinality(S) + 1
         /\ Rank(S, n + 1) = Cardinality(S) /\ Rank(S \cup {n + 1}, n + 1) = Cardinality(S)
         /\ \A j \in 1 .. n : Rank(S \cup {n + 1}, j) = Rank(S, j)
         /\ \A j \in 1 .. n : Rank(S, j) \in 0 .. Cardinality(S)
         /\ \A j \in S : Rank(S, j) \in 0 .. Cardinality(S) - 1
<1>0. \A q \in S : q \in 1 .. n /\ q < n + 1 /\ q # n + 1
  OBVIOUS
<1>1. IsFiniteSet(S) /\ Cardinality(S) \in Nat /\ n + 1 \notin S
  BY <1>0, PlacesFinite
<1>2. Cardinality(S \cup {n + 1}) = Cardinality(S) + 1
  BY <1>1, FS_AddElement
<1>3. {q \in S : q < n + 1} = S /\ {q \in S \cup {n + 1} : q < n + 1} = S
  <2>1. ~(n + 1 < n + 1)
    OBVIOUS
  <2>2. QED
    BY <1>0, <2>1
<1>4. \A j \in 1 .. n : {q \in S \cup {n + 1} : q < j} = {q \in S : q < j}
  OBVIOUS
<1>5. ASSUME NEW j \in 1 .. n PROVE Rank(S, j) \in 0 .. Cardinality(S)
  <2>1. {q \in S : q < j} \in SUBSET S
    OBVIOUS
  <2>2. Cardinality({q \in S : q < j}) <= Cardinality(S) /\ IsFiniteSet({q \in S : q < j})
    BY <1>1, <2>1, FS_Subset
  <2>3. Cardinality({q \in S : q < j}) \in Nat
    BY <2>2, FS_CardinalityType
  <2>4. QED
    BY <1>1, <2>2, <2>3 DEF Rank
<1>6. ASSUME NEW j \in S PROVE Rank(S, j) # Cardinality(S)
  <2>1. {q \in S : q < j} \in SUBSET S /\ j \notin {q \in S : q < j}
    OBVIOUS
  <2>2. Cardinality({q \in S : q < j}) = Cardinality(S) => S = {q \in S : q < j}
    BY <1>1, <2>1, FS_Subset
  <2>3. QED
    BY <2>1, <2>2 DEF Rank
<1>7. \A j \in S : Rank(S, j) \in 0 .. Cardinality(S) - 1
  BY <1>1, <1>5, <1>6
<1>8. QED
  BY <1>2, <1>3, <1>4, <1>5, <1>7 DEF Rank

(* Each place of a set has a number of its own.                             *)
LEMMA RankIs ==
  ASSUME NEW n \in Nat, NEW S, S \subseteq 1 .. n, NEW h \in 1 .. Cardinality(S)
  PROVE  \E j \in S : Rank(S, j) = h - 1 /\ \A l \in S : Rank(S, l) = h - 1 => l = j
<1> DEFINE One(X, g) == \E j \in X : Rank(X, j) = g - 1 /\ \A l \in X : Rank(X, l) = g - 1 => l = j
           P == {m \in Nat : \A X \in SUBSET (1 .. m) : \A g \in 1 .. Cardinality(X) : One(X, g)}
<1>1. 0 \in P
  <2>1. \A X \in SUBSET (1 .. 0) : Cardinality(X) = 0
    <3>1. 1 .. 0 = {}
      OBVIOUS
    <3>2. \A X \in SUBSET (1 .. 0) : X = {}
      BY <3>1
    <3>3. QED
      BY <3>2, FS_EmptySet
  <2>2. \A X \in SUBSET (1 .. 0) : 1 .. Cardinality(X) = {}
    BY <2>1
  <2>3. QED
    BY <2>2
<1>2. ASSUME NEW m \in Nat, m \in P PROVE m + 1 \in P
  <2>1. SUFFICES ASSUME NEW X \in SUBSET (1 .. m + 1), NEW g \in 1 .. Cardinality(X)
                 PROVE  One(X, g)
    OBVIOUS
  <2> DEFINE Y == X \ {m + 1}
  <2>2. Y \in SUBSET (1 .. m) /\ \A g2 \in 1 .. Cardinality(Y) : One(Y, g2)
    <3>1. \A q \in 1 .. m + 1 : q \in 1 .. m \/ q = m + 1
      OBVIOUS
    <3>2. Y \in SUBSET (1 .. m)
      BY <3>1
    <3> HIDE DEF Y, One
    <3>3. QED
      BY <1>2, <3>2
  <2>3. CASE m + 1 \notin X
    <3>1. X = Y
      BY <2>3
    <3>2. QED
      BY <2>2, <3>1
  <2>4. CASE m + 1 \in X
    <3>1. X = Y \cup {m + 1}
      BY <2>4
    <3> HIDE DEF Y
    <3>2. /\ Cardinality(X) = Cardinality(Y) + 1 /\ Rank(X, m + 1) = Cardinality(Y)
          /\ \A j \in Y : Rank(X, j) = Rank(Y, j) /\ Rank(Y, j) \in 0 .. Cardinality(Y) - 1
      BY <2>2, <3>1, RankNext
    <3>3. Cardinality(Y) \in Nat
      BY <2>2, PlacesFinite
    <3>4. CASE g = Cardinality(Y) + 1
      <4>1. Rank(X, m + 1) = g - 1 /\ \A l \in Y : Rank(X, l) # g - 1
        BY <3>2, <3>3, <3>4
      <4>2. QED
        BY <3>1, <4>1
    <3>5. CASE g # Cardinality(Y) + 1
      <4>1. g \in 1 .. Cardinality(Y)
        BY <3>2, <3>3, <3>5
      <4>2. PICK j \in Y : Rank(Y, j) = g - 1 /\ \A l \in Y : Rank(Y, l) = g - 1 => l = j
        BY <2>2, <4>1
      <4>3. Rank(X, m + 1) # g - 1
        BY <3>2, <3>3, <4>1
      <4>4. QED
        BY <3>1, <3>2, <4>2, <4>3, SMTT(30)
    <3>6. QED
      BY <3>4, <3>5
  <2>5. QED
    BY <2>3, <2>4
<1>3. n \in P
  BY <1>1, <1>2, SetInduction
<1>4. QED
  BY <1>3

(* Which place it is.                                                       *)
Place(S, h) == CHOOSE j \in S : Rank(S, j) = h - 1

(* It is one.                                                               *)
LEMMA PlaceIs ==
  ASSUME NEW n \in Nat, NEW S, S \subseteq 1 .. n, NEW h \in 1 .. Cardinality(S)
  PROVE  Place(S, h) \in S /\ \A l \in S : Rank(S, l) = h - 1 => l = Place(S, h)
<1>1. PICK j \in S : Rank(S, j) = h - 1 /\ \A l \in S : Rank(S, l) = h - 1 => l = j
  BY RankIs
<1>2. Place(S, h) \in S /\ Rank(S, Place(S, h)) = h - 1
  BY <1>1 DEF Place
<1>3. QED
  BY <1>1, <1>2

(* Characters of a text depend on the places alone.                         *)
LEMMA CharsIs ==
  ASSUME NEW n \in Nat, NEW S, S \subseteq 1 .. n, NEW text
  PROVE  /\ Chars(text, S) = [h \in 1 .. Cardinality(S) |-> text[Place(S, h)]]
         /\ \A h \in 1 .. Cardinality(S) : Place(S, h) \in S
         /\ \A T : (\A j \in S : text[j] \in T) => Chars(text, S) \in Seq(T)
         /\ \A u : (\A j \in S : text[j] = u[j]) => Chars(text, S) = Chars(u, S)
<1>1. Cardinality(S) \in Nat
  BY PlacesFinite
<1>2. \A h \in 1 .. Cardinality(S) : Place(S, h) \in S
  BY PlaceIs
<1>3. \A u : Chars(u, S) = [h \in 1 .. Cardinality(S) |-> u[Place(S, h)]]
  BY DEF Chars, Place
<1>4. ASSUME NEW T, \A j \in S : text[j] \in T PROVE Chars(text, S) \in Seq(T)
  <2>1. Chars(text, S) \in [1 .. Cardinality(S) -> T]
    BY <1>2, <1>3, <1>4
  <2>2. QED
    BY <1>1, <2>1
<1>5. ASSUME NEW u, \A j \in S : text[j] = u[j] PROVE Chars(text, S) = Chars(u, S)
  <2>1. \A h \in 1 .. Cardinality(S) : text[Place(S, h)] = u[Place(S, h)]
    BY <1>2, <1>5
  <2>2. QED
    BY <1>3, <2>1
<1>6. QED
  BY <1>2, <1>3, <1>4, <1>5

(* A sequence is a function of its places.                                  *)
LEMMA SeqIs ==
  ASSUME NEW T, NEW s \in Seq(T)
  PROVE  Len(s) \in Nat /\ DOMAIN s = 1 .. Len(s) /\ s = [h \in 1 .. Len(s) |-> s[h]]
OBVIOUS

(* One element more.                                                        *)
LEMMA AppendIs ==
  ASSUME NEW T, NEW s \in Seq(T), NEW e
  PROVE  /\ Append(s, e) = [h \in 1 .. Len(s) + 1 |-> IF h = Len(s) + 1 THEN e ELSE s[h]]
         /\ Append(s, e) \in Seq(T \cup {e}) /\ Len(Append(s, e)) = Len(s) + 1
<1> DEFINE U == T \cup {e}
<1>1. s \in Seq(U) /\ e \in U /\ Len(s) \in Nat
  OBVIOUS
<1> HIDE DEF U
<1>2. Append(s, e) \in Seq(U) /\ Len(Append(s, e)) = Len(s) + 1
  BY <1>1
<1>3. \A h \in 1 .. Len(s) + 1 : Append(s, e)[h] = IF h = Len(s) + 1 THEN e ELSE s[h]
  BY <1>1
<1>4. DOMAIN Append(s, e) = 1 .. Len(s) + 1
  BY <1>1, <1>2
<1>5. Append(s, e) = [h \in 1 .. Len(s) + 1 |-> IF h = Len(s) + 1 THEN e ELSE s[h]]
  <2> PICK t, n : t = Append(s, e) /\ n = Len(s) + 1
    OBVIOUS
  <2>1. t \in Seq(U) /\ Len(t) = n
    BY <1>2
  <2>2. t = [h \in 1 .. n |-> t[h]] /\ \A h \in 1 .. n : t[h] = IF h = n THEN e ELSE s[h]
    BY <1>3, <2>1, SeqIs
  <2>3. t = [h \in 1 .. n |-> IF h = n THEN e ELSE s[h]]
    BY <2>2
  <2>4. QED
    BY <2>3
<1>6. QED
  BY <1>2, <1>5 DEF U

(* No place, no character; one more place, one more character.              *)
LEMMA CharsNext ==
  ASSUME NEW n \in Nat, NEW S, S \subseteq 1 .. n, NEW text
  PROVE  Chars(text, {}) = <<>> /\ Chars(text, S \cup {n + 1}) = Append(Chars(text, S), text[n + 1])
<1>t. PICK T : \A j \in S : text[j] \in T
  <2>1. \A j \in S : text[j] \in {text[l] : l \in S}
    OBVIOUS
  <2>2. QED
    BY <2>1
<1>0. PICK m, R, z : m = Cardinality(S) /\ R = S \cup {z} /\ z = n + 1
  OBVIOUS
<1> DEFINE c == Chars(text, S)
           d == Chars(text, R)
<1>1. /\ m \in Nat /\ Cardinality(R) = m + 1 /\ Rank(R, z) = m
      /\ R \subseteq 1 .. z /\ z \in R /\ z \in Nat
      /\ \A j \in S : j \in R /\ Rank(R, j) = Rank(S, j)
  <2>1. m \in Nat
    BY <1>0, PlacesFinite
  <2>2. /\ Cardinality(R) = m + 1 /\ Rank(R, z) = m
        /\ \A j \in 1 .. n : Rank(R, j) = Rank(S, j)
    BY <1>0, RankNext
  <2>3. R \subseteq 1 .. z /\ z \in R /\ z \in Nat
    BY <1>0
  <2>4. QED
    BY <1>0, <2>1, <2>2, <2>3
<1>2. Chars(text, {}) = <<>>
  BY FS_EmptySet DEF Chars
<1>3. c \in Seq(T) /\ c = [h \in 1 .. m |-> text[Place(S, h)]]
  BY <1>t, <1>0, CharsIs
<1>4. d = [h \in 1 .. m + 1 |-> text[Place(R, h)]]
  BY <1>1, CharsIs
<1>5. ASSUME NEW h \in 1 .. m PROVE Place(R, h) = Place(S, h)
  <2>1. PICK j \in S : Rank(S, j) = h - 1
    BY <1>0, RankIs
  <2>2. Rank(R, j) = h - 1 /\ j \in R
    BY <1>1, <2>1
  <2>3. h \in 1 .. m + 1
    BY <1>1
  <2>4. j = Place(R, h)
    BY <1>1, <2>2, <2>3, PlaceIs
  <2>5. j = Place(S, h)
    BY <1>0, <2>1, PlaceIs
  <2>6. QED
    BY <2>4, <2>5
<1>6. Place(R, m + 1) = z
  <2>1. m + 1 \in 1 .. Cardinality(R) /\ m + 1 - 1 = m
    BY <1>1
  <2>2. \A h \in 1 .. Cardinality(R) : \A l \in R : Rank(R, l) = h - 1 => l = Place(R, h)
    BY <1>1, PlaceIs
  <2>3. QED
    BY <1>1, <2>1, <2>2
<1> HIDE DEF c, d
<1>7. d = Append(c, text[z])
  <2>1. Len(c) = m
    BY <1>1, <1>3
  <2>2. ASSUME NEW h \in 1 .. m + 1 PROVE d[h] = IF h = m + 1 THEN text[z] ELSE c[h]
    <3>1. CASE h = m + 1
      BY <1>4, <1>6, <3>1
    <3>2. CASE h # m + 1
      <4>1. h \in 1 .. m
        BY <1>1, <3>2
      <4>2. QED
        BY <1>3, <1>4, <1>5, <3>2, <4>1
    <3>3. QED
      BY <3>1, <3>2
  <2>3. Append(c, text[z]) = [h \in 1 .. m + 1 |-> IF h = m + 1 THEN text[z] ELSE c[h]]
    <3>1. Append(c, text[z]) = [h \in 1 .. Len(c) + 1 |-> IF h = Len(c) + 1 THEN text[z] ELSE c[h]]
      <4>1. c \in Seq(T)
        BY <1>3
      <4>2. QED
        BY <4>1, AppendIs, ZenonT(30)
    <3>2. QED
      BY <2>1, <3>1
  <2>4. QED
    BY <1>4, <2>2, <2>3
<1>8. QED
  BY <1>0, <1>2, <1>7 DEF c, d
(***************************************************************************)
(* The parts of a text between its cuts.                                    *)
(***************************************************************************)
Among(C, K, e) == {j \in K \ C : Rank(C, j) = e - 1}

(* Each part is a text, and depends on the characters that are kept.        *)
LEMMA PartsIs ==
  ASSUME NEW n \in Nat, NEW C, NEW K, C \subseteq 1 .. n, K \subseteq 1 .. n,
         NEW text, NEW T, \A j \in K \ C : text[j] \in T
  PROVE  /\ Parts(text, C, K) = [e \in 1 .. Cardinality(C) + 1 |-> Chars(text, Among(C, K, e))]
         /\ Parts(text, C, K) \in Seq(Seq(T)) /\ Len(Parts(text, C, K)) = Cardinality(C) + 1
<1>0. PICK N : N = Cardinality(C) + 1
  OBVIOUS
<1>1. N \in Nat
  <2>1. Cardinality(C) \in Nat
    BY PlacesFinite
  <2>2. QED
    BY <1>0, <2>1
<1>2. \A u : Parts(u, C, K) = [e \in 1 .. N |-> Chars(u, Among(C, K, e))]
  BY <1>0 DEF Parts, Among
<1>3. \A e : Among(C, K, e) \subseteq 1 .. n /\ Among(C, K, e) \subseteq K \ C
  BY DEF Among
<1>4. \A e \in 1 .. N : Chars(text, Among(C, K, e)) \in Seq(T)
  BY <1>3, CharsIs
<1>5. Parts(text, C, K) \in [1 .. N -> Seq(T)]
  BY <1>2, <1>4
<1>6. Parts(text, C, K) \in Seq(Seq(T)) /\ Len(Parts(text, C, K)) = N
  BY <1>1, <1>5
<1>7. QED
  BY <1>0, <1>2, <1>6

(* Places of a text of length n.                                            *)
Places(S, n) == n \in Nat /\ S \subseteq 1 .. n

(* The characters at the other places do not matter.                        *)
LEMMA PartsSame ==
  ASSUME NEW n, NEW C, NEW K, Places(C, n), Places(K, n), NEW t, NEW u, \A j \in K \ C : t[j] = u[j]
  PROVE  Parts(t, C, K) = Parts(u, C, K)
<1>0. PICK N : N = Cardinality(C) + 1
  OBVIOUS
<1>1. \A s : Parts(s, C, K) = [e \in 1 .. N |-> Chars(s, Among(C, K, e))]
  BY <1>0 DEF Parts, Among
<1>2. \A e : Among(C, K, e) \subseteq 1 .. n /\ Among(C, K, e) \subseteq K \ C /\ n \in Nat
  BY DEF Among, Places
<1>3. \A e : Chars(t, Among(C, K, e)) = Chars(u, Among(C, K, e))
  BY <1>2, CharsIs
<1>4. QED
  BY <1>1, <1>3

(* The last part goes on.                                                   *)
Grow(P, c) == [e \in 1 .. Len(P) |-> IF e = Len(P) THEN Append(P[e], c) ELSE P[e]]

GoesOn(text, C, K, z) ==
  /\ Parts(text, C \cup {z}, K) = Append(Parts(text, C, K), <<>>)
  /\ Parts(text, C \cup {z}, K \cup {z}) = Append(Parts(text, C, K), <<>>)
  /\ Parts(text, C, K \cup {z}) = Grow(Parts(text, C, K), text[z])

(* One place more: a cut begins another part, any other place that is kept  *)
(* adds to the last one.                                                    *)
LEMMA PartsNext ==
  ASSUME NEW n, NEW C, NEW K, Places(C, n), Places(K, n), NEW text, NEW z, z = n + 1
  PROVE  GoesOn(text, C, K, z)
<1> n \in Nat /\ C \subseteq 1 .. n /\ K \subseteq 1 .. n
  BY DEF Places
<1>t. PICK T : \A j \in K \ C : text[j] \in T
  <2>1. \A j \in K \ C : text[j] \in {text[l] : l \in K}
    OBVIOUS
  <2>2. QED
    BY <2>1
<1>0. PICK N, P, D : N = Cardinality(C) + 1 /\ P = Parts(text, C, K) /\ D = C \cup {z}
  OBVIOUS
<1>1. /\ P = [e \in 1 .. N |-> Chars(text, Among(C, K, e))]
      /\ P \in Seq(Seq(T)) /\ Len(P) = N
  <2>1. Parts(text, C, K) \in Seq(Seq(T)) /\ Len(Parts(text, C, K)) = Cardinality(C) + 1
    BY <1>t, PartsIs
  <2>2. P = [e \in 1 .. N |-> Chars(text, Among(C, K, e))]
    BY <1>0 DEF Parts, Among
  <2>3. QED
    BY <1>0, <2>1, <2>2
<1>2. /\ N \in Nat /\ N = Cardinality(C) + 1 /\ Cardinality(D) = N /\ Rank(C, z) = N - 1
      /\ \A j \in 1 .. n : Rank(D, j) = Rank(C, j) /\ Rank(C, j) \in 0 .. N - 1
  <2>1. Cardinality(C) \in Nat
    BY PlacesFinite
  <2>2. /\ Cardinality(D) = Cardinality(C) + 1 /\ Rank(C, z) = Cardinality(C)
        /\ \A j \in 1 .. n : Rank(D, j) = Rank(C, j) /\ Rank(C, j) \in 0 .. Cardinality(C)
    BY <1>0, RankNext
  <2>3. \A m \in Nat : m + 1 - 1 = m
    OBVIOUS
  <2>4. Rank(C, z) = N - 1 /\ \A j \in 1 .. n : Rank(C, j) \in 0 .. N - 1
    BY <1>0, <2>1, <2>2, <2>3
  <2>5. Cardinality(D) = N /\ N \in Nat /\ N = Cardinality(C) + 1
    BY <1>0, <2>1, <2>2
  <2>6. QED
    BY <2>2, <2>4, <2>5
<1>3. \A j \in K \cup C : j \in 1 .. n /\ j # z
  BY <1>0
<1> DEFINE A(e) == Among(C, K, e)
<1>4. ASSUME NEW L, L \in {K, K \cup {z}} PROVE Parts(text, D, L) = Append(P, <<>>)
  <2>1. L \ D = K \ C
    BY <1>0, <1>3, <1>4
  <2>2. \A e : Among(D, L, e) = A(e)
    BY <1>2, <1>3, <2>1 DEF Among
  <2>3. Parts(text, D, L) = [e \in 1 .. N + 1 |-> Chars(text, A(e))]
    BY <1>2, <2>2 DEF Parts, Among
  <2>4. A(N + 1) = {}
    <3>1. \A j \in K : Rank(C, j) # N
      BY <1>2, <1>3
    <3>2. \A e : \A j \in A(e) : j \in K /\ Rank(C, j) = e - 1
      BY DEF Among
    <3>3. PICK e : e = N + 1
      OBVIOUS
    <3>4. e - 1 = N
      BY <1>2, <3>3
    <3> HIDE DEF A
    <3>5. A(e) = {}
      BY <3>1, <3>2, <3>4
    <3>6. QED
      BY <3>3, <3>5
  <2>5. Chars(text, {}) = <<>>
    BY FS_EmptySet DEF Chars
  <2>6. Append(P, <<>>) = [e \in 1 .. N + 1 |-> IF e = N + 1 THEN <<>> ELSE P[e]]
    <3>1. P \in Seq(Seq(T)) /\ Len(P) = N
      BY <1>1
    <3>2. Append(P, <<>>) = [e \in 1 .. Len(P) + 1 |-> IF e = Len(P) + 1 THEN <<>> ELSE P[e]]
      BY <3>1, AppendIs, ZenonT(30)
    <3>3. QED
      BY <3>1, <3>2
  <2>7. ASSUME NEW e \in 1 .. N + 1
        PROVE  Chars(text, A(e)) = IF e = N + 1 THEN <<>> ELSE P[e]
    <3>1. CASE e = N + 1
      BY <2>4, <2>5, <3>1
    <3>2. CASE e # N + 1
      <4>1. e \in 1 .. N
        BY <1>2, <3>2
      <4>2. QED
        BY <1>1, <3>2, <4>1
    <3>3. QED
      BY <3>1, <3>2
  <2> HIDE DEF A
  <2>8. QED
    BY <2>3, <2>6, <2>7
<1>5. Parts(text, C, K \cup {z}) = Grow(P, text[z])
  <2>1. z \notin C
    BY <1>3
  <2>2. \A e \in 1 .. N : Among(C, K \cup {z}, e) = IF e = N THEN A(e) \cup {z} ELSE A(e)
    <3>1. \A e : e # N => ~(Rank(C, z) = e - 1) \/ e \notin Int
      BY <1>2
    <3>2. ASSUME NEW e \in 1 .. N
          PROVE  Among(C, K \cup {z}, e) = IF e = N THEN A(e) \cup {z} ELSE A(e)
      BY <1>2, <2>1, <3>1 DEF Among
    <3>3. QED
      BY <3>2
  <2>3. Parts(text, C, K \cup {z}) = [e \in 1 .. N |-> Chars(text, Among(C, K \cup {z}, e))]
    BY <1>0 DEF Parts, Among
  <2>4. Chars(text, A(N) \cup {z}) = Append(Chars(text, A(N)), text[z])
    <3>1. A(N) \subseteq 1 .. n /\ \A j \in A(N) : text[j] \in T
      BY <1>t, <1>3 DEF Among
    <3> HIDE DEF A
    <3>2. QED
      BY <1>0, <3>1, CharsNext
  <2>5. Grow(P, text[z]) = [e \in 1 .. N |-> IF e = N THEN Append(P[e], text[z]) ELSE P[e]]
    BY <1>1 DEF Grow
  <2>6. ASSUME NEW e \in 1 .. N
        PROVE  Chars(text, Among(C, K \cup {z}, e)) = IF e = N THEN Append(P[e], text[z]) ELSE P[e]
    <3>1. P[e] = Chars(text, A(e))
      BY <1>1
    <3> HIDE DEF A
    <3>2. QED
      BY <2>2, <2>4, <3>1
  <2> HIDE DEF A
  <2>7. QED
    BY <2>3, <2>5, <2>6
<1>6. QED
  BY <1>0, <1>4, <1>5 DEF GoesOn
(***************************************************************************)
(* Elements of a list.                                                      *)
(***************************************************************************)
(* A set with the empty sequence and every sequence that is one longer.     *)
LEMMA ByAppending ==
  ASSUME NEW T, NEW G, <<>> \in G,
         \A s \in Seq(T) : \A c \in T : s \in G => Append(s, c) \in G
  PROVE  Seq(T) \subseteq G
<1> DEFINE P == {n \in Nat : \A s \in Seq(T) : Len(s) = n => s \in G}
<1>1. 0 \in P
  <2>1. \A s \in Seq(T) : Len(s) = 0 => s = <<>>
    OBVIOUS
  <2>2. QED
    BY <2>1
<1>2. ASSUME NEW n \in Nat, n \in P PROVE n + 1 \in P
  <2>1. SUFFICES ASSUME NEW s \in Seq(T), Len(s) = n + 1 PROVE s \in G
    OBVIOUS
  <2> DEFINE w == [h \in 1 .. n |-> s[h]]
  <2>2. \A h \in 1 .. n + 1 : s[h] \in T
    BY <2>1
  <2>3. w \in Seq(T) /\ Len(w) = n /\ s[n + 1] \in T
    <3>1. w \in [1 .. n -> T]
      BY <2>2
    <3>2. QED
      BY <2>1, <2>2, <3>1
  <2>4. Append(w, s[n + 1]) = s
    <3>1. s = [h \in 1 .. n + 1 |-> s[h]]
      BY <2>1, SeqIs
    <3>2. \A h \in 1 .. n + 1 : s[h] = IF h = n + 1 THEN s[n + 1] ELSE w[h]
      OBVIOUS
    <3> HIDE DEF w
    <3>3. Append(w, s[n + 1]) = [h \in 1 .. Len(w) + 1 |-> IF h = Len(w) + 1 THEN s[n + 1] ELSE w[h]]
      BY <2>3, AppendIs, Zenon
    <3>4. QED
      BY <2>3, <3>1, <3>2, <3>3
  <2>5. w \in G
    BY <1>2, <2>3
  <2> HIDE DEF w
  <2>6. QED
    BY <2>3, <2>4, <2>5
<1> HIDE DEF P
<1>3. Nat \subseteq P
  BY <1>1, <1>2, SetInduction
<1>4. \A s \in Seq(T) : Len(s) \in P
  BY <1>3
<1>5. QED
  BY <1>4 DEF P

Nuls(s) == {j \in DOMAIN s : s[j] = NUL}

(* A text has one part at least; it has none of its characters in another.  *)
LEMMA SplitIs ==
  ASSUME NEW T, NEW s \in Seq(T)
  PROVE  /\ Split(s) \in Seq(Seq(T)) /\ Len(Split(s)) >= 1
         /\ Split(<<>>) = <<<<>>>>
<1> DEFINE n == Len(s)
           C == Nuls(s)
           K == DOMAIN s
<1>1. n \in Nat /\ K = 1 .. n /\ \A j \in K : s[j] \in T
  OBVIOUS
<1>2. C \subseteq K /\ Split(s) = Parts(s, C, K)
  BY DEF Nuls, Split
<1> HIDE DEF n, C, K
<1>3. Split(s) \in Seq(Seq(T)) /\ Len(Split(s)) = Cardinality(C) + 1 /\ Cardinality(C) \in Nat
  <2>1. C \subseteq 1 .. n /\ K \subseteq 1 .. n /\ \A j \in K \ C : s[j] \in T
    BY <1>1, <1>2
  <2>2. Cardinality(C) \in Nat
    BY <1>1, <2>1, PlacesFinite
  <2>3. Parts(s, C, K) \in Seq(Seq(T)) /\ Len(Parts(s, C, K)) = Cardinality(C) + 1
    BY <1>1, <2>1, PartsIs
  <2>4. QED
    BY <1>2, <2>2, <2>3
<1>4. Split(<<>>) = <<<<>>>>
  <2>1. \A S : S \subseteq {} => S = {}
    OBVIOUS
  <2>2. Split(<<>>) = Parts(<<>>, {}, {})
    <3>1. DOMAIN <<>> = {} /\ Nuls(<<>>) = {}
      BY DEF Nuls
    <3>2. QED
      BY <3>1 DEF Split, Nuls
  <2>3. Cardinality({}) + 1 = 1 /\ Chars(<<>>, {}) = <<>>
    BY FS_EmptySet DEF Chars
  <2>4. Parts(<<>>, {}, {}) = [e \in 1 .. 1 |-> Chars(<<>>, Among({}, {}, e))]
    BY <2>3 DEF Parts, Among
  <2>5. \A e : Among({}, {}, e) = {}
    BY DEF Among
  <2>6. Parts(<<>>, {}, {}) = [e \in 1 .. 1 |-> <<>>]
    BY <2>3, <2>4, <2>5
  <2>7. QED
    BY <2>2, <2>6
<1>5. QED
  BY <1>3, <1>4

(* A NUL ends the last part, another character belongs to it.               *)
LEMMA SplitAppend ==
  ASSUME NEW T, NEW s \in Seq(T), NEW c
  PROVE  Split(Append(s, c)) = IF c = NUL THEN Append(Split(s), <<>>) ELSE Grow(Split(s), c)
<1>0. PICK n, t, z, C, K : n = Len(s) /\ t = Append(s, c) /\ z = n + 1 /\ C = Nuls(s) /\ K = DOMAIN s
  OBVIOUS
<1>1. n \in Nat /\ K = 1 .. n /\ \A j \in K : s[j] \in T
  BY <1>0
<1>2. Places(C, n) /\ Places(K, n) /\ Split(s) = Parts(s, C, K)
  BY <1>0, <1>1 DEF Nuls, Split, Places
<1>3. t = [h \in 1 .. z |-> IF h = z THEN c ELSE s[h]]
  <2>1. Append(s, c) = [h \in 1 .. Len(s) + 1 |-> IF h = Len(s) + 1 THEN c ELSE s[h]]
    BY AppendIs, ZenonT(30)
  <2>2. QED
    BY <1>0, <2>1
<1>4. DOMAIN t = K \cup {z} /\ t[z] = c /\ z \notin K /\ \A j \in K : t[j] = s[j]
  BY <1>0, <1>1, <1>3
<1>5. Nuls(t) = IF c = NUL THEN C \cup {z} ELSE C
  BY <1>0, <1>4 DEF Nuls
<1>6. Parts(t, C, K) = Parts(s, C, K)
  <2>1. \A j \in K \ C : t[j] = s[j]
    BY <1>1, <1>4
  <2>2. QED
    BY <1>2, <2>1, PartsSame
<1>7. /\ Parts(t, C \cup {z}, K \cup {z}) = Append(Parts(t, C, K), <<>>)
      /\ Parts(t, C, K \cup {z}) = Grow(Parts(t, C, K), c)
  <2>1. GoesOn(t, C, K, z)
    BY <1>0, <1>2, PartsNext
  <2>2. QED
    BY <1>4, <2>1 DEF GoesOn
<1>8. Split(t) = Parts(t, Nuls(t), DOMAIN t)
  BY DEF Split, Nuls
<1>9. QED
  BY <1>0, <1>2, <1>4, <1>5, <1>6, <1>7, <1>8

(* Two sequences, one after the other.                                      *)
LEMMA ConcatIs ==
  ASSUME NEW T, NEW a \in Seq(T), NEW b \in Seq(T)
  PROVE  /\ a \o b \in Seq(T) /\ Len(a \o b) = Len(a) + Len(b)
         /\ a \o b = [h \in 1 .. Len(a) + Len(b) |-> IF h <= Len(a) THEN a[h] ELSE b[h - Len(a)]]
         /\ \A h \in 1 .. Len(a) : (a \o b)[h] = a[h]
         /\ \A h \in 1 .. Len(b) : (a \o b)[Len(a) + h] = b[h]
         /\ a \o <<>> = a /\ <<>> \o b = b
<1>1. PICK m, n, w : m = Len(a) /\ n = Len(b) /\ w = a \o b
  OBVIOUS
<1>2. w \in Seq(T) /\ Len(w) = m + n /\ m \in Nat /\ n \in Nat
  BY <1>1
<1>3. \A h \in 1 .. m + n : w[h] = IF h <= m THEN a[h] ELSE b[h - m]
  BY <1>1
<1>4. w = [h \in 1 .. m + n |-> w[h]]
  BY <1>2, SeqIs
<1>5. w = [h \in 1 .. m + n |-> IF h <= m THEN a[h] ELSE b[h - m]]
  BY <1>3, <1>4
<1>6. \A h \in 1 .. n : w[m + h] = b[h]
  BY <1>2, <1>3
<1>7. a \o <<>> = a /\ <<>> \o b = b
  OBVIOUS
<1>8. \A h \in 1 .. m : w[h] = a[h]
  BY <1>2, <1>3
<1>9. QED
  BY <1>1, <1>2, <1>5, <1>6, <1>7, <1>8

(* An element more at the end of the second.                                *)
LEMMA ConcatAppend ==
  ASSUME NEW T, NEW a \in Seq(T), NEW b \in Seq(T), NEW e
  PROVE  a \o Append(b, e) = Append(a \o b, e)
<1> DEFINE U == T \cup {e}
<1>1. a \in Seq(U) /\ b \in Seq(U) /\ e \in U
  OBVIOUS
<1> HIDE DEF U
<1>2. PICK x, y : x = a \o Append(b, e) /\ y = Append(a \o b, e)
  OBVIOUS
<1>3. x \in Seq(U) /\ y \in Seq(U) /\ Len(x) = Len(y)
  BY <1>1, <1>2
<1>4. \A h \in 1 .. Len(y) : x[h] = y[h]
  BY <1>1, <1>2
<1>5. x = [h \in 1 .. Len(x) |-> x[h]] /\ y = [h \in 1 .. Len(y) |-> y[h]]
  BY <1>3, SeqIs
<1>6. x = y
  BY <1>3, <1>4, <1>5
<1>7. QED
  BY <1>2, <1>6

(* A character more in the last part.                                       *)
LEMMA GrowIs ==
  ASSUME NEW T, NEW b \in Seq(Seq(T)), NEW c \in T
  PROVE  Grow(b, c) \in Seq(Seq(T)) /\ Len(Grow(b, c)) = Len(b)
<1>1. PICK n, g : n = Len(b) /\ g = Grow(b, c)
  OBVIOUS
<1>2. n \in Nat /\ g = [h \in 1 .. n |-> IF h = n THEN Append(b[h], c) ELSE b[h]]
  BY <1>1 DEF Grow
<1>3. \A h \in 1 .. n : b[h] \in Seq(T)
  BY <1>1
<1>4. \A h \in 1 .. n : Append(b[h], c) \in Seq(T)
  BY <1>3
<1>5. g \in [1 .. n -> Seq(T)]
  BY <1>2, <1>3, <1>4
<1>6. g \in Seq(Seq(T)) /\ Len(g) = n
  BY <1>2, <1>5
<1>7. QED
  BY <1>1, <1>6

(* Growing is growing of the second, if it is not empty.                    *)
LEMMA ConcatGrow ==
  ASSUME NEW V, NEW a \in Seq(V), NEW b \in Seq(V), Len(b) >= 1, NEW c
  PROVE  Grow(a \o b, c) = a \o Grow(b, c)
<1>1. PICK m, n, g, w, x : /\ m = Len(a) /\ n = Len(b) /\ g = Grow(b, c) /\ w = a \o b
                           /\ x = Grow(w, c)
  OBVIOUS
<1>2. /\ m \in Nat /\ n \in Nat /\ n >= 1 /\ w \in Seq(V) /\ Len(w) = m + n
      /\ w = [h \in 1 .. m + n |-> IF h <= m THEN a[h] ELSE b[h - m]]
  BY <1>1, ConcatIs
<1>3. g = [h \in 1 .. n |-> IF h = n THEN Append(b[h], c) ELSE b[h]]
  BY <1>1 DEF Grow
<1>4. PICK W : a \in Seq(W) /\ g \in Seq(W) /\ Len(g) = n
  <2> DEFINE W == V \cup {g[h] : h \in 1 .. n}
  <2>1. a \in Seq(W) /\ \A h \in 1 .. n : g[h] \in W
    OBVIOUS
  <2> HIDE DEF W
  <2>2. g \in [1 .. n -> W]
    BY <1>3, <2>1
  <2>3. g \in Seq(W) /\ Len(g) = n
    BY <1>2, <1>3, <2>2
  <2>4. QED
    BY <2>1, <2>3
<1>5. x = [h \in 1 .. m + n |-> IF h = m + n THEN Append(w[h], c) ELSE w[h]]
  BY <1>1, <1>2 DEF Grow
<1>6. a \o g = [h \in 1 .. m + n |-> IF h <= m THEN a[h] ELSE g[h - m]]
  <2>1. a \o g = [h \in 1 .. Len(a) + Len(g) |-> IF h <= Len(a) THEN a[h] ELSE g[h - Len(a)]]
    BY <1>4, ConcatIs
  <2>2. QED
    BY <1>1, <1>4, <2>1
<1>7. ASSUME NEW h \in 1 .. m + n
      PROVE  (IF h = m + n THEN Append(w[h], c) ELSE w[h]) = IF h <= m THEN a[h] ELSE g[h - m]
  <2>1. CASE h <= m
    BY <1>2, <2>1
  <2>2. CASE ~(h <= m)
    <3>1. h - m \in 1 .. n /\ (h - m = n <=> h = m + n) /\ w[h] = b[h - m]
      BY <1>2, <2>2
    <3>2. g[h - m] = IF h - m = n THEN Append(b[h - m], c) ELSE b[h - m]
      BY <1>3, <3>1
    <3>3. QED
      BY <2>2, <3>1, <3>2
  <2>3. QED
    BY <2>1, <2>2
<1>8. x = a \o g
  BY <1>5, <1>6, <1>7
<1>9. QED
  BY <1>1, <1>8

(* Behind a NUL the parts begin anew.                                       *)
LEMMA SplitConcat ==
  ASSUME NEW T, NUL \in T, NEW s \in Seq(T), NEW u \in Seq(T)
  PROVE  Split(Append(s, NUL) \o u) = Split(s) \o Split(u)
<1> DEFINE G == {v \in Seq(T) : Split(Append(s, NUL) \o v) = Split(s) \o Split(v)}
<1>0. PICK z : z = Append(s, NUL)
  OBVIOUS
<1>1. z \in Seq(T) /\ Split(s) \in Seq(Seq(T))
  BY <1>0, SplitIs
<1>2. <<>> \in G
  <2>1. Split(z) = Append(Split(s), <<>>)
    BY <1>0, SplitAppend
  <2>2. z \o <<>> = z
    BY <1>1
  <2>3. Split(<<>>) = <<<<>>>>
    BY SplitIs
  <2>4. Append(Split(s), <<>>) = Split(s) \o <<<<>>>>
    BY <1>1
  <2>5. <<>> \in Seq(T)
    OBVIOUS
  <2>6. QED
    BY <1>0, <2>1, <2>2, <2>3, <2>4, <2>5
<1>3. ASSUME NEW v \in Seq(T), NEW c \in T, v \in G PROVE Append(v, c) \in G
  <2>1. z \o Append(v, c) = Append(z \o v, c)
    BY <1>1, ConcatAppend
  <2>2. Append(v, c) \in Seq(T) /\ z \o v \in Seq(T)
    BY <1>1
  <2>3. Split(v) \in Seq(Seq(T)) /\ Len(Split(v)) >= 1
    BY SplitIs
  <2>4. Split(z \o v) = Split(s) \o Split(v)
    BY <1>0, <1>3
  <2>5. CASE c = NUL
    <3>1. Split(Append(z \o v, c)) = Append(Split(z \o v), <<>>)
      BY <2>2, <2>5, SplitAppend
    <3>2. Split(Append(v, c)) = Append(Split(v), <<>>)
      BY <2>5, SplitAppend
    <3>3. Append(Split(s) \o Split(v), <<>>) = Split(s) \o Append(Split(v), <<>>)
      <4>1. PICK a, b, V, e : a = Split(s) /\ b = Split(v) /\ V = Seq(T) /\ e = <<>>
        OBVIOUS
      <4>2. a \in Seq(V) /\ b \in Seq(V)
        BY <1>1, <2>3, <4>1
      <4>3. a \o Append(b, e) = Append(a \o b, e)
        BY <4>2, ConcatAppend
      <4>4. QED
        BY <4>1, <4>3
    <3>4. QED
      BY <1>0, <2>1, <2>2, <2>4, <3>1, <3>2, <3>3
  <2>6. CASE c # NUL
    <3>1. Split(Append(z \o v, c)) = Grow(Split(z \o v), c)
      BY <2>2, <2>6, SplitAppend
    <3>2. Split(Append(v, c)) = Grow(Split(v), c)
      BY <2>6, SplitAppend
    <3>3. Grow(Split(s) \o Split(v), c) = Split(s) \o Grow(Split(v), c)
      <4>1. PICK a, b, V : a = Split(s) /\ b = Split(v) /\ V = Seq(T)
        OBVIOUS
      <4>2. a \in Seq(V) /\ b \in Seq(V) /\ Len(b) >= 1
        BY <1>1, <2>3, <4>1
      <4>3. Grow(a \o b, c) = a \o Grow(b, c)
        BY <4>2, ConcatGrow
      <4>4. QED
        BY <4>1, <4>3
    <3>4. QED
      BY <1>0, <2>1, <2>2, <2>4, <3>1, <3>2, <3>3
  <2>7. QED
    BY <2>5, <2>6
<1>4. Seq(T) \subseteq G
  <2> HIDE DEF G
  <2>1. QED
    BY <1>2, <1>3, ByAppending
<1>5. QED
  BY <1>4

(* No element of a list is empty.                                           *)
Plain(list) == \A j \in 1 .. Len(list) : list[j] = NUL => j > 1 /\ list[j - 1] # NUL

(* A text whose parts, but for the last, are not empty has no gap; when its *)
(* last one is not, it does not end with a NUL.                             *)
LEMMA PlainIs ==
  ASSUME NEW T, NEW u \in Seq(T)
  PROVE  /\ (\A e \in 1 .. Len(Split(u)) - 1 : Split(u)[e] # <<>>) => Plain(u)
         /\ Split(u)[Len(Split(u))] # <<>> => u # <<>> /\ u[Len(u)] # NUL
<1> DEFINE Inner(v) == (\A e \in 1 .. Len(Split(v)) - 1 : Split(v)[e] # <<>>) => Plain(v)
           Outer(v) == Split(v)[Len(Split(v))] # <<>> => v # <<>> /\ v[Len(v)] # NUL
           G == {v \in Seq(T) : Inner(v) /\ Outer(v)}
<1>1. <<>> \in G
  <2>1. Split(<<>>) = <<<<>>>>
    BY SplitIs
  <2>2. Plain(<<>>)
    BY DEF Plain
  <2>3. Outer(<<>>)
    BY <2>1
  <2>4. QED
    BY <2>2, <2>3
<1>2. ASSUME NEW v \in Seq(T), NEW c \in T, v \in G PROVE Append(v, c) \in G
  <2>1. PICK m, x, w, P, Q : /\ m = Len(v) /\ x = m + 1 /\ w = Append(v, c)
                             /\ P = Split(v) /\ Q = Split(w)
    OBVIOUS
  <2>2. /\ m \in Nat /\ w \in Seq(T) /\ Len(w) = x /\ w[x] = c
        /\ \A j \in 1 .. m : w[j] = v[j]
    BY <2>1
  <2>3. P \in Seq(Seq(T)) /\ Len(P) >= 1 /\ Inner(v) /\ Outer(v)
    BY <1>2, <2>1, SplitIs
  <2>4. PICK n : n = Len(P) /\ n \in Nat /\ n >= 1
    <3>1. Len(P) \in Nat
      BY <2>3
    <3>2. QED
      BY <2>3, <3>1
  <2>5. CASE c = NUL
    <3>1. PICK e0 : e0 = <<>> /\ Q = Append(P, e0)
      BY <2>1, <2>5, SplitAppend
    <3>2. Len(Q) = n + 1 /\ Q[n + 1] = <<>> /\ \A e \in 1 .. n : Q[e] = P[e]
      BY <2>3, <2>4, <3>1, AppendIs
    <3>3. ASSUME \A e \in 1 .. n : P[e] # <<>> PROVE Plain(w)
      <4>1. Plain(v) /\ v # <<>> /\ v[m] # NUL
        BY <2>1, <2>3, <2>4, <3>3
      <4>2. m >= 1
        BY <2>1, <4>1
      <4>3. ASSUME NEW j \in 1 .. x, w[j] = NUL PROVE j > 1 /\ w[j - 1] # NUL
        <5>1. CASE j = x
          BY <2>1, <2>2, <4>1, <4>2, <5>1
        <5>2. CASE j # x
          <6>1. j \in 1 .. m
            BY <2>1, <2>2, <5>2
          <6>2. v[j] = NUL
            BY <2>2, <4>3, <6>1
          <6>3. j > 1 /\ v[j - 1] # NUL
            BY <2>1, <4>1, <6>1, <6>2 DEF Plain
          <6>4. j - 1 \in 1 .. m
            BY <2>2, <6>1, <6>3
          <6>5. QED
            BY <2>2, <6>3, <6>4
        <5>3. QED
          BY <5>1, <5>2
      <4>4. QED
        BY <2>2, <4>3 DEF Plain
    <3>4. QED
      BY <2>1, <2>2, <2>4, <3>2, <3>3
  <2>6. CASE c # NUL
    <3>1. Q = Grow(P, c)
      BY <2>1, <2>6, SplitAppend
    <3>2. Len(Q) = n /\ \A e \in 1 .. n - 1 : Q[e] = P[e]
      <4>1. Q = [e \in 1 .. n |-> IF e = n THEN Append(P[e], c) ELSE P[e]]
        BY <2>4, <3>1 DEF Grow
      <4>2. Q \in Seq(Seq(T)) /\ Len(Q) = n
        BY <2>3, <2>4, <3>1, GrowIs
      <4>3. QED
        BY <2>4, <4>1, <4>2
    <3>3. ASSUME \A e \in 1 .. n - 1 : P[e] # <<>> PROVE Plain(w)
      <4>1. Plain(v)
        BY <2>1, <2>3, <2>4, <3>3
      <4>2. ASSUME NEW j \in 1 .. x, w[j] = NUL PROVE j > 1 /\ w[j - 1] # NUL
        <5>1. j \in 1 .. m
          BY <2>1, <2>2, <2>6, <4>2
        <5>2. v[j] = NUL
          BY <2>2, <4>2, <5>1
        <5>3. j > 1 /\ v[j - 1] # NUL
          BY <2>1, <4>1, <5>1, <5>2 DEF Plain
        <5>4. j - 1 \in 1 .. m
          BY <2>2, <5>1, <5>3
        <5>5. QED
          BY <2>2, <5>3, <5>4
      <4>3. QED
        BY <2>2, <4>2 DEF Plain
    <3>4. w # <<>> /\ w[Len(w)] # NUL
      BY <2>1, <2>2, <2>6
    <3>5. QED
      BY <2>1, <2>2, <3>2, <3>3, <3>4
  <2>7. QED
    BY <2>5, <2>6
<1>3. Seq(T) \subseteq G
  <2> HIDE DEF G
  <2>1. QED
    BY <1>1, <1>2, ByAppending
<1>4. QED
  BY <1>3

(* The empty element ends a list.                                           *)
LEMMA LengthIs ==
  ASSUME NEW T, NEW list \in Seq(T)
  PROVE  /\ MultiSzLength(list) \in 0 .. Len(list)
         /\ \A j \in 1 .. MultiSzLength(list) : list[j] = NUL => j > 1 /\ list[j - 1] # NUL
         /\ \A m \in 0 .. Len(list) - 1 :
              m = MultiSzLength(list) => list[m + 1] = NUL /\ (m = 0 \/ list[m] = NUL)
         /\ \A m \in 0 .. Len(list) :
              /\ (\A j \in 1 .. m : list[j] = NUL => j > 1 /\ list[j - 1] # NUL)
              /\ m < Len(list) => list[m + 1] = NUL /\ (m = 0 \/ list[m] = NUL)
              => MultiSzLength(list) = m
<1> DEFINE L == Len(list)
           E == {j \in 0 .. L - 1 : list[j + 1] = NUL /\ (j = 0 \/ list[j] = NUL)} \cup {L}
<1>1. L \in Nat /\ E \subseteq Nat /\ E # {}
  OBVIOUS
<1>2. PICK m : m = MultiSzLength(list)
  OBVIOUS
<1>3. m = Min(E)
  BY <1>2 DEF MultiSzLength
<1>4. m \in E /\ \A n \in E : m <= n
  <2> HIDE DEF E
  <2>1. QED
    BY <1>1, <1>3, MinIs
<1>5. m \in 0 .. L /\ (m < L => list[m + 1] = NUL /\ (m = 0 \/ list[m] = NUL))
  BY <1>1, <1>4
<1>6. ASSUME NEW j \in 1 .. m, list[j] = NUL PROVE j > 1 /\ list[j - 1] # NUL
  <2>1. PICK n : n = j - 1 /\ n + 1 = j /\ n \in 0 .. L - 1 /\ n < m
    BY <1>1, <1>5, j - 1 + 1 = j
  <2>2. n \notin E
    BY <1>1, <1>4, <2>1
  <2>3. ~(n = 0 \/ list[n] = NUL)
    BY <1>6, <2>1, <2>2
  <2>4. QED
    BY <2>1, <2>3
<1>7. ASSUME NEW n \in 0 .. L,
             \A j \in 1 .. n : list[j] = NUL => j > 1 /\ list[j - 1] # NUL,
             n < L => list[n + 1] = NUL /\ (n = 0 \/ list[n] = NUL)
      PROVE  m = n
  <2>1. n \in E
    BY <1>1, <1>7
  <2>2. m <= n
    BY <1>4, <2>1
  <2>3. ASSUME m < n PROVE FALSE
    <3>1. PICK j : j = m + 1 /\ j \in 1 .. n /\ m < L /\ j - 1 = m
      BY <1>1, <1>5, <2>3
    <3>2. list[j] = NUL /\ (m = 0 \/ list[m] = NUL)
      BY <1>5, <3>1
    <3>3. \A l \in 1 .. n : list[l] = NUL => l > 1 /\ list[l - 1] # NUL
      BY <1>7
    <3>4. j > 1 /\ list[j - 1] # NUL
      BY <3>1, <3>2, <3>3
    <3>5. QED
      BY <1>1, <1>5, <3>1, <3>2, <3>4
  <2>4. QED
    BY <1>1, <1>5, <2>2, <2>3
<1>8. QED
  BY <1>1, <1>2, <1>5, <1>6, <1>7

(* A loop that begins with a and goes on with Then.                         *)
Goes(f, a, step, N) == f[0] = a /\ \A n \in 1 .. N : f[n] = step[n][f[n - 1]]

(* Every loop has its values.                                               *)
LEMMA LoopExists ==
  ASSUME NEW X, NEW a \in X, NEW N \in Nat, NEW step \in [1 .. N -> [X -> X]]
  PROVE  \E f \in [0 .. N -> X] : Goes(f, a, step, N)
<1> DEFINE S == {n \in Nat : n <= N => \E f \in [0 .. n -> X] : Goes(f, a, step, n)}
<1>1. 0 \in S
  <2>1. [n \in 0 .. 0 |-> a] \in [0 .. 0 -> X] /\ Goes([n \in 0 .. 0 |-> a], a, step, 0)
    BY DEF Goes
  <2>2. QED
    BY <2>1
<1>2. ASSUME NEW n \in Nat, n \in S PROVE n + 1 \in S
  <2>1. SUFFICES ASSUME n + 1 <= N PROVE \E f \in [0 .. n + 1 -> X] : Goes(f, a, step, n + 1)
    OBVIOUS
  <2>2. PICK f \in [0 .. n -> X] : Goes(f, a, step, n)
    BY <1>2, <2>1
  <2> DEFINE g == [j \in 0 .. n + 1 |-> IF j = n + 1 THEN step[n + 1][f[n]] ELSE f[j]]
  <2>3. g \in [0 .. n + 1 -> X]
    <3>1. step[n + 1] \in [X -> X] /\ f[n] \in X
      BY <2>1, <2>2
    <3>2. step[n + 1][f[n]] \in X
      BY <3>1
    <3>3. QED
      BY <2>2, <3>2
  <2>4. g[0] = a /\ g[n + 1] = step[n + 1][g[n]]
    BY <2>2 DEF Goes
  <2>5. ASSUME NEW j \in 1 .. n PROVE g[j] = step[j][g[j - 1]]
    BY <2>2, j - 1 \in 0 .. n, j \in 0 .. n DEF Goes
  <2>6. \A j \in 1 .. n + 1 : j = n + 1 \/ j \in 1 .. n
    OBVIOUS
  <2> HIDE DEF g
  <2>7. ASSUME NEW j \in 1 .. n + 1 PROVE g[j] = step[j][g[j - 1]]
    BY <2>4, <2>5, <2>6, n + 1 - 1 = n
  <2>8. QED
    BY <2>3, <2>4, <2>7 DEF Goes
<1>3. N \in S
  BY <1>1, <1>2, SetInduction
<1>4. QED
  BY <1>3

(* The loop over the characters of a value.                                 *)
Reading(txt, open, val, T) ==
  /\ txt \in [0 .. Len(val) -> Seq(T)] /\ open \in [0 .. Len(val) -> SUBSET Quotes]
  /\ txt[0] = <<>> /\ open[0] = {} /\ Unquoted(val) = txt[Len(val)]
  /\ \A n \in 1 .. Len(val) : /\ txt[n] = txt[n - 1] \o Taken(val[n], open[n - 1])
                              /\ open[n] = Toggled(val[n], open[n - 1])

(* It is one.                                                               *)
LEMMA UnquotedLoop ==
  ASSUME NEW T, NUL \in T, NEW val \in Seq(T)
  PROVE  \E txt, open : Reading(txt, open, val, T)
<1> DEFINE N == Len(val)
           X == Seq(T) \X SUBSET Quotes
           a == <<<<>>, {}>>
           Then(q, n) == <<q[1] \o Taken(val[n], q[2]), Toggled(val[n], q[2])>>
           step == [n \in 1 .. N |-> [q \in X |-> Then(q, n)]]
<1>1. N \in Nat /\ a \in X
  <2>1. <<>> \in Seq(T) /\ {} \in SUBSET Quotes
    OBVIOUS
  <2>2. PICK e, f : e = <<>> /\ f = {} /\ e \in Seq(T) /\ f \in SUBSET Quotes
    BY <2>1
  <2>3. <<e, f>> \in X
    BY <2>2
  <2>4. QED
    BY <2>2, <2>3
<1>2. ASSUME NEW n \in 1 .. N, NEW q \in X PROVE Then(q, n) \in X
  <2>1. q[1] \in Seq(T) /\ q[2] \in SUBSET Quotes /\ val[n] \in T
    OBVIOUS
  <2>2. Taken(val[n], q[2]) \in Seq(T)
    <3>1. <<>> \in Seq(T) /\ <<NUL>> \in Seq(T) /\ <<val[n]>> \in Seq(T)
      BY <2>1
    <3>2. QED
      BY <3>1, Zenon DEF Taken
  <2>3. Toggled(val[n], q[2]) \in SUBSET Quotes
    BY <2>1 DEF Toggled
  <2>4. q[1] \o Taken(val[n], q[2]) \in Seq(T)
    BY <2>1, <2>2
  <2>5. QED
    BY <2>3, <2>4
<1>3. step \in [1 .. N -> [X -> X]]
  BY <1>2
<1> DEFINE body(h) == [n \in 0 .. N |-> IF n = 0 THEN a ELSE Then(h[n - 1], n)]
           g == CHOOSE h : h = body(h)
<1>4. \E f : f = body(f)
  <2>0. N \in Nat /\ a \in X /\ \A n \in 1 .. N : step[n] = [q \in X |-> Then(q, n)]
    BY <1>1
  <2> HIDE DEF step, X, a, N, Then
  <2>1. PICK f \in [0 .. N -> X] : Goes(f, a, step, N)
    BY <1>3, <2>0, LoopExists
  <2>2. ASSUME NEW n \in 1 .. N PROVE f[n] = Then(f[n - 1], n)
    <3>1. n - 1 \in 0 .. N
      BY <2>0
    <3>2. f[n - 1] \in X
      BY <3>1
    <3>3. f[n] = step[n][f[n - 1]]
      BY <2>1 DEF Goes
    <3>4. QED
      BY <2>0, <3>2, <3>3
  <2>3. \A n \in 0 .. N : n = 0 \/ n \in 1 .. N
    BY <2>0
  <2>4. \A n \in 0 .. N : f[n] = IF n = 0 THEN a ELSE Then(f[n - 1], n)
    BY <2>1, <2>2, <2>3 DEF Goes
  <2>5. f = body(f)
    BY <2>1, <2>4
  <2>6. QED
    BY <2>5
<1>5. g = body(g)
  BY <1>4
<1>6. Unquoted(val) = g[N][1]
  BY DEF Unquoted
<1> HIDE DEF g
<1>7. g[0] = a
  BY <1>1, <1>5
<1>8. ASSUME NEW n \in 1 .. N PROVE g[n] = Then(g[n - 1], n)
  <2>1. n \in 0 .. N /\ n # 0
    BY <1>1
  <2>2. body(g)[n] = Then(g[n - 1], n)
    BY <2>1
  <2>3. QED
    BY <1>5, <2>2, Zenon
<1> HIDE DEF body
<1>9. \A n \in 0 .. N : g[n] \in X
  <2> DEFINE P == {n \in Nat : n <= N => g[n] \in X}
  <2>1. 0 \in P
    BY <1>1, <1>7
  <2>2. ASSUME NEW m \in Nat, m \in P PROVE m + 1 \in P
    <3>1. SUFFICES ASSUME m + 1 <= N PROVE g[m + 1] \in X
      OBVIOUS
    <3>2. PICK n : n = m + 1 /\ n \in 1 .. N /\ n - 1 = m /\ g[m] \in X
      BY <1>1, <2>2, <3>1
    <3> HIDE DEF X, N, Then
    <3>3. Then(g[m], n) \in X
      BY <1>2, <3>2
    <3>4. QED
      BY <1>8, <3>2, <3>3
  <2> HIDE DEF P
  <2>3. Nat \subseteq P
    BY <2>1, <2>2, SetInduction
  <2>4. QED
    BY <1>1, <2>3 DEF P
<1> DEFINE txt == [n \in 0 .. N |-> g[n][1]]
           open == [n \in 0 .. N |-> g[n][2]]
<1>10. txt \in [0 .. N -> Seq(T)] /\ open \in [0 .. N -> SUBSET Quotes]
  BY <1>9
<1>11. txt[0] = <<>> /\ open[0] = {} /\ Unquoted(val) = txt[N]
  <2>1. 0 \in 0 .. N /\ N \in 0 .. N
    BY <1>1
  <2>2. g[0][1] = <<>> /\ g[0][2] = {}
    BY <1>7
  <2> HIDE DEF a
  <2>3. QED
    BY <1>6, <2>1, <2>2
<1>12. ASSUME NEW n \in 1 .. N
       PROVE  txt[n] = txt[n - 1] \o Taken(val[n], open[n - 1]) /\ open[n] = Toggled(val[n], open[n - 1])
  <2>1. n \in 0 .. N /\ n - 1 \in 0 .. N
    BY <1>1
  <2>2. g[n][1] = g[n - 1][1] \o Taken(val[n], g[n - 1][2]) /\ g[n][2] = Toggled(val[n], g[n - 1][2])
    <3>1. PICK p, q : p = g[n] /\ q = g[n - 1]
      OBVIOUS
    <3>2. p = Then(q, n)
      BY <1>8, <3>1
    <3>3. p[1] = q[1] \o Taken(val[n], q[2]) /\ p[2] = Toggled(val[n], q[2])
      BY <3>2
    <3>4. QED
      BY <3>1, <3>3
  <2>3. QED
    BY <2>1, <2>2
<1>13. Reading(txt, open, val, T)
  BY <1>10, <1>11, <1>12 DEF Reading
<1>14. QED
  BY <1>13

(* What the quotes and the separator are.                                   *)
LEMMA QuotesAre ==
  Separator \notin Quotes /\ Apostrophe \in Quotes /\ Separator # NUL /\ Separator # Apostrophe
BY DEF Separator, Quotes, Apostrophe, NUL

(* A quote more, or another character.                                      *)
Count(val, n, q) == Cardinality({h \in 1 .. n : val[h] = q})
Odd(val, n) == {q \in Quotes : Count(val, n, q) % 2 = 1}

(* The quotes that are open are those met an odd number of times.           *)
LEMMA OddNext ==
  ASSUME NEW val, NEW m \in Nat, NEW n, n = m + 1
  PROVE  Odd(val, n) = Toggled(val[n], Odd(val, m))
<1>1. ASSUME NEW q
      PROVE  /\ Count(val, m, q) \in Nat
             /\ Count(val, n, q) = IF val[n] = q THEN Count(val, m, q) + 1 ELSE Count(val, m, q)
  <2> DEFINE S == {h \in 1 .. m : val[h] = q}
  <2>1. S \subseteq 1 .. m
    OBVIOUS
  <2>2. Cardinality(S) \in Nat /\ Cardinality(S \cup {m + 1}) = Cardinality(S) + 1
    <3> HIDE DEF S
    <3>1. QED
      BY <2>1, PlacesFinite, RankNext
  <2>3. {h \in 1 .. n : val[h] = q} = IF val[n] = q THEN S \cup {m + 1} ELSE S
    OBVIOUS
  <2>4. QED
    BY <2>2, <2>3 DEF Count
<1>2. \A l \in Nat : (l + 1) % 2 = 1 <=> l % 2 # 1
  OBVIOUS
<1>3. PICK c, A, B : c = val[n] /\ A = Odd(val, m) /\ B = Odd(val, n)
  OBVIOUS
<1>4. \A q : q \in B <=> q \in Quotes /\ IF c = q THEN q \notin A ELSE q \in A
  <2>1. ASSUME NEW q \in Quotes PROVE q \in B <=> IF c = q THEN q \notin A ELSE q \in A
    <3>1. PICK l : l = Count(val, m, q) /\ l \in Nat /\ Count(val, n, q) = IF c = q THEN l + 1 ELSE l
      BY <1>1, <1>3
    <3>2. (q \in A <=> l % 2 = 1) /\ (q \in B <=> Count(val, n, q) % 2 = 1)
      BY <1>3, <3>1 DEF Odd
    <3>3. QED
      BY <1>2, <3>1, <3>2
  <2>2. B \subseteq Quotes
    BY <1>3 DEF Odd
  <2>3. QED
    BY <2>1, <2>2
<1>5. A \subseteq Quotes
  BY <1>3 DEF Odd
<1>6. B = Toggled(c, A)
  <2>1. CASE c \in Quotes
    <3>1. Toggled(c, A) = (A \ {c}) \cup ({c} \ A)
      BY <2>1 DEF Toggled
    <3>2. QED
      BY <1>4, <1>5, <2>1, <3>1
  <2>2. CASE c \notin Quotes
    <3>1. Toggled(c, A) = A
      BY <2>2 DEF Toggled
    <3>2. QED
      BY <1>4, <1>5, <2>2, <3>1
  <2>3. QED
    BY <2>1, <2>2
<1>7. QED
  BY <1>3, <1>6

(* The loop cuts a value into its pieces.                                   *)
LEMMA UnquotedIs ==
  ASSUME NEW T, NUL \notin T, NEW val \in Seq(T)
  PROVE  /\ Unquoted(val) \in Seq(T \cup {NUL}) /\ Split(Unquoted(val)) = Pieces(val)
         /\ Len(Unquoted(val)) <= Len(val)
         /\ NoApostrophe(val) => Len(Unquoted(val)) = Len(val)
<1>0. PICK N, U : N = Len(val) /\ U = T \cup {NUL} /\ N \in Nat
  <2>1. Len(val) \in Nat
    OBVIOUS
  <2>2. QED
    BY <2>1
<1>1. val \in Seq(U) /\ NUL \in U /\ \A n \in 1 .. N : val[n] \in U /\ val[n] # NUL
  <2>1. \A n \in 1 .. N : val[n] \in T
    BY <1>0
  <2>2. QED
    BY <1>0, <2>1
<1>2. PICK txt, open : Reading(txt, open, val, U)
  BY <1>1, UnquotedLoop
<1>3. /\ txt \in [0 .. N -> Seq(U)] /\ txt[0] = <<>> /\ open[0] = {} /\ Unquoted(val) = txt[N]
      /\ \A n \in 1 .. N : /\ txt[n] = txt[n - 1] \o Taken(val[n], open[n - 1])
                           /\ open[n] = Toggled(val[n], open[n - 1])
  BY <1>0, <1>2 DEF Reading
<1> DEFINE Seps(n) == {j \in 1 .. n : val[j] = Separator /\ ~Quoted(val, j)}
           Stays(n) == {j \in 1 .. n : val[j] # Apostrophe}
           Read(n) == /\ Split(txt[n]) = Parts(val, Seps(n), Stays(n)) /\ open[n] = Odd(val, n)
                      /\ Len(txt[n]) <= n
                      /\ (\A j \in 1 .. n : val[j] # Apostrophe) => Len(txt[n]) = n
           P == {n \in Nat : n <= N => Read(n)}
<1>4. 0 \in P
  <2>1. Split(<<>>) = Parts(val, {}, {})
    <3>1. Split(<<>>) = <<<<>>>> /\ Cardinality({}) + 1 = 1 /\ Chars(val, {}) = <<>>
      <4>1. Cardinality({}) + 1 = 1 /\ Chars(val, {}) = <<>>
        BY FS_EmptySet DEF Chars
      <4>2. <<>> \in Seq(U)
        OBVIOUS
      <4>3. Split(<<>>) = <<<<>>>>
        BY <4>2, SplitIs
      <4>4. QED
        BY <4>1, <4>3
    <3>2. Parts(val, {}, {}) = [e \in 1 .. 1 |-> Chars(val, Among({}, {}, e))]
      BY <3>1 DEF Parts, Among
    <3>3. \A e : Among({}, {}, e) = {}
      BY DEF Among
    <3>4. Parts(val, {}, {}) = [e \in 1 .. 1 |-> <<>>]
      BY <3>1, <3>2, <3>3
    <3>5. QED
      BY <3>1, <3>4
  <2>2. Seps(0) = {} /\ Stays(0) = {}
    OBVIOUS
  <2>3. Odd(val, 0) = {}
    <3>1. \A q : {h \in 1 .. 0 : val[h] = q} = {}
      OBVIOUS
    <3>2. \A q : Count(val, 0, q) = 0
      BY <3>1, FS_EmptySet DEF Count
    <3>3. QED
      BY <3>2 DEF Odd
  <2> HIDE DEF Seps, Stays
  <2>4. Split(txt[0]) = Parts(val, Seps(0), Stays(0)) /\ open[0] = Odd(val, 0)
    BY <1>3, <2>1, <2>2, <2>3
  <2>5. Len(txt[0]) = 0
    BY <1>3
  <2>6. Read(0)
    BY <2>4, <2>5
  <2> HIDE DEF Read
  <2>7. QED
    BY <2>6
<1>5. ASSUME NEW m \in Nat, m \in P PROVE m + 1 \in P
  <2>1. SUFFICES ASSUME m + 1 <= N PROVE Read(m + 1)
    OBVIOUS
  <2>2. PICK n, c, s, D, K : /\ n = m + 1 /\ c = val[n] /\ s = txt[m] /\ D = Seps(m) /\ K = Stays(m)
                             /\ n \in 1 .. N /\ n - 1 = m
    <3>1. m + 1 \in 1 .. N /\ m + 1 - 1 = m
      BY <1>0, <2>1
    <3> HIDE DEF Seps, Stays
    <3>2. QED
      BY <3>1
  <2>3. Split(s) = Parts(val, D, K) /\ open[m] = Odd(val, m) /\ Len(s) <= m
    BY <1>0, <1>5, <2>1, <2>2
  <2>4. (\A j \in 1 .. m : val[j] # Apostrophe) => Len(s) = m
    BY <1>0, <1>5, <2>1, <2>2
  <2>5. s \in Seq(U) /\ c \in U /\ c # NUL /\ NUL \in U /\ Len(s) \in Nat
    <3>1. m \in 0 .. N
      BY <1>0, <2>1
    <3>2. QED
      BY <1>1, <1>3, <2>2, <3>1
  <2>6. open[n] = Odd(val, n)
    <3>1. open[n] = Toggled(val[n], open[n - 1])
      BY <1>3, <2>2
    <3>2. Odd(val, n) = Toggled(val[n], Odd(val, m))
      BY <2>2, OddNext
    <3>3. QED
      BY <2>2, <2>3, <3>1, <3>2
  <2>7. txt[n] = s \o Taken(c, Odd(val, m))
    BY <1>3, <2>2, <2>3
  <2>8. GoesOn(val, D, K, n)
    <3>1. Places(D, m) /\ Places(K, m)
      BY <2>2 DEF Places
    <3>2. QED
      BY <2>2, <3>1, PartsNext
  <2>9. /\ Seps(n) = IF c = Separator /\ ~Quoted(val, n) THEN D \cup {n} ELSE D
        /\ Stays(n) = IF c = Apostrophe THEN K ELSE K \cup {n}
    <3>1. \A j : j \in 1 .. n <=> j \in 1 .. m \/ j = n
      BY <2>2
    <3>2. QED
      BY <2>2, <3>1
  <2>10. Quoted(val, n) <=> Odd(val, m) # {}
    BY <2>2 DEF Quoted, Odd, Count
  <2>11. \A j \in 1 .. m : j \in 1 .. n
    BY <2>2
  <2>12. n \in 1 .. n
    BY <2>2
  <2> DEFINE Same == Split(txt[n]) = Parts(val, Seps(n), Stays(n))
             Long == Len(txt[n]) <= n /\ ((\A j \in 1 .. n : val[j] # Apostrophe) => Len(txt[n]) = n)
  <2>13. CASE c = Apostrophe
    <3>1. txt[n] = s
      <4>1. Taken(c, Odd(val, m)) = <<>>
        BY <2>13 DEF Taken
      <4>2. s \o <<>> = s
        BY <2>5
      <4>3. QED
        BY <2>7, <4>1, <4>2
    <3>2. Seps(n) = D /\ Stays(n) = K
      <4>1. c # Separator
        BY <2>13, QuotesAre
      <4> HIDE DEF Seps, Stays
      <4>2. QED
        BY <2>9, <2>13, <4>1
    <3> HIDE DEF Seps, Stays
    <3>3. Same
      BY <2>3, <3>1, <3>2
    <3>4. Long
      <4>1. val[n] = Apostrophe /\ Len(txt[n]) \in Nat /\ Len(txt[n]) <= m
        BY <2>2, <2>3, <2>5, <2>13, <3>1
      <4>2. QED
        BY <2>2, <2>12, <4>1
    <3>5. QED
      BY <2>2, <2>6, <3>3, <3>4
  <2>14. CASE c # Apostrophe /\ c = Separator /\ Odd(val, m) = {}
    <3>1. txt[n] = Append(s, NUL)
      <4>1. Taken(c, Odd(val, m)) = <<NUL>>
        BY <2>14 DEF Taken
      <4>2. s \o <<NUL>> = Append(s, NUL)
        BY <2>5
      <4>3. QED
        BY <2>7, <4>1, <4>2
    <3> HIDE DEF Seps, Stays
    <3>2. Seps(n) = D \cup {n} /\ Stays(n) = K \cup {n}
      BY <2>9, <2>10, <2>14
    <3>3. Split(txt[n]) = Append(Split(s), <<>>)
      BY <2>5, <3>1, SplitAppend
    <3>4. Same
      BY <2>3, <2>8, <3>2, <3>3 DEF GoesOn
    <3>5. Len(txt[n]) = Len(s) + 1
      BY <2>5, <3>1
    <3>6. Long
      BY <2>2, <2>3, <2>4, <2>5, <2>11, <3>5
    <3>7. QED
      BY <2>2, <2>6, <3>4, <3>6
  <2>15. CASE c # Apostrophe /\ ~(c = Separator /\ Odd(val, m) = {})
    <3>1. txt[n] = Append(s, c)
      <4>1. Taken(c, Odd(val, m)) = <<c>>
        BY <2>15 DEF Taken
      <4>2. s \o <<c>> = Append(s, c)
        BY <2>5
      <4>3. QED
        BY <2>7, <4>1, <4>2
    <3> HIDE DEF Seps, Stays
    <3>2. Seps(n) = D /\ Stays(n) = K \cup {n}
      BY <2>9, <2>10, <2>15
    <3>3. Split(txt[n]) = Grow(Split(s), c)
      BY <2>5, <3>1, SplitAppend
    <3>4. Same
      BY <2>2, <2>3, <2>8, <3>2, <3>3 DEF GoesOn
    <3>5. Len(txt[n]) = Len(s) + 1
      BY <2>5, <3>1
    <3>6. Long
      BY <2>2, <2>3, <2>4, <2>5, <2>11, <3>5
    <3>7. QED
      BY <2>2, <2>6, <3>4, <3>6
  <2>16. QED
    BY <2>13, <2>14, <2>15
<1>6. Read(N)
  <2> HIDE DEF P, Read
  <2>1. Nat \subseteq P
    BY <1>4, <1>5, SetInduction
  <2>2. QED
    BY <1>0, <2>1 DEF P
<1>7. Pieces(val) = Parts(val, Seps(N), Stays(N))
  <2>1. DOMAIN val = 1 .. N
    BY <1>0
  <2>2. QED
    BY <2>1 DEF Pieces
<1>8. NoApostrophe(val) => \A j \in 1 .. N : val[j] # Apostrophe
  BY <1>0 DEF NoApostrophe, ToSet
<1>9. Unquoted(val) \in Seq(U)
  BY <1>0, <1>3
<1> HIDE DEF Seps, Stays
<1>10. QED
  BY <1>0, <1>3, <1>6, <1>7, <1>8, <1>9

(* The loop over the sequences to join.                                     *)
Joining(f, ss, V) ==
  /\ f \in [1 .. Len(ss) -> Seq(V)] /\ f[1] = ss[1] /\ FlattenSeq(ss) = f[Len(ss)]
  /\ \A n \in 2 .. Len(ss) : f[n] = f[n - 1] \o ss[n]

(* It is one.                                                               *)
LEMMA JoiningLoop ==
  ASSUME NEW V, NEW ss \in Seq(Seq(V)), Len(ss) >= 1
  PROVE  \E f : Joining(f, ss, V)
<1> DEFINE N == Len(ss)
           X == Seq(V)
           a == <<>>
           Then(q, n) == q \o ss[n]
           step == [n \in 1 .. N |-> [q \in X |-> Then(q, n)]]
<1>1. N \in Nat /\ a \in X /\ N >= 1 /\ \A n \in 1 .. N : ss[n] \in X
  <2>1. N \in Nat /\ a \in X
    OBVIOUS
  <2>2. QED
    BY <2>1
<1>2. ASSUME NEW n \in 1 .. N, NEW q \in X PROVE Then(q, n) \in X
  BY <1>1
<1>3. step \in [1 .. N -> [X -> X]]
  BY <1>2
<1>4. \A q \in X : a \o q = q
  OBVIOUS
<1> DEFINE body(h) == [n \in 1 .. N |-> IF n = 1 THEN ss[n] ELSE h[n - 1] \o ss[n]]
           g == CHOOSE h : h = body(h)
<1>5. \E f : f = body(f)
  <2>0. \A n \in 1 .. N : step[n] = [q \in X |-> Then(q, n)]
    OBVIOUS
  <2> HIDE DEF step, X, a, N
  <2>1. PICK f \in [0 .. N -> X] : Goes(f, a, step, N)
    BY <1>1, <1>3, LoopExists
  <2>2. ASSUME NEW n \in 1 .. N PROVE f[n] = f[n - 1] \o ss[n]
    <3>1. n - 1 \in 0 .. N
      BY <1>1
    <3>2. f[n - 1] \in X
      BY <3>1
    <3>3. f[n] = step[n][f[n - 1]]
      BY <2>1 DEF Goes
    <3>4. QED
      BY <2>0, <3>2, <3>3
  <2>3. f[1] = ss[1]
    <3>1. 1 \in 1 .. N /\ 1 - 1 = 0 /\ ss[1] \in X
      BY <1>1
    <3>2. f[1] = f[0] \o ss[1] /\ f[0] = a
      BY <2>1, <2>2, <3>1 DEF Goes
    <3>3. a \o ss[1] = ss[1]
      BY <1>4, <3>1
    <3>4. QED
      BY <3>2, <3>3
  <2> DEFINE h == [n \in 1 .. N |-> f[n]]
  <2>4. \A n \in 1 .. N : h[n] = IF n = 1 THEN ss[n] ELSE h[n - 1] \o ss[n]
    <3>1. ASSUME NEW n \in 1 .. N, n # 1 PROVE h[n] = h[n - 1] \o ss[n]
      <4>1. n - 1 \in 1 .. N
        BY <1>1, <3>1
      <4>2. QED
        BY <2>2, <4>1
    <3>2. QED
      BY <2>3, <3>1
  <2>5. h = [n \in 1 .. N |-> h[n]]
    OBVIOUS
  <2> HIDE DEF h
  <2>6. h = body(h)
    BY <2>4, <2>5
  <2>7. QED
    BY <2>6
<1>6. g = body(g)
  BY <1>5
<1>7. FlattenSeq(ss) = g[N]
  BY <1>1 DEF FlattenSeq
<1> HIDE DEF g
<1>8. ASSUME NEW n \in 1 .. N PROVE g[n] = IF n = 1 THEN ss[n] ELSE g[n - 1] \o ss[n]
  <2>1. body(g)[n] = IF n = 1 THEN ss[n] ELSE g[n - 1] \o ss[n]
    OBVIOUS
  <2>2. QED
    BY <1>6, <2>1, Zenon
<1> HIDE DEF body
<1>9. \A n \in 1 .. N : g[n] \in X
  <2> DEFINE P == {n \in Nat : n <= N /\ n # 0 => g[n] \in X}
  <2>1. 0 \in P
    OBVIOUS
  <2>2. ASSUME NEW m \in Nat, m \in P PROVE m + 1 \in P
    <3>1. SUFFICES ASSUME m + 1 <= N PROVE g[m + 1] \in X
      OBVIOUS
    <3>2. PICK n : n = m + 1 /\ n \in 1 .. N /\ n - 1 = m /\ (m # 0 => g[m] \in X) /\ (n = 1 <=> m = 0)
      BY <1>1, <2>2, <3>1
    <3>3. g[n] = IF n = 1 THEN ss[n] ELSE g[m] \o ss[n]
      BY <1>8, <3>2
    <3>4. QED
      BY <1>1, <3>2, <3>3
  <2> HIDE DEF P
  <2>3. Nat \subseteq P
    BY <2>1, <2>2, SetInduction
  <2>4. QED
    BY <1>1, <2>3 DEF P
<1> DEFINE f == [n \in 1 .. N |-> g[n]]
<1>10. f \in [1 .. N -> X] /\ f[1] = ss[1] /\ FlattenSeq(ss) = f[N]
  <2>1. 1 \in 1 .. N /\ N \in 1 .. N
    BY <1>1
  <2>2. QED
    BY <1>7, <1>8, <1>9, <2>1
<1>11. ASSUME NEW n \in 2 .. N PROVE f[n] = f[n - 1] \o ss[n]
  <2>1. n \in 1 .. N /\ n # 1 /\ n - 1 \in 1 .. N
    BY <1>1
  <2>2. QED
    BY <1>8, <2>1
<1>12. Joining(f, ss, V)
  BY <1>10, <1>11 DEF Joining
<1>13. QED
  BY <1>12

(* One sequence more to join.                                               *)
LEMMA FlattenNext ==
  ASSUME NEW V, NEW ss \in Seq(Seq(V)), NEW x \in Seq(V)
  PROVE  /\ FlattenSeq(<<>>) = <<>> /\ FlattenSeq(ss) \in Seq(V)
         /\ FlattenSeq(Append(ss, x)) = FlattenSeq(ss) \o x
<1>0. PICK W, N, tt, M : /\ W = Seq(V) /\ N = Len(ss) /\ tt = Append(ss, x) /\ M = N + 1
  OBVIOUS
<1>1. /\ N \in Nat /\ ss \in Seq(W) /\ x \in W /\ tt \in Seq(W) /\ Len(tt) = M /\ M >= 1
      /\ tt[M] = x /\ \A n \in 1 .. N : tt[n] = ss[n] /\ ss[n] \in W
  <2>1. ss \in Seq(W) /\ x \in W
    BY <1>0
  <2>2. N \in Nat
    BY <1>0
  <2>3. tt \in Seq(W) /\ Len(tt) = M /\ tt[M] = x /\ \A n \in 1 .. N : tt[n] = ss[n] /\ ss[n] \in W
    BY <1>0, <2>1
  <2>4. QED
    BY <1>0, <2>1, <2>2, <2>3
<1>2. PICK f : Joining(f, tt, V)
  <2>1. tt \in Seq(Seq(V)) /\ Len(tt) >= 1
    BY <1>0, <1>1
  <2>2. QED
    BY <2>1, JoiningLoop
<1>3. FlattenSeq(<<>>) = <<>>
  BY DEF FlattenSeq
<1>4. CASE N = 0
  <2>1. ss = <<>>
    BY <1>0, <1>1, <1>4
  <2>2. FlattenSeq(tt) = x
    BY <1>0, <1>1, <1>2, <1>4 DEF Joining
  <2>3. <<>> \o x = x /\ <<>> \in Seq(V)
    OBVIOUS
  <2>4. QED
    BY <1>0, <1>3, <2>1, <2>2, <2>3
<1>5. CASE N # 0
  <2>1. PICK g : Joining(g, ss, V)
    <3>1. Len(ss) >= 1
      BY <1>0, <1>1, <1>5
    <3>2. QED
      BY <3>1, JoiningLoop
  <2>2. /\ g \in [1 .. N -> W] /\ g[1] = ss[1] /\ FlattenSeq(ss) = g[N]
        /\ \A n \in 2 .. N : g[n] = g[n - 1] \o ss[n]
    BY <1>0, <2>1 DEF Joining
  <2>3. /\ f \in [1 .. M -> W] /\ f[1] = tt[1] /\ FlattenSeq(tt) = f[M]
        /\ \A n \in 2 .. M : f[n] = f[n - 1] \o tt[n]
    BY <1>0, <1>1, <1>2 DEF Joining
  <2> DEFINE P == {n \in Nat : n <= N /\ n # 0 => f[n] = g[n]}
  <2>4. 0 \in P
    OBVIOUS
  <2>5. ASSUME NEW m \in Nat, m \in P PROVE m + 1 \in P
    <3>1. SUFFICES ASSUME m + 1 <= N PROVE f[m + 1] = g[m + 1]
      OBVIOUS
    <3>2. PICK n : n = m + 1 /\ n \in 1 .. N /\ n - 1 = m /\ (m # 0 => f[m] = g[m]) /\ (n = 1 <=> m = 0)
      BY <1>1, <2>5, <3>1
    <3>3. CASE n = 1
      BY <1>1, <2>2, <2>3, <3>2, <3>3
    <3>4. CASE n # 1
      <4>1. n \in 2 .. N /\ n \in 2 .. M
        BY <1>0, <1>1, <3>2, <3>4
      <4>2. g[n] = g[m] \o ss[n] /\ f[n] = f[m] \o tt[n] /\ tt[n] = ss[n]
        BY <1>1, <2>2, <2>3, <3>2, <4>1
      <4>3. QED
        BY <3>2, <3>4, <4>2
    <3>5. QED
      BY <3>3, <3>4
  <2> HIDE DEF P
  <2>6. Nat \subseteq P
    BY <2>4, <2>5, SetInduction
  <2>7. f[N] = g[N]
    BY <1>1, <1>5, <2>6 DEF P
  <2>8. M \in 2 .. M /\ M - 1 = N /\ N \in 1 .. N
    BY <1>0, <1>1, <1>5
  <2>9. f[M] = g[N] \o x
    BY <1>1, <2>3, <2>7, <2>8
  <2>10. FlattenSeq(ss) \in Seq(V)
    BY <1>0, <2>2, <2>8
  <2>11. QED
    BY <1>0, <1>3, <2>2, <2>3, <2>9, <2>10
<1>6. QED
  BY <1>4, <1>5

(***************************************************************************)
(* The buffer of a list.                                                    *)
(***************************************************************************)
(* A text and room behind it.                                               *)
LEMMA PaddedIs ==
  ASSUME NEW T, NUL \in T, NEW s \in Seq(T), NEW p \in Nat
  PROVE  /\ s \o Padding(p) \in Seq(T) /\ Len(s \o Padding(p)) = Len(s) + p
         /\ \A h \in 1 .. Len(s) + p : (s \o Padding(p))[h] = IF h <= Len(s) THEN s[h] ELSE NUL
<1>1. PICK b : b = Padding(p)
  OBVIOUS
<1>2. b \in Seq(T) /\ Len(b) = p /\ \A h \in 1 .. p : b[h] = NUL
  <2>1. b = [j \in 1 .. p |-> NUL]
    BY <1>1 DEF Padding
  <2>2. b \in [1 .. p -> T]
    BY <2>1
  <2>3. QED
    BY <2>1, <2>2
<1>3. PICK w, n : w = s \o b /\ n = Len(s) /\ n \in Nat
  <2>1. Len(s) \in Nat
    OBVIOUS
  <2>2. QED
    BY <2>1
<1>4. w \in Seq(T) /\ Len(w) = n + p
  <2>1. b \in Seq(T) /\ s \in Seq(T)
    BY <1>2
  <2>2. s \o b \in Seq(T) /\ Len(s \o b) = Len(s) + Len(b)
    BY <2>1
  <2>3. QED
    BY <1>2, <1>3, <2>2
<1>5. \A h \in 1 .. n + p : w[h] = IF h <= n THEN s[h] ELSE b[h - n]
  BY <1>2, <1>3
<1>6. \A h \in 1 .. n + p : h <= n \/ h - n \in 1 .. p
  BY <1>3
<1>7. \A h \in 1 .. n + p : w[h] = IF h <= n THEN s[h] ELSE NUL
  BY <1>2, <1>5, <1>6
<1>8. QED
  BY <1>1, <1>3, <1>4, <1>7

(* A shorter sequence of the same.                                          *)
LEMMA SameSeq ==
  ASSUME NEW T, NEW a \in Seq(T), NEW b \in Seq(T), Len(a) = Len(b),
         \A h \in 1 .. Len(a) : a[h] = b[h]
  PROVE  a = b
<1>1. a = [h \in 1 .. Len(a) |-> a[h]] /\ b = [h \in 1 .. Len(b) |-> b[h]]
  BY SeqIs
<1>2. QED
  BY <1>1

(* Less room, and one place of it.                                          *)
LEMMA PaddedPrefix ==
  ASSUME NEW T, NUL \in T, NEW s \in Seq(T), NEW p \in Nat, NEW q \in 0 .. p
  PROVE  /\ SubSeq(s \o Padding(p), 1, Len(s) + q) = s \o Padding(q)
         /\ q = 1 => s \o Padding(q) = Append(s, NUL)
<1>1. PICK a, b, n : a = s \o Padding(p) /\ b = s \o Padding(q) /\ n = Len(s) /\ n \in Nat
  <2>1. Len(s) \in Nat
    OBVIOUS
  <2>2. QED
    BY <2>1
<1>2. q \in Nat
  OBVIOUS
<1>3. /\ a \in Seq(T) /\ Len(a) = n + p
      /\ \A h \in 1 .. n + p : a[h] = IF h <= n THEN s[h] ELSE NUL
  BY <1>1, PaddedIs
<1>4. /\ b \in Seq(T) /\ Len(b) = n + q
      /\ \A h \in 1 .. n + q : b[h] = IF h <= n THEN s[h] ELSE NUL
  BY <1>1, <1>2, PaddedIs
<1>5. PICK c : c = SubSeq(a, 1, n + q)
  OBVIOUS
<1>6. c \in Seq(T) /\ Len(c) = n + q /\ \A h \in 1 .. n + q : c[h] = a[h]
  BY <1>1, <1>2, <1>3, <1>5
<1>7. \A h \in 1 .. n + q : h \in 1 .. n + p
  BY <1>1, <1>2
<1>8. c = b
  BY <1>3, <1>4, <1>6, <1>7, SameSeq
<1>9. ASSUME q = 1 PROVE b = Append(s, NUL)
  <2>1. PICK d : d = Append(s, NUL)
    OBVIOUS
  <2>2. d \in Seq(T) /\ Len(d) = n + 1 /\ \A h \in 1 .. n + 1 : d[h] = IF h <= n THEN s[h] ELSE NUL
    BY <1>1, <2>1
  <2>3. QED
    BY <1>4, <1>9, <2>1, <2>2, SameSeq
<1>10. QED
  BY <1>1, <1>5, <1>8, <1>9

(* All pieces of some texts.                                                *)
Flat(texts) == FlattenSeq([j \in DOMAIN texts |-> Pieces(texts[j])])

(* The pieces of one more.                                                  *)
LEMMA FlatNext ==
  ASSUME NEW V, NEW texts, IsList(texts), NEW val, Pieces(val) \in Seq(V),
         \A j \in 1 .. Len(texts) : Pieces(texts[j]) \in Seq(V)
  PROVE  Flat(Append(texts, val)) = Flat(texts) \o Pieces(val) /\ Flat(texts) \in Seq(V)
<1>1. PICK W, n, ss, x, t : /\ W = Seq(V) /\ n = Len(texts) /\ x = Pieces(val) /\ t = Append(texts, val)
                            /\ ss = [j \in 1 .. n |-> Pieces(texts[j])]
  OBVIOUS
<1>2. n \in Nat /\ DOMAIN texts = 1 .. n
  BY <1>1, ListIs
<1>3. ss \in Seq(W) /\ Len(ss) = n /\ x \in W
  <2>1. ss \in [1 .. n -> W]
    BY <1>1
  <2>2. QED
    BY <1>1, <1>2, <2>1
<1>4. t = [j \in 1 .. n + 1 |-> IF j = n + 1 THEN val ELSE texts[j]]
  <2>1. PICK X : texts \in Seq(X)
    BY DEF IsList
  <2>2. Append(texts, val) = [j \in 1 .. Len(texts) + 1 |-> IF j = Len(texts) + 1 THEN val ELSE texts[j]]
    BY <2>1, AppendIs, ZenonT(30)
  <2>3. QED
    BY <1>1, <2>2
<1>5. [j \in DOMAIN t |-> Pieces(t[j])] = Append(ss, x)
  <2>1. Append(ss, x) = [j \in 1 .. n + 1 |-> IF j = n + 1 THEN x ELSE ss[j]]
    <3>1. Append(ss, x) = [j \in 1 .. Len(ss) + 1 |-> IF j = Len(ss) + 1 THEN x ELSE ss[j]]
      BY <1>3, AppendIs
    <3>2. QED
      BY <1>3, <3>1
  <2>2. ASSUME NEW j \in 1 .. n + 1 PROVE Pieces(t[j]) = IF j = n + 1 THEN x ELSE ss[j]
    <3>1. CASE j = n + 1
      BY <1>1, <1>4, <3>1
    <3>2. CASE j # n + 1
      <4>1. j \in 1 .. n
        BY <1>2, <3>2
      <4>2. t[j] = texts[j] /\ ss[j] = Pieces(texts[j])
        BY <1>1, <1>4, <3>2, <4>1
      <4>3. QED
        BY <3>2, <4>2
    <3>3. QED
      BY <3>1, <3>2
  <2>3. DOMAIN t = 1 .. n + 1
    BY <1>4
  <2>4. QED
    BY <2>1, <2>2, <2>3
<1>6. FlattenSeq(Append(ss, x)) = FlattenSeq(ss) \o x /\ FlattenSeq(ss) \in Seq(V)
  <2>1. ss \in Seq(Seq(V)) /\ x \in Seq(V)
    BY <1>1, <1>3
  <2>2. QED
    BY <2>1, FlattenNext
<1>7. Flat(t) = FlattenSeq(Append(ss, x)) /\ Flat(texts) = FlattenSeq(ss)
  BY <1>1, <1>2, <1>5 DEF Flat
<1>8. QED
  BY <1>1, <1>6, <1>7

(* Parts none of which is empty.                                            *)
Full(P) == \A e \in 1 .. Len(P) : P[e] # <<>>

(* A buffer of a list that took some texts: their pieces, with a NUL at     *)
(* least to end the last and another to end the list, and no more room than *)
(* that when the last text has no apostrophe.                               *)
Holds(value, length, texts, T, s, p) ==
  /\ NUL \in T /\ s \in Seq(T) /\ p \in Nat /\ p >= 2
  /\ \A j \in 1 .. Len(texts) : Pieces(texts[j]) \in Seq(Seq(T))
  /\ value = <<s \o Padding(p)>> /\ length = Len(s) + p
  /\ (\A j \in 1 .. Len(texts) - 1 : NoApostrophe(texts[j])) =>
       /\ Split(s) = Flat(texts)
       /\ NoApostrophe(texts[Len(texts)]) => p = 2
       /\ (\A j \in 1 .. Len(texts) : NoEmptyPiece(texts[j])) => Full(Split(s))

Filled(value, length, texts) ==
  IF texts = <<>> THEN value = Null /\ length = 0
  ELSE \E T, s, p : Holds(value, length, texts, T, s, p)

(* What is true of more characters too.                                     *)
LEMMA SeqMore ==
  ASSUME NEW T, NEW U, T \subseteq U
  PROVE  Seq(T) \subseteq Seq(U) /\ Seq(Seq(T)) \subseteq Seq(Seq(U))
<1>1. ASSUME NEW A, NEW B, A \subseteq B PROVE Seq(A) \subseteq Seq(B)
  <2>1. SUFFICES ASSUME NEW q \in Seq(A) PROVE q \in Seq(B)
    OBVIOUS
  <2>2. Len(q) \in Nat /\ q = [h \in 1 .. Len(q) |-> q[h]] /\ \A h \in 1 .. Len(q) : q[h] \in B
    BY <1>1, SeqIs
  <2>3. q \in [1 .. Len(q) -> B]
    BY <2>2
  <2>4. QED
    BY <2>2, <2>3
<1>2. PICK A, B : A = Seq(T) /\ B = Seq(U)
  OBVIOUS
<1>3. A \subseteq B
  BY <1>1, <1>2
<1>4. Seq(A) \subseteq Seq(B)
  BY <1>1, <1>3
<1>5. QED
  BY <1>2, <1>3, <1>4

(* A text without a NUL is cut into texts.                                  *)
LEMMA PiecesAre ==
  ASSUME NEW val, IsText(val)
  PROVE  \E T : /\ NUL \in T /\ Unquoted(val) \in Seq(T) /\ Pieces(val) \in Seq(Seq(T))
                /\ Split(Unquoted(val)) = Pieces(val) /\ Len(Pieces(val)) >= 1
                /\ Len(val) \in Nat /\ Len(Unquoted(val)) \in 0 .. Len(val)
                /\ NoApostrophe(val) => Len(Unquoted(val)) = Len(val)
                /\ NoEmptyPiece(val) <=> Full(Pieces(val))
<1>1. PICK A, T : A = ToSet(val) /\ T = A \cup {NUL} /\ val \in Seq(A) /\ NUL \notin A
  BY DEF IsText
<1>2. /\ Unquoted(val) \in Seq(T) /\ Split(Unquoted(val)) = Pieces(val)
      /\ Len(Unquoted(val)) <= Len(val)
      /\ NoApostrophe(val) => Len(Unquoted(val)) = Len(val)
  BY <1>1, UnquotedIs
<1>3. Len(val) \in Nat /\ Len(Unquoted(val)) \in Nat
  BY <1>1, <1>2
<1>4. Pieces(val) \in Seq(Seq(T)) /\ Len(Pieces(val)) >= 1
  <2>1. Split(Unquoted(val)) \in Seq(Seq(T)) /\ Len(Split(Unquoted(val))) >= 1
    BY <1>2, SplitIs
  <2>2. QED
    BY <1>2, <2>1
<1>5. NoEmptyPiece(val) <=> Full(Pieces(val))
  <2>1. DOMAIN Pieces(val) = 1 .. Len(Pieces(val))
    BY <1>4
  <2>2. QED
    BY <2>1 DEF NoEmptyPiece, Full
<1>6. NUL \in T /\ Len(Unquoted(val)) \in 0 .. Len(val)
  <2>1. PICK a, b : a = Len(Unquoted(val)) /\ b = Len(val) /\ a \in Nat /\ b \in Nat /\ a <= b
    BY <1>2, <1>3
  <2>2. a \in 0 .. b
    BY <2>1
  <2>3. QED
    BY <1>1, <2>1, <2>2
<1>7. QED
  BY <1>2, <1>3, <1>4, <1>5, <1>6

(* Full parts one after the other are full.                                 *)
LEMMA FullConcat ==
  ASSUME NEW V, NEW a \in Seq(V), NEW b \in Seq(V), Full(a), Full(b)
  PROVE  Full(a \o b)
<1>1. PICK c, m, n : c = a \o b /\ m = Len(a) /\ n = Len(b)
  OBVIOUS
<1>2. m \in Nat /\ n \in Nat /\ Len(c) = m + n
  BY <1>1
<1>3. ASSUME NEW e \in 1 .. m + n PROVE c[e] # <<>>
  <2>1. c[e] = IF e <= m THEN a[e] ELSE b[e - m]
    BY <1>1, <1>2
  <2>2. e <= m => a[e] # <<>>
    <3>1. e <= m => e \in 1 .. m
      BY <1>2
    <3>2. QED
      BY <1>1, <3>1 DEF Full
  <2>3. ~(e <= m) => b[e - m] # <<>>
    <3>1. ~(e <= m) => e - m \in 1 .. n
      BY <1>2
    <3>2. QED
      BY <1>1, <3>1 DEF Full
  <2>4. QED
    BY <2>1, <2>2, <2>3
<1>4. QED
  BY <1>1, <1>2, <1>3 DEF Full

(* A text more behind what was there.                                       *)
LEMMA HoldsNext ==
  ASSUME NEW texts, IsList(texts), NEW val, IsText(val), NEW T, NEW r \in Seq(T),
         \A j \in 1 .. Len(texts) : Pieces(texts[j]) \in Seq(Seq(T)),
         (\A j \in 1 .. Len(texts) : NoApostrophe(texts[j])) =>
            /\ Split(r \o Unquoted(val)) = Flat(texts) \o Pieces(val)
            /\ (\A j \in 1 .. Len(texts) : NoEmptyPiece(texts[j])) => Full(Flat(texts)),
         NEW s, s = r \o Unquoted(val), NEW n, n = Len(r) + Len(val) + 2
  PROVE  \E U, p : Holds(<<s \o Padding(n - Len(s))>>, n, Append(texts, val), U, s, p)
<1>1. PICK A : /\ NUL \in A /\ Unquoted(val) \in Seq(A) /\ Pieces(val) \in Seq(Seq(A))
               /\ Len(val) \in Nat /\ Len(Unquoted(val)) \in 0 .. Len(val)
               /\ NoApostrophe(val) => Len(Unquoted(val)) = Len(val)
               /\ NoEmptyPiece(val) <=> Full(Pieces(val))
  BY PiecesAre
<1>2. PICK U, p, u, t, m : /\ U = T \cup A /\ p = n - Len(s) /\ u = Unquoted(val)
                           /\ t = Append(texts, val) /\ m = Len(texts)
  OBVIOUS
<1>3. r \in Seq(U) /\ u \in Seq(U) /\ NUL \in U
  <2>1. T \subseteq U /\ A \subseteq U
    BY <1>2
  <2>2. Seq(T) \subseteq Seq(U) /\ Seq(A) \subseteq Seq(U)
    BY <2>1, SeqMore
  <2>3. QED
    BY <1>1, <1>2, <2>2
<1>4. Pieces(val) \in Seq(Seq(U)) /\ \A j \in 1 .. m : Pieces(texts[j]) \in Seq(Seq(U))
  <2>1. T \subseteq U /\ A \subseteq U
    BY <1>2
  <2>2. Seq(Seq(T)) \subseteq Seq(Seq(U)) /\ Seq(Seq(A)) \subseteq Seq(Seq(U))
    BY <2>1, SeqMore
  <2>3. QED
    BY <1>1, <1>2, <2>2
<1>5. s \in Seq(U) /\ Len(s) = Len(r) + Len(u) /\ Len(r) \in Nat
  BY <1>2, <1>3
<1>6. p \in Nat /\ p >= 2 /\ n = Len(s) + p /\ (NoApostrophe(val) => p = 2)
  BY <1>1, <1>2, <1>5
<1>7. /\ m \in Nat /\ Len(t) = m + 1 /\ t[m + 1] = val /\ \A j \in 1 .. m : t[j] = texts[j]
  <2>1. PICK X : texts \in Seq(X)
    BY DEF IsList
  <2>2. Len(t) = m + 1 /\ t = [j \in 1 .. m + 1 |-> IF j = m + 1 THEN val ELSE texts[j]]
    <3>1. /\ Append(texts, val) = [j \in 1 .. Len(texts) + 1 |-> IF j = Len(texts) + 1 THEN val ELSE texts[j]]
          /\ Len(Append(texts, val)) = Len(texts) + 1
      BY <2>1, AppendIs, ZenonT(30)
    <3>2. QED
      BY <1>2, <3>1
  <2>3. m \in Nat
    BY <1>2, ListIs
  <2>4. QED
    BY <2>2, <2>3
<1>8. \A j \in 1 .. m + 1 : j \in 1 .. m \/ j = m + 1
  BY <1>7
<1>9. \A j \in 1 .. m + 1 : Pieces(t[j]) \in Seq(Seq(U))
  BY <1>4, <1>7, <1>8
<1>10. Flat(t) = Flat(texts) \o Pieces(val) /\ Flat(texts) \in Seq(Seq(U))
  <2>1. PICK V : V = Seq(U)
    OBVIOUS
  <2>2. Pieces(val) \in Seq(V) /\ \A j \in 1 .. Len(texts) : Pieces(texts[j]) \in Seq(V)
    BY <1>2, <1>4, <2>1
  <2>3. QED
    BY <1>2, <2>1, <2>2, FlatNext
<1>11. ASSUME \A j \in 1 .. m : NoApostrophe(t[j])
       PROVE  /\ Split(s) = Flat(t) /\ (NoApostrophe(val) => p = 2)
              /\ (\A j \in 1 .. m + 1 : NoEmptyPiece(t[j])) => Full(Split(s))
  <2>1. \A j \in 1 .. m : NoApostrophe(texts[j])
    BY <1>7, <1>11
  <2>2. /\ Split(s) = Flat(texts) \o Pieces(val)
        /\ (\A j \in 1 .. m : NoEmptyPiece(texts[j])) => Full(Flat(texts))
    BY <1>2, <2>1
  <2>3. ASSUME \A j \in 1 .. m + 1 : NoEmptyPiece(t[j]) PROVE Full(Split(s))
    <3>1. NoEmptyPiece(val) /\ \A j \in 1 .. m : NoEmptyPiece(texts[j])
      <4>1. m + 1 \in 1 .. m + 1 /\ \A j \in 1 .. m : j \in 1 .. m + 1
        BY <1>7
      <4>2. QED
        BY <1>7, <2>3, <4>1
    <3>2. Full(Pieces(val)) /\ Full(Flat(texts))
      BY <1>1, <2>2, <3>1
    <3>3. Full(Flat(texts) \o Pieces(val))
      <4>1. PICK a, b, V : a = Flat(texts) /\ b = Pieces(val) /\ V = Seq(U)
        OBVIOUS
      <4>2. a \in Seq(V) /\ b \in Seq(V) /\ Full(a) /\ Full(b)
        BY <1>4, <1>10, <3>2, <4>1
      <4>3. Full(a \o b)
        BY <4>2, FullConcat
      <4>4. QED
        BY <4>1, <4>3
    <3>4. QED
      BY <2>2, <3>3
  <2>4. QED
    BY <1>6, <1>10, <1>2, <2>2, <2>3
<1>12. Len(t) - 1 = m
  BY <1>7
<1>13. Holds(<<s \o Padding(p)>>, n, t, U, s, p)
  BY <1>3, <1>5, <1>6, <1>7, <1>9, <1>11, <1>12 DEF Holds
<1>14. QED
  BY <1>2, <1>13

(* A value is appended to a list.                                           *)
LEMMA AppendListIs ==
  ASSUME NEW v, NEW n, NEW l, NEW f, NEW a, NEW texts, IsList(texts), NEW val, IsText(val),
         Filled(v, l, texts)
  PROVE  \E w, m : AppendList(Row(v, n, l, f, a), val) = Row(w, n, m, f, a)
                   /\ Filled(w, m, Append(texts, val))
<1> DEFINE o == Row(v, n, l, f, a)
           sp == IF o.length > 1 THEN o.length - 1 ELSE 0
           m == sp + Len(val) + 2
           s == (IF sp = 0 THEN <<>> ELSE SubSeq(o.value[1], 1, sp)) \o Unquoted(val)
           w == <<s \o Padding(m - Len(s))>>
<1>1. AppendList(o, val) = [o EXCEPT !.length = m, !.value = w]
  BY DEF AppendList
<1>2. o.length = l /\ o.value = v
  BY DEF Row
<1>3. Append(texts, val) # <<>>
  BY Appended
<1>4. PICK A : /\ NUL \in A /\ Unquoted(val) \in Seq(A) /\ Pieces(val) \in Seq(Seq(A))
               /\ Split(Unquoted(val)) = Pieces(val)
  BY PiecesAre
<1>5. \E U, p : Holds(w, m, Append(texts, val), U, s, p)
  <2>1. CASE texts = <<>>
    <3>1. l = 0 /\ Len(texts) = 0
      BY <2>1 DEF Filled
    <3>2. sp = 0
      BY <1>2, <3>1
    <3>3. PICK r, t : r = <<>> /\ t = s /\ r \in Seq(A) /\ Len(r) = 0 /\ r \o Unquoted(val) = Unquoted(val)
      <4>1. <<>> \in Seq(A) /\ Len(<<>>) = 0 /\ <<>> \o Unquoted(val) = Unquoted(val)
        BY <1>4
      <4> HIDE DEF s
      <4>2. QED
        BY <4>1
    <3>4. t = r \o Unquoted(val)
      BY <3>2, <3>3
    <3>5. PICK c : c = m /\ c = Len(r) + Len(val) + 2
      BY <3>2, <3>3
    <3>6. Split(r \o Unquoted(val)) = Flat(texts) \o Pieces(val) /\ Full(Flat(texts))
      <4>1. Flat(texts) = <<>>
        <5>1. [j \in DOMAIN texts |-> Pieces(texts[j])] = <<>>
          BY <2>1
        <5>2. FlattenSeq(<<>>) = <<>>
          BY DEF FlattenSeq
        <5>3. QED
          BY <5>1, <5>2 DEF Flat
      <4>2. <<>> \o Pieces(val) = Pieces(val)
        BY <1>4
      <4>3. Full(<<>>)
        BY DEF Full
      <4>4. QED
        BY <1>4, <3>3, <4>1, <4>2, <4>3
    <3>7. 1 .. Len(texts) = {}
      BY <3>1
    <3> HIDE DEF s, m, o, sp, w
    <3>8. \E U, p : Holds(<<t \o Padding(c - Len(t))>>, c, Append(texts, val), U, t, p)
      BY <3>3, <3>4, <3>5, <3>6, <3>7, HoldsNext
    <3>9. QED
      BY <3>3, <3>5, <3>8 DEF w
  <2>2. CASE texts # <<>>
    <3>1. PICK T, q, p : Holds(v, l, texts, T, q, p)
      BY <2>2 DEF Filled
    <3>2. /\ NUL \in T /\ q \in Seq(T) /\ p \in Nat /\ p >= 2 /\ Len(q) \in Nat
          /\ v = <<q \o Padding(p)>> /\ l = Len(q) + p
          /\ \A j \in 1 .. Len(texts) : Pieces(texts[j]) \in Seq(Seq(T))
      <4>1. q \in Seq(T) => Len(q) \in Nat
        OBVIOUS
      <4>2. QED
        BY <3>1, <4>1 DEF Holds
    <3>3. sp = Len(q) + (p - 1) /\ sp # 0 /\ p - 1 \in 0 .. p /\ p - 1 \in Nat
      BY <1>2, <3>2
    <3>4. PICK r, t : r = SubSeq(v[1], 1, sp) /\ t = s
      OBVIOUS
    <3>5. r = q \o Padding(p - 1) /\ (p = 2 => r = Append(q, NUL))
      <4>1. PICK e : e = p - 1 /\ e \in 0 .. p /\ e \in Nat /\ sp = Len(q) + e /\ (p = 2 => e = 1)
        BY <3>2, <3>3
      <4>2. v[1] = q \o Padding(p)
        BY <3>2
      <4> HIDE DEF sp
      <4>3. SubSeq(q \o Padding(p), 1, Len(q) + e) = q \o Padding(e) /\ (e = 1 => q \o Padding(e) = Append(q, NUL))
        BY <3>2, <4>1, PaddedPrefix
      <4>4. QED
        BY <3>4, <4>1, <4>2, <4>3
    <3>6. r \in Seq(T) /\ Len(r) = sp
      <4>1. PICK e : e = p - 1 /\ e \in Nat /\ sp = Len(q) + e
        BY <3>3
      <4> HIDE DEF sp
      <4>2. q \o Padding(e) \in Seq(T) /\ Len(q \o Padding(e)) = Len(q) + e
        BY <3>2, <4>1, PaddedIs
      <4>3. QED
        BY <3>5, <4>1, <4>2
    <3>7. t = r \o Unquoted(val)
      BY <1>2, <3>3, <3>4
    <3>8. PICK c : c = m /\ c = Len(r) + Len(val) + 2
      BY <3>6
    <3>9. ASSUME \A j \in 1 .. Len(texts) : NoApostrophe(texts[j])
          PROVE  /\ Split(r \o Unquoted(val)) = Flat(texts) \o Pieces(val)
                 /\ (\A j \in 1 .. Len(texts) : NoEmptyPiece(texts[j])) => Full(Flat(texts))
      <4>1. Len(texts) \in Nat /\ Len(texts) > 0
        BY <2>2, ListIs
      <4>2. /\ \A j \in 1 .. Len(texts) - 1 : j \in 1 .. Len(texts)
            /\ Len(texts) \in 1 .. Len(texts)
        BY <4>1
      <4>3. /\ Split(q) = Flat(texts) /\ p = 2
            /\ (\A j \in 1 .. Len(texts) : NoEmptyPiece(texts[j])) => Full(Split(q))
        BY <3>1, <3>9, <4>2 DEF Holds
      <4>4. Split(Append(q, NUL) \o Unquoted(val)) = Split(q) \o Split(Unquoted(val))
        <5>1. PICK B, u : B = T \cup A /\ u = Unquoted(val)
          OBVIOUS
        <5>2. T \subseteq B /\ A \subseteq B
          BY <5>1
        <5>3. Seq(T) \subseteq Seq(B) /\ Seq(A) \subseteq Seq(B)
          BY <5>2, SeqMore
        <5>4. NUL \in B /\ q \in Seq(B) /\ u \in Seq(B)
          BY <1>4, <3>2, <5>1, <5>2, <5>3
        <5>5. Split(Append(q, NUL) \o u) = Split(q) \o Split(u)
          BY <5>4, SplitConcat
        <5>6. QED
          BY <5>1, <5>5
      <4>5. QED
        BY <1>4, <3>5, <4>3, <4>4
    <3> HIDE DEF s, m, o, sp, w
    <3>10. \E U, x : Holds(<<t \o Padding(c - Len(t))>>, c, Append(texts, val), U, t, x)
      BY <3>2, <3>6, <3>7, <3>8, <3>9, HoldsNext
    <3>11. QED
      BY <3>4, <3>8, <3>10 DEF w
  <2>3. QED
    BY <2>1, <2>2
<1>6. Filled(w, m, Append(texts, val))
  <2> HIDE DEF w, m, s, sp, o
  <2>1. QED
    BY <1>3, <1>5 DEF Filled
<1>7. [o EXCEPT !.length = m, !.value = w] = Row(w, n, m, f, a)
  <2>1. PICK x, y, z, u : x = w /\ y = m /\ z = o /\ u = [z EXCEPT !.length = y, !.value = x]
    <3> HIDE DEF w, m, s, sp, o
    <3>1. QED
      OBVIOUS
  <2>2. z = Row(v, n, l, f, a)
    BY <2>1
  <2> HIDE DEF w, m, s, sp, o
  <2>3. u = Row(x, n, y, f, a)
    <3>1. u = [z EXCEPT !.length = y, !.value = x]
      BY <2>1
    <3>2. QED
      BY <2>2, <3>1 DEF Row
  <2>4. QED
    BY <2>1, <2>3
<1> HIDE DEF w, m, s, sp
<1>8. QED
  BY <1>1, <1>6, <1>7

(***************************************************************************)
(* The texts that count, one by one.                                        *)
(***************************************************************************)
Start(g) ==
  IF { j \in DOMAIN g : g[j][1] = "--" } = {} \/ g[1][1] = "--" THEN 1
  ELSE Min({ j \in DOMAIN g : g[j][1] = "--" })

AllAdd(g) == \A j \in DOMAIN g : g[j][1] # "--"

(* Where they begin.                                                        *)
LEMMA StartIs ==
  ASSUME NEW g, IsList(g)
  PROVE  /\ Start(g) \in Nat /\ Start(g) >= 1 /\ Start(g) <= Len(g) + 1
         /\ g # <<>> => Start(g) <= Len(g)
         /\ g = <<>> \/ AllAdd(g) => Start(g) = 1
         /\ \A m \in 1 .. Len(g) :
              g[1][1] # "--" /\ g[m][1] = "--" /\ (\A j \in 1 .. Len(g) : g[j][1] = "--" => m <= j)
              => Start(g) = m
         /\ g[1][1] = "--" => Start(g) = 1
         /\ g[1][1] # "--" /\ ~AllAdd(g) =>
              g[Start(g)][1] = "--" /\ \A j \in 1 .. Len(g) : g[j][1] = "--" => Start(g) <= j
<1> DEFINE S == { j \in DOMAIN g : g[j][1] = "--" }
<1>1. Len(g) \in Nat /\ DOMAIN g = 1 .. Len(g) /\ (g # <<>> <=> Len(g) > 0)
  BY ListIs
<1>2. S \subseteq Nat /\ S \subseteq 1 .. Len(g) /\ (S = {} <=> AllAdd(g))
  BY <1>1 DEF AllAdd
<1>3. S # {} => Min(S) \in S /\ \A j \in S : Min(S) <= j
  <2> HIDE DEF S
  <2>1. QED
    BY <1>2, MinIs
<1>4. Start(g) = IF S = {} \/ g[1][1] = "--" THEN 1 ELSE Min(S)
  BY DEF Start
<1>5. \A j : j \in S <=> j \in 1 .. Len(g) /\ g[j][1] = "--"
  BY <1>1
<1> HIDE DEF S
<1>6. g = <<>> => AllAdd(g)
  BY DEF AllAdd
<1>7. CASE S = {} \/ g[1][1] = "--"
  BY <1>1, <1>2, <1>4, <1>5, <1>6, <1>7
<1>8. CASE S # {} /\ g[1][1] # "--"
  <2>1. PICK x : x = Start(g) /\ x \in S /\ \A j \in S : x <= j
    BY <1>3, <1>4, <1>8
  <2>2. x \in 1 .. Len(g) /\ g[x][1] = "--" /\ x \in Nat /\ x >= 1 /\ x <= Len(g)
    BY <1>1, <1>5, <2>1
  <2>3. \A m \in 1 .. Len(g) :
          g[m][1] = "--" /\ (\A j \in 1 .. Len(g) : g[j][1] = "--" => m <= j) => x = m
    BY <1>1, <1>5, <2>1, <2>2
  <2>4. QED
    BY <1>1, <1>2, <1>5, <1>6, <1>8, <2>1, <2>2, <2>3
<1>9. QED
  BY <1>7, <1>8

(* The texts behind the start.                                              *)
LEMMA CountingIs ==
  ASSUME NEW g, IsList(g)
  PROVE  /\ Counting(g) = [j \in 1 .. Len(g) + 1 - Start(g) |-> g[Start(g) + j - 1][2]]
         /\ IsList(Counting(g)) /\ Len(Counting(g)) = Len(g) + 1 - Start(g)
         /\ Counting(g) = <<>> <=> g = <<>>
<1>1. PICK n, c : n = Len(g) + 1 - Start(g) /\ c = [j \in 1 .. n |-> g[Start(g) + j - 1][2]]
  OBVIOUS
<1>2. Counting(g) = c
  BY <1>1 DEF Counting, Start
<1>3. n \in Nat /\ (n = 0 <=> g = <<>>)
  BY <1>1, StartIs, ListIs
<1>4. IsList(c) /\ Len(c) = n
  <2>1. c = [j \in 1 .. n |-> c[j]] /\ DOMAIN c = 1 .. n
    BY <1>1
  <2>2. c \in [1 .. n -> {c[j] : j \in DOMAIN c}]
    BY <2>1
  <2>3. PICK X : X = {c[j] : j \in DOMAIN c}
    OBVIOUS
  <2>4. c \in [1 .. n -> X]
    BY <2>2, <2>3
  <2>5. c \in Seq(X) /\ Len(c) = n
    BY <1>3, <2>4
  <2>6. QED
    BY <2>3, <2>5 DEF IsList
<1>5. c = <<>> <=> n = 0
  BY <1>3, <1>4, ListIs
<1>6. QED
  BY <1>1, <1>2, <1>3, <1>4, <1>5

(* One more is given.                                                       *)
LEMMA CountingNext ==
  ASSUME NEW g, IsList(g), NEW sign, NEW val
  PROVE  /\ Counting(Append(g, <<sign, val>>)) =
              IF g # <<>> /\ AllAdd(g) /\ sign = "--" THEN <<val>> ELSE Append(Counting(g), val)
         /\ AllAdd(Append(g, <<sign, val>>)) <=> AllAdd(g) /\ sign # "--"
<1>1. PICK e, h, m, M : /\ e = <<sign, val>> /\ h = Append(g, e) /\ m = Len(g) /\ M = m + 1
  OBVIOUS
<1>2. /\ IsList(h) /\ m \in Nat /\ M \in Nat /\ DOMAIN g = 1 .. m /\ Len(h) = M /\ DOMAIN h = 1 .. M
      /\ h[M] = e /\ \A j \in 1 .. m : h[j] = g[j]
  <2>1. PICK X : g \in Seq(X)
    BY DEF IsList
  <2>2. /\ Append(g, e) = [j \in 1 .. Len(g) + 1 |-> IF j = Len(g) + 1 THEN e ELSE g[j]]
        /\ Len(Append(g, e)) = Len(g) + 1
    BY <2>1, AppendIs, ZenonT(30)
  <2>3. Len(h) = M /\ h = [j \in 1 .. M |-> IF j = M THEN e ELSE g[j]]
    BY <1>1, <2>2
  <2>4. m \in Nat /\ DOMAIN g = 1 .. m
    BY <1>1, ListIs
  <2>5. IsList(h)
    BY <1>1, Appended
  <2>6. QED
    BY <1>1, <2>3, <2>4, <2>5
<1>3. h[M][1] = sign /\ h[M][2] = val
  BY <1>1, <1>2
<1>4. \A j \in 1 .. M : j \in 1 .. m \/ j = M
  BY <1>1, <1>2
<1>5. AllAdd(h) <=> AllAdd(g) /\ sign # "--"
  <2>1. \A j \in 1 .. m : j \in 1 .. M
    BY <1>1, <1>2
  <2>2. M \in 1 .. M
    BY <1>1, <1>2
  <2>3. QED
    BY <1>2, <1>3, <1>4, <2>1, <2>2 DEF AllAdd
<1>6. h # <<>> /\ (g = <<>> <=> m = 0)
  BY <1>1, <1>2, ListIs
<1>7. /\ Start(g) \in Nat /\ Start(g) >= 1 /\ Start(g) <= m + 1
      /\ g = <<>> \/ AllAdd(g) => Start(g) = 1
      /\ g[1][1] = "--" => Start(g) = 1
      /\ g[1][1] # "--" /\ ~AllAdd(g) =>
           g[Start(g)][1] = "--" /\ \A j \in 1 .. m : g[j][1] = "--" => Start(g) <= j
      /\ g # <<>> => Start(g) <= m
  BY <1>1, StartIs
<1>8. /\ AllAdd(h) => Start(h) = 1
      /\ h[1][1] = "--" => Start(h) = 1
      /\ \A x \in 1 .. M :
           h[1][1] # "--" /\ h[x][1] = "--" /\ (\A j \in 1 .. M : h[j][1] = "--" => x <= j)
           => Start(h) = x
  BY <1>2, StartIs
<1>9. /\ Counting(g) = [j \in 1 .. m + 1 - Start(g) |-> g[Start(g) + j - 1][2]]
      /\ IsList(Counting(g)) /\ Len(Counting(g)) = m + 1 - Start(g)
  BY <1>1, CountingIs
<1>10. Counting(h) = [j \in 1 .. M + 1 - Start(h) |-> h[Start(h) + j - 1][2]]
  BY <1>2, CountingIs
<1>11. CASE g # <<>> /\ AllAdd(g) /\ sign = "--"
  <2>1. 1 \in 1 .. m /\ h[1] = g[1] /\ g[1][1] # "--"
    <3>1. 1 \in 1 .. m
      BY <1>2, <1>6, <1>11
    <3>2. QED
      BY <1>2, <1>11, <3>1 DEF AllAdd
  <2>2. Start(h) = M
    <3>1. M \in 1 .. M
      BY <1>1, <1>2
    <3>2. \A j \in 1 .. M : h[j][1] = "--" => M <= j
      BY <1>2, <1>4, <1>11 DEF AllAdd
    <3>3. QED
      BY <1>3, <1>8, <1>11, <2>1, <3>1, <3>2
  <2>3. Counting(h) = [j \in 1 .. 1 |-> h[M + j - 1][2]]
    BY <1>2, <1>10, <2>2
  <2>4. Counting(h) = [j \in 1 .. 1 |-> val]
    <3>1. \A j \in 1 .. 1 : M + j - 1 = M
      BY <1>2
    <3>2. QED
      BY <1>3, <2>3, <3>1
  <2>5. QED
    BY <1>1, <1>5, <1>11, <2>4
<1>12. CASE ~(g # <<>> /\ AllAdd(g) /\ sign = "--")
  <2>1. Start(h) = Start(g)
    <3>1. CASE g = <<>>
      <4>1. M = 1 /\ Start(g) = 1 /\ h[1][1] = sign /\ AllAdd(g)
        BY <1>1, <1>3, <1>6, <1>7, <3>1 DEF AllAdd
      <4>2. QED
        BY <1>5, <1>8, <4>1
    <3>2. CASE g # <<>> /\ AllAdd(g)
      BY <1>5, <1>7, <1>8, <1>12, <3>2
    <3>3. CASE g # <<>> /\ ~AllAdd(g)
      <4>1. 1 \in 1 .. m /\ h[1] = g[1]
        <5>1. 1 \in 1 .. m
          BY <1>2, <1>6, <3>3
        <5>2. QED
          BY <1>2, <5>1
      <4>2. CASE g[1][1] = "--"
        BY <1>7, <1>8, <4>1, <4>2
      <4>3. CASE g[1][1] # "--"
        <5>1. PICK x : x = Start(g) /\ x \in 1 .. m /\ g[x][1] = "--"
                       /\ \A j \in 1 .. m : g[j][1] = "--" => x <= j
          BY <1>2, <1>7, <3>3, <4>3
        <5>2. x \in 1 .. M /\ h[x][1] = "--" /\ x <= M
          BY <1>1, <1>2, <5>1
        <5>3. \A j \in 1 .. M : h[j][1] = "--" => x <= j
          BY <1>2, <1>4, <5>1, <5>2
        <5>4. Start(h) = x
          BY <1>8, <4>1, <4>3, <5>2, <5>3
        <5>5. QED
          BY <5>1, <5>4
      <4>4. QED
        BY <4>2, <4>3
    <3>4. QED
      BY <3>1, <3>2, <3>3
  <2>2. PICK x, n, c : /\ x = Start(g) /\ n = m + 1 - x /\ c = Counting(g) /\ n \in Nat /\ x \in Nat
                       /\ x >= 1
    BY <1>2, <1>7
  <2>3. c = [j \in 1 .. n |-> g[x + j - 1][2]] /\ Len(c) = n /\ IsList(c)
    BY <1>9, <2>2
  <2>4. Counting(h) = [j \in 1 .. n + 1 |-> h[x + j - 1][2]]
    <3>1. M + 1 - Start(h) = n + 1
      <4>1. M = m + 1 /\ m \in Nat /\ x \in Nat /\ n = m + 1 - x /\ Start(h) = x
        BY <1>1, <1>2, <2>1, <2>2
      <4>2. QED
        BY <4>1
    <3>2. QED
      BY <1>10, <2>1, <2>2, <3>1
  <2>5. Append(c, val) = [j \in 1 .. n + 1 |-> IF j = n + 1 THEN val ELSE c[j]]
    <3>1. PICK X : c \in Seq(X)
      BY <2>3 DEF IsList
    <3>2. Append(c, val) = [j \in 1 .. Len(c) + 1 |-> IF j = Len(c) + 1 THEN val ELSE c[j]]
      BY <3>1, AppendIs, ZenonT(30)
    <3>3. QED
      BY <2>3, <3>2
  <2>6. ASSUME NEW j \in 1 .. n + 1
        PROVE  h[x + j - 1][2] = IF j = n + 1 THEN val ELSE c[j]
    <3>1. CASE j = n + 1
      <4>1. x + j - 1 = M
        <5>1. M = m + 1 /\ m \in Nat /\ x \in Nat /\ n = m + 1 - x
          BY <1>1, <1>2, <2>2
        <5>2. QED
          BY <3>1, <5>1
      <4>2. QED
        BY <1>3, <3>1, <4>1
    <3>2. CASE j # n + 1
      <4>1. j \in 1 .. n /\ x + j - 1 \in 1 .. m
        BY <1>2, <2>2, <3>2, SMTT(30)
      <4>2. QED
        BY <1>2, <2>3, <3>2, <4>1
    <3>3. QED
      BY <3>1, <3>2
  <2>7. Counting(h) = Append(c, val)
    BY <2>4, <2>5, <2>6
  <2>8. QED
    BY <1>1, <1>5, <1>12, <2>2, <2>7
<1>13. QED
  BY <1>11, <1>12

(* All but what was appended.                                               *)
LEMMA FrontAppend ==
  ASSUME NEW V, NEW a \in Seq(V), NEW e
  PROVE  Front(Append(a, e)) = a
<1>1. PICK n, b, U, c : n = Len(a) /\ b = Append(a, e) /\ U = V \cup {e} /\ c = SubSeq(b, 1, n)
  OBVIOUS
<1>2. n \in Nat /\ b \in Seq(U) /\ Len(b) = n + 1 /\ a \in Seq(U) /\ \A h \in 1 .. n : b[h] = a[h]
  <2>1. V \subseteq U
    BY <1>1
  <2>2. a \in Seq(U)
    BY <2>1, SeqMore
  <2>3. Append(a, e) \in Seq(V \cup {e}) /\ Len(Append(a, e)) = Len(a) + 1
    BY AppendIs
  <2>4. n \in Nat /\ \A h \in 1 .. n : b[h] = a[h]
    BY <1>1
  <2>5. QED
    BY <1>1, <2>2, <2>3, <2>4
<1>3. c \in Seq(U) /\ Len(c) = n /\ \A h \in 1 .. n : c[h] = b[h]
  BY <1>1, <1>2
<1>4. c = a
  BY <1>1, <1>2, <1>3, SameSeq
<1>5. Front(b) = SubSeq(b, 1, n)
  BY <1>2, n + 1 - 1 = n DEF Front
<1>6. QED
  BY <1>1, <1>4, <1>5

(* Elements, and what makes a list of them.                                 *)
Closed(w) == Plain(w) /\ (w = <<>> \/ w[Len(w)] = NUL)
Before(list) == SubSeq(list, 1, MultiSzLength(list))

(* A NUL behind them ends the list.                                         *)
LEMMA ListEnds ==
  ASSUME NEW T, NEW w \in Seq(T), Closed(w), NEW r \in Seq(T), Len(r) >= 1, r[1] = NUL
  PROVE  Before(w \o r) = w /\ MultiSzLength(w \o r) < Len(w \o r)
<1>1. PICK m, n, list : m = Len(w) /\ n = Len(r) /\ list = w \o r /\ m \in Nat /\ n \in Nat /\ n >= 1
  <2>1. Len(w) \in Nat /\ Len(r) \in Nat
    OBVIOUS
  <2>2. QED
    BY <2>1
<1>2. list \in Seq(T) /\ Len(list) = m + n
  BY <1>1
<1>3. \A h \in 1 .. m : list[h] = w[h]
  BY <1>1, <1>2
<1>4. list[m + 1] = NUL
  BY <1>1, <1>2
<1>5. m \in 0 .. Len(list) /\ m < Len(list)
  BY <1>1, <1>2
<1>6. \A j \in 1 .. m : list[j] = NUL => j > 1 /\ list[j - 1] # NUL
  <2>1. SUFFICES ASSUME NEW j \in 1 .. m, list[j] = NUL PROVE j > 1 /\ list[j - 1] # NUL
    OBVIOUS
  <2>2. j > 1 /\ w[j - 1] # NUL
    BY <1>1, <1>3, <2>1 DEF Closed, Plain
  <2>3. j - 1 \in 1 .. m
    BY <1>1, <2>2
  <2>4. QED
    BY <1>3, <2>2, <2>3
<1>7. m = 0 \/ list[m] = NUL
  <2>1. m # 0 => m \in 1 .. m /\ w # <<>>
    BY <1>1
  <2>2. QED
    BY <1>1, <1>3, <2>1 DEF Closed
<1>8. MultiSzLength(list) = m
  BY <1>2, <1>4, <1>5, <1>6, <1>7, LengthIs
<1>9. SubSeq(list, 1, m) = w
  <2>1. PICK c : c = SubSeq(list, 1, m)
    OBVIOUS
  <2>2. c \in Seq(T) /\ Len(c) = m /\ \A h \in 1 .. m : c[h] = list[h]
    BY <1>1, <1>2, <2>1
  <2>3. QED
    BY <1>1, <1>3, <2>1, <2>2, SameSeq
<1>10. QED
  BY <1>1, <1>5, <1>8, <1>9 DEF Before

(* What is before the end of a list.                                        *)
LEMMA BeforeIs ==
  ASSUME NEW T, NEW list \in Seq(T), MultiSzLength(list) < Len(list)
  PROVE  Before(list) \in Seq(T) /\ Closed(Before(list))
<1>1. PICK m, n, w : /\ m = MultiSzLength(list) /\ n = Len(list) /\ w = SubSeq(list, 1, m)
                     /\ n \in Nat /\ m \in 0 .. n
  <2>1. Len(list) \in Nat /\ MultiSzLength(list) \in 0 .. Len(list)
    BY LengthIs
  <2>2. QED
    BY <2>1
<1>2. /\ \A j \in 1 .. m : list[j] = NUL => j > 1 /\ list[j - 1] # NUL
      /\ m = 0 \/ list[m] = NUL
  <2>1. m \in 0 .. n - 1
    BY <1>1
  <2>2. QED
    BY <1>1, <2>1, LengthIs
<1>3. w \in Seq(T) /\ Len(w) = m /\ \A h \in 1 .. m : w[h] = list[h]
  BY <1>1
<1>4. Plain(w)
  <2>1. SUFFICES ASSUME NEW j \in 1 .. m, w[j] = NUL PROVE j > 1 /\ w[j - 1] # NUL
    BY <1>3 DEF Plain
  <2>2. j > 1 /\ list[j - 1] # NUL
    BY <1>2, <1>3, <2>1
  <2>3. j - 1 \in 1 .. m
    BY <1>1, <2>2
  <2>4. QED
    BY <1>3, <2>2, <2>3
<1>5. w = <<>> \/ w[Len(w)] = NUL
  <2>1. m # 0 => m \in 1 .. m
    BY <1>1
  <2>2. m = 0 => w = <<>>
    BY <1>3
  <2>3. QED
    BY <1>2, <1>3, <2>1, <2>2
<1>6. QED
  BY <1>1, <1>3, <1>4, <1>5 DEF Before, Closed

(* Pieces none of which is empty make a list of elements.                   *)
LEMMA FullClosed ==
  ASSUME NEW T, NUL \in T, NEW s \in Seq(T), Full(Split(s))
  PROVE  Append(s, NUL) \in Seq(T) /\ Closed(Append(s, NUL)) /\ Split(Append(s, NUL)) = Append(Split(s), <<>>)
<1>1. PICK u, P, Q, e0, V : u = Append(s, NUL) /\ P = Split(s) /\ Q = Split(u) /\ e0 = <<>> /\ V = Seq(T)
  OBVIOUS
<1>2. u \in Seq(T) /\ Len(u) = Len(s) + 1 /\ u[Len(u)] = NUL
  BY <1>1
<1>3. P \in Seq(V) /\ Len(P) \in Nat
  <2>1. P \in Seq(V)
    BY <1>1, SplitIs
  <2>2. QED
    BY <2>1
<1>4. Q = Append(P, e0)
  BY <1>1, SplitAppend
<1>5. Len(Q) - 1 = Len(P) /\ \A e \in 1 .. Len(P) : Q[e] = P[e]
  <2>1. /\ Append(P, e0) = [e \in 1 .. Len(P) + 1 |-> IF e = Len(P) + 1 THEN e0 ELSE P[e]]
        /\ Len(Append(P, e0)) = Len(P) + 1
    BY <1>3, AppendIs, ZenonT(30)
  <2>2. QED
    BY <1>3, <1>4, <2>1
<1>6. Plain(u)
  <2>1. \A e \in 1 .. Len(Q) - 1 : Q[e] # <<>>
    BY <1>1, <1>5 DEF Full
  <2>2. QED
    BY <1>1, <1>2, <2>1, PlainIs
<1>7. QED
  BY <1>1, <1>2, <1>4, <1>6 DEF Closed

(* A list of elements behind another.                                       *)
LEMMA ClosedConcat ==
  ASSUME NEW T, NEW a \in Seq(T), NEW b \in Seq(T), Closed(a), Closed(b), b # <<>>
  PROVE  Closed(a \o b) /\ a \o b \in Seq(T)
<1>1. PICK m, n, c : m = Len(a) /\ n = Len(b) /\ c = a \o b /\ m \in Nat /\ n \in Nat /\ n >= 1
  <2>1. Len(a) \in Nat /\ Len(b) \in Nat /\ Len(b) >= 1
    OBVIOUS
  <2>2. QED
    BY <2>1
<1>2. c \in Seq(T) /\ Len(c) = m + n
  BY <1>1
<1>3. (\A h \in 1 .. m : c[h] = a[h]) /\ (\A h \in 1 .. n : c[m + h] = b[h])
  BY <1>1, <1>2
<1>4. ASSUME NEW j \in 1 .. m + n, c[j] = NUL PROVE j > 1 /\ c[j - 1] # NUL
  <2>1. CASE j \in 1 .. m
    <3>1. j > 1 /\ a[j - 1] # NUL
      BY <1>1, <1>3, <1>4, <2>1 DEF Closed, Plain
    <3>2. j - 1 \in 1 .. m
      BY <1>1, <2>1, <3>1
    <3>3. QED
      BY <1>3, <3>1, <3>2
  <2>2. CASE j \notin 1 .. m
    <3>1. PICK h : h = j - m /\ h \in 1 .. n /\ j = m + h
      BY <1>1, <2>2
    <3>2. b[h] = NUL
      BY <1>3, <1>4, <3>1
    <3>3. h > 1 /\ b[h - 1] # NUL
      BY <1>1, <3>1, <3>2 DEF Closed, Plain
    <3>4. PICK g : g = h - 1 /\ g \in 1 .. n /\ j - 1 = m + g
      <4>1. m \in Nat /\ n \in Nat /\ h \in 1 .. n /\ h > 1 /\ j = m + h
        BY <1>1, <3>1, <3>3
      <4>2. h - 1 \in 1 .. n /\ j - 1 = m + (h - 1) /\ j > 1
        BY <4>1
      <4>3. QED
        BY <4>2
    <3>5. c[j - 1] # NUL
      BY <1>3, <3>3, <3>4
    <3>6. j > 1
      BY <1>1, <3>1, <3>3
    <3>7. QED
      BY <3>5, <3>6
  <2>3. QED
    BY <2>1, <2>2
<1>5. c[m + n] = NUL
  <2>1. n \in 1 .. n
    BY <1>1
  <2>2. QED
    BY <1>1, <1>3, <2>1 DEF Closed
<1>6. Plain(c)
  BY <1>2, <1>4 DEF Plain
<1>7. QED
  BY <1>1, <1>2, <1>5, <1>6 DEF Closed

(* The elements of a list, and of two that were combined.                   *)
LEMMA ElementsAre ==
  ASSUME NEW T, NUL \in T, NEW s \in Seq(T), Full(Split(s)), NEW v, Before(v) = Append(s, NUL)
  PROVE  /\ Elements(v) = Split(s)
         /\ \A old \in Seq(T) : MultiSzLength(old) < Len(old) =>
              Elements(Combine(old, v)) = Elements(old) \o Split(s)
<1>0. PICK u, P, e0, V : u = Append(s, NUL) /\ P = Split(s) /\ e0 = <<>> /\ V = Seq(T)
  OBVIOUS
<1>1. u \in Seq(T) /\ Closed(u) /\ Split(u) = Append(P, e0)
  BY <1>0, FullClosed
<1>2. P \in Seq(V)
  BY <1>0, SplitIs
<1>3. Elements(v) = P
  <2>1. Elements(v) = Front(Split(u))
    BY <1>0 DEF Elements, Before
  <2>2. Front(Append(P, e0)) = P
    BY <1>2, FrontAppend
  <2>3. QED
    BY <1>1, <2>1, <2>2
<1>4. ASSUME NEW old \in Seq(T), MultiSzLength(old) < Len(old)
      PROVE  Elements(Combine(old, v)) = Elements(old) \o P
  <2>1. PICK w, z, list : w = Before(old) /\ z = <<NUL>> /\ list = (w \o u) \o z
    OBVIOUS
  <2>2. w \in Seq(T) /\ Closed(w)
    BY <1>4, <2>1, BeforeIs
  <2>3. Combine(old, v) = list
    <3>1. Combine(old, v) = Before(old) \o Before(v) \o <<NUL>>
      BY DEF Combine, Before
    <3>2. QED
      BY <1>0, <2>1, <3>1
  <2>4. Closed(w \o u) /\ w \o u \in Seq(T)
    <3>1. u # <<>>
      BY <1>0
    <3>2. QED
      BY <1>1, <2>2, <3>1, ClosedConcat
  <2>5. Before(list) = w \o u
    <3>1. z \in Seq(T) /\ Len(z) >= 1 /\ z[1] = NUL
      BY <2>1
    <3>2. QED
      BY <2>1, <2>4, <3>1, ListEnds
  <2>6. Elements(list) = Front(Split(w \o u)) /\ Elements(old) = Front(Split(w))
    BY <2>1, <2>5 DEF Elements, Before
  <2>7. CASE w = <<>>
    <3>1. w \o u = u
      BY <1>1, <2>7
    <3>2. Front(Split(u)) = P
      BY <1>1, <1>2, FrontAppend
    <3>3. Front(Split(w)) = <<>>
      <4>1. PICK x : x = <<>> /\ x \in Seq(V)
        <5>1. <<>> \in Seq(V)
          OBVIOUS
        <5>2. QED
          BY <5>1
      <4>2. Split(w) = Append(x, e0)
        <5>1. <<>> \in Seq(T)
          OBVIOUS
        <5>2. Split(<<>>) = <<<<>>>>
          BY <5>1, SplitIs
        <5>3. Append(<<>>, e0) = <<e0>>
          OBVIOUS
        <5>4. QED
          BY <1>0, <2>7, <4>1, <5>2, <5>3
      <4>3. Front(Append(x, e0)) = x
        BY <4>1, FrontAppend
      <4>4. QED
        BY <4>1, <4>2, <4>3
    <3>4. <<>> \o P = P
      BY <1>2
    <3>5. QED
      BY <2>3, <2>6, <3>1, <3>2, <3>3, <3>4
  <2>8. CASE w # <<>>
    <3>1. PICK r : r \in Seq(T) /\ w = Append(r, NUL)
      <4>1. Len(w) \in Nat /\ Len(w) >= 1 /\ w[Len(w)] = NUL
        BY <2>2, <2>8 DEF Closed
      <4>2. PICK n, r : n = Len(w) - 1 /\ n \in Nat /\ Len(w) = n + 1 /\ r = SubSeq(w, 1, n)
        BY <4>1, Len(w) - 1 \in Nat, Len(w) = Len(w) - 1 + 1
      <4>3. r \in Seq(T) /\ Len(r) = n /\ \A h \in 1 .. n : r[h] = w[h]
        BY <2>2, <4>2
      <4>4. PICK q : q = Append(r, NUL)
        OBVIOUS
      <4>5. q \in Seq(T) /\ Len(q) = n + 1 /\ \A h \in 1 .. n + 1 : q[h] = IF h = n + 1 THEN NUL ELSE r[h]
        BY <4>2, <4>3, <4>4
      <4>6. \A h \in 1 .. n + 1 : q[h] = w[h]
        <5>1. \A h \in 1 .. n + 1 : h = n + 1 \/ h \in 1 .. n
          BY <4>2
        <5>2. QED
          BY <4>1, <4>2, <4>3, <4>5, <5>1
      <4>7. q = w
        BY <2>2, <4>2, <4>5, <4>6, SameSeq
      <4>8. QED
        BY <4>3, <4>4, <4>7
    <3>2. PICK R : R = Split(r) /\ R \in Seq(V)
      BY <1>0, <3>1, SplitIs
    <3>3. Split(w) = Append(R, e0)
      BY <1>0, <3>1, <3>2, SplitAppend
    <3>4. Split(w \o u) = R \o Append(P, e0)
      BY <1>1, <3>1, <3>2, SplitConcat
    <3>5. R \o Append(P, e0) = Append(R \o P, e0)
      BY <1>2, <3>2, ConcatAppend
    <3>6. R \o P \in Seq(V)
      BY <1>2, <3>2
    <3>7. Front(Append(R \o P, e0)) = R \o P
      BY <3>6, FrontAppend
    <3>8. Front(Append(R, e0)) = R
      BY <3>2, FrontAppend
    <3>9. QED
      BY <2>3, <2>6, <3>3, <3>4, <3>5, <3>7, <3>8
  <2>9. QED
    BY <2>7, <2>8
<1>5. QED
  BY <1>0, <1>3, <1>4

Clean(texts) == \A j \in DOMAIN texts : NoEmptyPiece(texts[j]) /\ (j < Len(texts) => NoApostrophe(texts[j]))

(* A buffer whose texts are clean has their pieces.                         *)
LEMMA HoldsElements ==
  ASSUME NEW texts, IsList(texts), texts # <<>>, Clean(texts), NEW value, NEW length, Filled(value, length, texts)
  PROVE  \E T, s : /\ NUL \in T /\ s \in Seq(T) /\ Full(Split(s)) /\ Split(s) = Flat(texts)
                   /\ Before(value[1]) = Append(s, NUL) /\ value # Null
<1>1. PICK T, s, p : Holds(value, length, texts, T, s, p)
  BY DEF Filled
<1>2. Len(texts) \in Nat /\ DOMAIN texts = 1 .. Len(texts)
  BY ListIs
<1>3. /\ \A j \in 1 .. Len(texts) - 1 : NoApostrophe(texts[j])
      /\ \A j \in 1 .. Len(texts) : NoEmptyPiece(texts[j])
  <2>1. \A j \in 1 .. Len(texts) - 1 : j \in 1 .. Len(texts) /\ j < Len(texts)
    BY <1>2
  <2>2. QED
    BY <1>2, <2>1 DEF Clean
<1>4. /\ NUL \in T /\ s \in Seq(T) /\ p \in Nat /\ p >= 2 /\ value = <<s \o Padding(p)>>
      /\ Split(s) = Flat(texts) /\ Full(Split(s))
  BY <1>1, <1>3 DEF Holds
<1>5. PICK q : q = p - 1 /\ q \in Nat /\ q >= 1 /\ p = q + 1
  BY <1>4, p - 1 \in Nat, p - 1 >= 1
<1>6. PICK u, b : u = Append(s, NUL) /\ b = Padding(q)
  OBVIOUS
<1>7. u \in Seq(T) /\ Closed(u) /\ Len(u) = Len(s) + 1 /\ Len(s) \in Nat
  <2>1. u \in Seq(T) /\ Closed(u)
    BY <1>4, <1>6, FullClosed
  <2>2. Len(u) = Len(s) + 1 /\ Len(s) \in Nat
    BY <1>4, <1>6
  <2>3. QED
    BY <2>1, <2>2
<1>8. b \in Seq(T) /\ Len(b) = q /\ b[1] = NUL /\ \A h \in 1 .. q : b[h] = NUL
  <2>1. b = [j \in 1 .. q |-> NUL]
    BY <1>6 DEF Padding
  <2>2. b \in [1 .. q -> T]
    BY <1>4, <2>1
  <2>3. b \in Seq(T) /\ Len(b) = q
    BY <1>5, <2>2, <2>1
  <2>4. 1 \in 1 .. q
    BY <1>5
  <2>5. QED
    BY <2>1, <2>3, <2>4
<1>9. s \o Padding(p) = u \o b
  <2>1. PICK x, y, n : x = s \o Padding(p) /\ y = u \o b /\ n = Len(s) /\ n \in Nat
    BY <1>7
  <2>2. /\ x \in Seq(T) /\ Len(x) = n + p
        /\ \A h \in 1 .. n + p : x[h] = IF h <= n THEN s[h] ELSE NUL
    BY <1>4, <2>1, PaddedIs
  <2>3. y \in Seq(T) /\ Len(y) = n + p
    <3>1. y \in Seq(T) /\ Len(y) = Len(u) + Len(b)
      <4>1. u \in Seq(T) /\ b \in Seq(T)
        BY <1>7, <1>8
      <4>2. u \o b \in Seq(T) /\ Len(u \o b) = Len(u) + Len(b)
        BY <4>1
      <4>3. QED
        BY <2>1, <4>2
    <3>2. QED
      BY <1>5, <1>7, <1>8, <2>1, <3>1
  <2>4. ASSUME NEW h \in 1 .. n + p PROVE y[h] = x[h]
    <3>1. CASE h <= n
      <4>1. h \in 1 .. n /\ h \in 1 .. Len(u)
        BY <1>7, <2>1, <3>1
      <4>2. y[h] = u[h] /\ u[h] = s[h]
        BY <1>4, <1>6, <1>7, <1>8, <2>1, <4>1
      <4>3. QED
        BY <2>2, <3>1, <4>2
    <3>2. CASE h = n + 1
      <4>1. h \in 1 .. Len(u) /\ ~(h <= n)
        BY <1>7, <2>1, <3>2
      <4>2. y[h] = u[h] /\ u[h] = NUL
        BY <1>4, <1>6, <1>7, <1>8, <2>1, <3>2, <4>1
      <4>3. QED
        BY <2>2, <4>1, <4>2
    <3>3. CASE ~(h <= n) /\ h # n + 1
      <4>1. PICK g : g = h - Len(u) /\ g \in 1 .. q /\ ~(h <= Len(u))
        BY <1>5, <1>7, <2>1, <3>3
      <4>2. y[h] = b[h - Len(u)]
        BY <1>5, <1>7, <1>8, <2>1, <2>3, <4>1, SMTT(30)
      <4>3. b[g] = NUL
        BY <1>8, <4>1
      <4>4. QED
        BY <2>2, <3>3, <4>1, <4>2, <4>3
    <3>4. QED
      BY <3>1, <3>2, <3>3
  <2>5. QED
    BY <2>1, <2>2, <2>3, <2>4, SameSeq
<1>10. Before(u \o b) = u
  BY <1>5, <1>7, <1>8, ListEnds
<1>11. value[1] = u \o b /\ value # Null
  BY <1>4, <1>9 DEF Null
<1>12. QED
  BY <1>4, <1>6, <1>10, <1>11

(***************************************************************************)
(* The row of a list.                                                       *)
(***************************************************************************)
(* It holds the texts, says whether there are any and whether to add them.  *)
Tells(name, texts, adds, o) ==
  Kind[name] = "msz" =>
    /\ IsList(texts) /\ Filled(o.value, o.length, texts)
    /\ o.found <=> texts # <<>>
    /\ o.add <=> texts # <<>> /\ adds

Signed(g) == \A j \in DOMAIN g : g[j][1] \in {"--", "++"}

(* No text yet.                                                             *)
LEMMA NoneIs == IsList(<<>>) /\ Filled(Null, 0, <<>>) /\ Append(<<>>, Null) # <<>>
                /\ \A t : Append(<<>>, t) = <<t>>
BY DEF IsList, Filled, Null

(* Another value of an option, after the mark for its sign.                 *)
LEMMA OptionTells ==
  ASSUME NEW name \in Names, NEW o, IsRow(o), NEW g, IsList(g), NEW val, IsText(val),
         NEW sign \in {"--", "++"}, Tells(name, Counting(g), AllAdd(g), o)
  PROVE  Tells(name, Counting(Append(g, <<sign, val>>)), AllAdd(Append(g, <<sign, val>>)),
               [Put(Mark(o, sign), name, val) EXCEPT !.found = TRUE])
<1>0. SUFFICES ASSUME Kind[name] = "msz"
               PROVE  Tells(name, Counting(Append(g, <<sign, val>>)), AllAdd(Append(g, <<sign, val>>)),
                            [Put(Mark(o, sign), name, val) EXCEPT !.found = TRUE])
  BY DEF Tells
<1>1. PICK v, n, l, a : \E f \in BOOLEAN : o = Row(v, n, l, f, a)
  BY RowIs
<1>2. PICK f \in BOOLEAN : o = Row(v, n, l, f, a)
  BY <1>1
<1>3. o.value = v /\ o.length = l /\ o.found = f /\ o.add = a
  BY <1>2 DEF Row
<1>4. PICK texts, h, s2 : texts = Counting(g) /\ h = Append(g, <<sign, val>>) /\ s2 = Counting(h)
  OBVIOUS
<1>5. /\ s2 = IF g # <<>> /\ AllAdd(g) /\ sign = "--" THEN <<val>> ELSE Append(texts, val)
      /\ AllAdd(h) <=> AllAdd(g) /\ sign # "--"
  BY <1>4, CountingNext
<1>6. IsList(texts) /\ (texts = <<>> <=> g = <<>>)
  BY <1>4, CountingIs
<1>7. /\ Filled(v, l, texts)
      /\ o.found <=> g # <<>>
      /\ o.add <=> g # <<>> /\ AllAdd(g)
  BY <1>0, <1>3, <1>4, <1>6 DEF Tells
<1>8. g = <<>> => AllAdd(g)
  BY DEF AllAdd
<1>9. \E v2, n2, l2, f2, a2, t2 :
        /\ Mark(o, sign) = Row(v2, n2, l2, f2, a2) /\ Filled(v2, l2, t2) /\ IsList(t2)
        /\ s2 = Append(t2, val) /\ (a2 <=> AllAdd(h))
  <2>1. CASE sign = "++" /\ o.found
    <3>1. Mark(o, sign) = o
      BY <2>1 DEF Mark
    <3>2. s2 = Append(texts, val)
      BY <1>5, <2>1
    <3>3. a <=> AllAdd(h)
      BY <1>3, <1>5, <1>7, <2>1
    <3>4. QED
      BY <1>2, <1>6, <1>7, <3>1, <3>2, <3>3
  <2>2. CASE sign = "++" /\ ~o.found
    <3>1. Mark(o, sign) = [o EXCEPT !.add = Yes]
      BY <2>2 DEF Mark, Yes
    <3>2. Mark(o, sign) = Row(v, n, l, f, Yes)
      BY <1>2, <3>1, RowSet
    <3>3. s2 = Append(texts, val)
      BY <1>5, <2>2
    <3>4. Yes <=> AllAdd(h)
      BY <1>5, <1>7, <1>8, <2>2 DEF Yes
    <3>5. QED
      BY <1>6, <1>7, <3>2, <3>3, <3>4
  <2>3. CASE sign = "--" /\ o.add
    <3>1. Mark(o, sign) = [NotGiven EXCEPT !.found = o.found]
      BY <2>3 DEF Mark
    <3>2. NotGiven = Row(Null, 0, 0, No, No)
      BY DEF NotGiven, Row, No
    <3>3. Mark(o, sign) = Row(Null, 0, 0, f, No)
      <4>1. Mark(o, sign) = [NotGiven EXCEPT !.found = f]
        BY <1>3, <3>1
      <4>2. QED
        BY <3>2, <4>1 DEF Row
    <3>4. s2 = <<val>>
      BY <1>5, <1>7, <2>3
    <3>5. No <=> AllAdd(h)
      BY <1>5, <2>3 DEF No
    <3>6. s2 = Append(<<>>, val)
      BY <3>4, NoneIs
    <3>7. QED
      BY <3>3, <3>5, <3>6, NoneIs
  <2>4. CASE sign = "--" /\ ~o.add
    <3>1. Mark(o, sign) = o
      BY <2>4 DEF Mark
    <3>2. s2 = Append(texts, val)
      BY <1>5, <1>7, <2>4
    <3>3. a <=> AllAdd(h)
      BY <1>3, <1>5, <2>4
    <3>4. QED
      BY <1>2, <1>6, <1>7, <3>1, <3>2, <3>3
  <2>5. QED
    BY <2>1, <2>2, <2>3, <2>4
<1>10. PICK v2, n2, l2, f2, a2, t2 :
         /\ Mark(o, sign) = Row(v2, n2, l2, f2, a2) /\ Filled(v2, l2, t2) /\ IsList(t2)
         /\ s2 = Append(t2, val) /\ (a2 <=> AllAdd(h))
  BY <1>9
<1>11. PICK w, m : /\ AppendList(Row(v2, n2, l2, f2, a2), val) = Row(w, n2, m, f2, a2)
                   /\ Filled(w, m, Append(t2, val))
  BY <1>10, AppendListIs
<1>12. Put(Mark(o, sign), name, val) = Row(w, n2, m, f2, a2)
  BY <1>0, <1>10, <1>11 DEF Put
<1>13. PICK p : p = [Put(Mark(o, sign), name, val) EXCEPT !.found = TRUE]
  OBVIOUS
<1>14. p = Row(w, n2, m, Yes, a2)
  <2>1. PICK q : q = Put(Mark(o, sign), name, val)
    OBVIOUS
  <2>2. p = [q EXCEPT !.found = Yes]
    BY <1>13, <2>1 DEF Yes
  <2>3. q = Row(w, n2, m, f2, a2)
    BY <1>12, <2>1
  <2>4. QED
    BY <2>2, <2>3 DEF Row
<1>15. p.value = w /\ p.length = m /\ p.found = Yes /\ p.add = a2
  BY <1>14 DEF Row
<1>16. IsList(s2) /\ s2 # <<>>
  BY <1>10, Appended
<1>17. (p.found <=> s2 # <<>>) /\ (p.add <=> s2 # <<>> /\ AllAdd(h))
  BY <1>10, <1>15, <1>16 DEF Yes
<1>18. Tells(name, s2, AllAdd(h), p)
  BY <1>10, <1>11, <1>15, <1>16, <1>17 DEF Tells
<1>19. QED
  BY <1>4, <1>13, <1>18

(* A variable replaces them.                                                *)
LEMMA EnvTells ==
  ASSUME NEW name \in Names, NEW o, IsRow(o), IsList(given[name]), Signed(given[name]),
         Kind[name] = "msz", Tells(name, Counting(given[name]), AllAdd(given[name]), o),
         Prevails(name) <=> env[name] # Null /\ Fits(env[name][1]),
         Prevails(name) => IsText(env[name][1])
  PROVE  Tells(name, Texts(name), Adds(name), FromEnv(name, o))
<1>1. CASE ~Prevails(name)
  <2>1. FromEnv(name, o) = o /\ Texts(name) = Counting(given[name])
    BY <1>1 DEF FromEnv, Texts
  <2>2. AllAdd(given[name]) <=> OnlyAdds(given[name])
    BY DEF AllAdd, OnlyAdds, Signed
  <2>3. Adds(name) <=> AllAdd(given[name])
    BY <1>1, <2>2 DEF Adds
  <2>4. QED
    BY <2>1, <2>3 DEF Tells
<1>2. CASE Prevails(name)
  <2>1. PICK t, texts : t = env[name][1] /\ texts = Texts(name) /\ texts = Append(<<>>, t) /\ IsText(t)
    BY <1>2, NoneIs DEF Texts
  <2>2. NotGiven = Row(Null, 0, 0, No, No)
    BY DEF NotGiven, Row, No
  <2>3. PICK w, m : /\ AppendList(Row(Null, 0, 0, No, No), t) = Row(w, 0, m, No, No)
                    /\ Filled(w, m, Append(<<>>, t))
    <3>1. PICK e, z, u, x, b : /\ e = <<>> /\ z = Null /\ u = 0 /\ x = Append(<<>>, t) /\ x = Append(e, t)
                               /\ IsList(e) /\ Filled(z, u, e) /\ b = No
      BY NoneIs
    <3>2. IsText(t)
      BY <2>1
    <3>3. \E w, m : AppendList(Row(z, u, u, b, b), t) = Row(w, u, m, b, b) /\ Filled(w, m, Append(e, t))
      <4>1. IsList(e) /\ Filled(z, u, e)
        BY <3>1
      <4>2. QED
        BY <3>2, <4>1, AppendListIs
    <3>4. QED
      BY <3>1, <3>3
  <2>4. PICK q : q = AppendList(NotGiven, t) /\ q = Row(w, 0, m, No, No)
    BY <2>2, <2>3
  <2>5. PICK p : p = [q EXCEPT !.found = TRUE, !.add = TRUE] /\ p = FromEnv(name, o)
    BY <1>2, <2>1, <2>4 DEF FromEnv
  <2>6. p = Row(w, 0, m, Yes, Yes)
    <3>1. p = [q EXCEPT !.found = Yes, !.add = Yes]
      BY <2>5 DEF Yes
    <3>2. q = Row(w, 0, m, No, No)
      BY <2>4
    <3>3. QED
      BY <3>1, <3>2 DEF Row
  <2>7. p.value = w /\ p.length = m /\ p.found = Yes /\ p.add = Yes
    BY <2>6 DEF Row
  <2>8. texts # <<>> /\ IsList(texts) /\ Adds(name)
    BY <1>2, <2>1, NoneIs, Appended DEF Adds
  <2>9. QED
    BY <2>1, <2>3, <2>5, <2>7, <2>8 DEF Tells, Yes
<1>3. QED
  BY <1>1, <1>2

(* No text, no piece; a list that is empty has no element.                  *)
LEMMA NothingIs ==
  /\ \A texts : texts = <<>> => Flat(texts) = <<>>
  /\ MultiSzLength(<<NUL>>) < Len(<<NUL>>) /\ Elements(<<NUL>>) = <<>>
<1>1. ASSUME NEW texts, texts = <<>> PROVE Flat(texts) = <<>>
  <2>1. [j \in DOMAIN texts |-> Pieces(texts[j])] = <<>>
    BY <1>1
  <2>2. FlattenSeq(<<>>) = <<>>
    BY DEF FlattenSeq
  <2>3. QED
    BY <2>1, <2>2 DEF Flat
<1>2. PICK T, w, r, list : T = {NUL} /\ w = <<>> /\ r = <<NUL>> /\ list = <<NUL>>
  OBVIOUS
<1>3. w \in Seq(T) /\ r \in Seq(T) /\ Len(r) >= 1 /\ r[1] = NUL /\ w \o r = list
  BY <1>2
<1>4. Closed(w)
  BY <1>2 DEF Closed, Plain
<1>5. Before(list) = w /\ MultiSzLength(list) < Len(list)
  BY <1>3, <1>4, ListEnds
<1>6. Elements(list) = <<>>
  <2>1. Elements(list) = Front(Split(w))
    BY <1>5 DEF Elements, Before
  <2>2. PICK x, e0 : x = <<>> /\ e0 = <<>> /\ x \in Seq(T)
    BY <1>2, <1>3
  <2>3. Split(<<>>) = <<<<>>>>
    BY <1>2, <1>3, SplitIs
  <2>4. Split(w) = Append(x, e0)
    <3>1. Append(<<>>, e0) = <<e0>>
      OBVIOUS
    <3>2. QED
      BY <1>2, <2>2, <2>3, <3>1
  <2>5. Front(Append(x, e0)) = x
    BY <2>2, FrontAppend
  <2>6. QED
    BY <2>1, <2>2, <2>4, <2>5
<1>7. QED
  BY <1>1, <1>2, <1>5, <1>6

(* The elements of a list are a sequence.                                   *)
LEMMA ElementsSeq ==
  ASSUME NEW list, IsMultiSz(list)
  PROVE  \E V : Elements(list) \in Seq(V)
<1>1. PICK T : list \in Seq(T)
  BY DEF IsMultiSz
<1>2. MultiSzLength(list) < Len(list)
  BY DEF IsMultiSz
<1>3. PICK w, P, V : w = Before(list) /\ P = Split(w) /\ V = Seq(T)
  OBVIOUS
<1>4. w \in Seq(T)
  BY <1>1, <1>2, <1>3, BeforeIs
<1>5. P \in Seq(V) /\ Len(P) >= 1
  BY <1>3, <1>4, SplitIs
<1>6. SubSeq(P, 1, Len(P) - 1) \in Seq(V)
  BY <1>5
<1>7. QED
  BY <1>3, <1>6 DEF Elements, Before, Front

(* The list of an option is what PiecesKept says.                           *)
AllPieces(name, o) ==
  Kind[name] = "msz" /\ Clean(Texts(name)) =>
    (IF o.value = Null THEN <<>> ELSE Elements(o.value[1])) =
    (IF Adds(name) THEN Stored(name) ELSE <<>>) \o Flat(Texts(name))

(* It is when the registry was read.                                        *)
LEMMA LoadPieces ==
  ASSUME NEW name \in Names, NEW o, IsRow(o), IsList(given[name]),
         Tells(name, Texts(name), Adds(name), o),
         Kind[name] = "msz" /\ reg[name] # Null => IsMultiSz(reg[name][1])
  PROVE  AllPieces(name, FromRegistry(name, o))
<1>0. SUFFICES ASSUME Kind[name] = "msz", Clean(Texts(name))
               PROVE  LET p == FromRegistry(name, o) IN
                      (IF p.value = Null THEN <<>> ELSE Elements(p.value[1])) =
                      (IF Adds(name) THEN Stored(name) ELSE <<>>) \o Flat(Texts(name))
  BY DEF AllPieces
<1>1. PICK p, stored, old, texts :
        /\ p = FromRegistry(name, o) /\ stored = reg[name] /\ texts = Texts(name)
        /\ old = IF stored = Null THEN <<NUL>> ELSE stored[1]
  OBVIOUS
<1>2. /\ IsList(texts) /\ Filled(o.value, o.length, texts) /\ Clean(texts)
      /\ o.found <=> texts # <<>>
      /\ o.add <=> texts # <<>> /\ Adds(name)
  BY <1>0, <1>1 DEF Tells
<1>3. PICK v, n, l, a : \E f \in BOOLEAN : o = Row(v, n, l, f, a)
  BY RowIs
<1>4. PICK f \in BOOLEAN : o = Row(v, n, l, f, a)
  BY <1>3
<1>5. old \in Seq(ToSet(old)) /\ MultiSzLength(old) < Len(old) /\ Elements(old) = Stored(name)
  <2>1. CASE stored = Null
    <3>1. old = <<NUL>>
      BY <1>1, <2>1
    <3>2. <<NUL>> \in Seq({NUL}) /\ ToSet(<<NUL>>) = {NUL}
      BY DEF ToSet
    <3>3. Stored(name) = <<>>
      BY <1>1, <2>1 DEF Stored
    <3>4. QED
      BY <3>1, <3>2, <3>3, NothingIs
  <2>2. CASE stored # Null
    BY <1>0, <1>1, <2>2 DEF IsMultiSz, Stored
  <2>3. QED
    BY <2>1, <2>2
<1>6. CASE ~o.found
  <2>1. p = [o EXCEPT !.value = stored]
    BY <1>0, <1>1, <1>6 DEF FromRegistry
  <2>2. p = Row(stored, n, l, f, a)
    BY <1>4, <2>1 DEF Row
  <2>3. p.value = stored
    BY <2>2 DEF Row
  <2>4. texts = <<>>
    BY <1>2, <1>6
  <2>5. Adds(name)
    <3>1. ~Prevails(name) => Counting(given[name]) = <<>>
      BY <1>1, <2>4 DEF Texts
    <3>2. ~Prevails(name) => given[name] = <<>>
      BY <3>1, CountingIs
    <3>3. QED
      BY <3>2 DEF Adds, OnlyAdds
  <2>6. Flat(texts) = <<>>
    BY <2>4, NothingIs
  <2>7. PICK q, V : q = Stored(name) /\ q \in Seq(V)
    <3>1. CASE stored = Null
      <4>1. Stored(name) = <<>>
        BY <1>1, <3>1 DEF Stored
      <4>2. <<>> \in Seq({})
        OBVIOUS
      <4>3. QED
        BY <4>1, <4>2
    <3>2. CASE stored # Null
      BY <1>0, <1>1, <3>2, ElementsSeq DEF Stored
    <3>3. QED
      BY <3>1, <3>2
  <2>8. q \o <<>> = q
    BY <2>7
  <2>9. QED
    BY <1>1, <2>3, <2>5, <2>6, <2>7, <2>8 DEF Stored
<1>7. CASE o.found
  <2>1. texts # <<>>
    BY <1>2, <1>7
  <2>2. PICK T, s : /\ NUL \in T /\ s \in Seq(T) /\ Full(Split(s)) /\ Split(s) = Flat(texts)
                    /\ Before(o.value[1]) = Append(s, NUL) /\ o.value # Null
    BY <1>2, <2>1, HoldsElements
  <2>3. CASE o.add
    <3>1. PICK new : new = Combine(old, o.value[1]) /\ p = [o EXCEPT !.value = <<new>>, !.length = Len(new)]
      BY <1>0, <1>1, <1>7, <2>3 DEF FromRegistry
    <3>2. p = Row(<<new>>, n, Len(new), f, a)
      BY <1>4, <3>1 DEF Row
    <3>3. p.value = <<new>>
      BY <3>2 DEF Row
    <3>4. PICK U : U = T \cup ToSet(old)
      OBVIOUS
    <3>5. NUL \in U /\ s \in Seq(U) /\ old \in Seq(U)
      <4>1. T \subseteq U /\ ToSet(old) \subseteq U
        BY <3>4
      <4>2. Seq(T) \subseteq Seq(U) /\ Seq(ToSet(old)) \subseteq Seq(U)
        BY <4>1, SeqMore
      <4>3. QED
        BY <1>5, <2>2, <4>1, <4>2
    <3>6. Elements(new) = Elements(old) \o Split(s)
      BY <1>5, <2>2, <3>1, <3>5, ElementsAre
    <3>7. p.value # Null /\ p.value[1] = new
      BY <3>3 DEF Null
    <3>8. Adds(name)
      BY <1>2, <2>3
    <3>9. QED
      BY <1>1, <1>5, <2>2, <3>6, <3>7, <3>8
  <2>4. CASE ~o.add
    <3>1. p = o
      BY <1>1, <1>7, <2>4 DEF FromRegistry
    <3>2. ~Adds(name)
      BY <1>2, <2>1, <2>4
    <3>3. Elements(o.value[1]) = Split(s)
      BY <2>2, ElementsAre
    <3>4. PICK P, V : P = Split(s) /\ P \in Seq(V)
      BY <2>2, SplitIs
    <3>5. <<>> \o P = P
      BY <3>4
    <3>6. QED
      BY <1>1, <2>2, <3>1, <3>2, <3>3, <3>4, <3>5
  <2>5. QED
    BY <2>3, <2>4
<1>8. QED
  BY <1>6, <1>7

(***************************************************************************)
(* The lists of the table.                                                  *)
(***************************************************************************)
(* A row of what was given so far, one of what counts, one that is merged.  *)
Told(name) == Tells(name, Counting(given[name]), AllAdd(given[name]), opts[name])
Meant(name) == Tells(name, Texts(name), Adds(name), opts[name])
Listed(name) == AllPieces(name, opts[name])

(* A word of the line.                                                      *)
IsWord(w) == w.name # NUL /\ (w.sign = "" \/ w.text # Null => IsText(w.text[1]))

(* The words and the values that are there are texts, those of the registry *)
(* lists until a save; and the rows of lists are told, meant and listed in  *)
(* turn, each loop as far as it is.                                         *)
ListInv ==
  /\ IsList(argv) /\ i \in Nat /\ i > 0 /\ \A j \in 1 .. Len(argv) : IsWord(argv[j])
  /\ \A name \in Names :
       /\ Signed(given[name])
       /\ Kind[name] = "msz" /\ env[name] # Null => IsText(env[name][1])
       /\ Kind[name] = "msz" /\ reg[name] # Null /\ at \notin {"save", "saved"} => IsMultiSz(reg[name][1])
  /\ at \in {"command", "parse"} => \A name \in Names : Told(name)
  /\ at = "env" => \A j \in 1 .. Len(Options) : IF j < k THEN Meant(Options[j]) ELSE Told(Options[j])
  /\ at = "load" => \A j \in 1 .. Len(Options) : IF j < k THEN Listed(Options[j]) ELSE Meant(Options[j])
  /\ at = "ready" => \A name \in Names : Listed(name)

(* What is said of a list stays while nothing of it changes.                *)
LEMMA ListStays ==
  ASSUME NEW name, env' = env, given'[name] = given[name]
  PROVE  /\ Signed(given'[name]) <=> Signed(given[name])
         /\ Texts(name)' = Texts(name) /\ (Adds(name)' <=> Adds(name))
         /\ opts'[name] = opts[name] =>
              /\ Told(name)' <=> Told(name)
              /\ Meant(name)' <=> Meant(name)
              /\ reg'[name] = reg[name] => (Listed(name)' <=> Listed(name))
<1>1. Texts(name)' = Texts(name) /\ (Adds(name)' <=> Adds(name))
  BY DEF Texts, Adds, Prevails, Fails
<1>2. Signed(given'[name]) <=> Signed(given[name])
  BY DEF Signed
<1>3. ASSUME opts'[name] = opts[name]
      PROVE  /\ Told(name)' <=> Told(name)
             /\ Meant(name)' <=> Meant(name)
  BY <1>1, <1>3 DEF Told, Meant, Tells
<1>4. ASSUME opts'[name] = opts[name], reg'[name] = reg[name] PROVE Listed(name)' <=> Listed(name)
  <2>1. Stored(name)' = Stored(name)
    BY <1>4 DEF Stored
  <2>2. QED
    BY <1>1, <1>4, <2>1 DEF Listed, AllPieces
<1>5. QED
  BY <1>1, <1>2, <1>3, <1>4

(* The places of the table have different names.                            *)
LEMMA PlacesDiffer ==
  \A j, h \in 1 .. Len(Options) : j # h => Options[j] # Options[h]
BY OptionsIs, OptionsAssumption DEF IsInjective

(* At first nothing is given.                                               *)
LEMMA ListInit == OptionsInit => ListInv
<1> SUFFICES ASSUME OptionsInit PROVE ListInv
  OBVIOUS
<1>1. PICK case \in Cases : argv = case[1] /\ env = case[2] /\ reg = case[3]
  BY DEF OptionsInit
<1>2. /\ at = "command" /\ i = 1
      /\ opts = [n \in Names |-> NotGiven] /\ given = [n \in Names |-> <<>>]
  BY DEF OptionsInit
<1>3. /\ argv \in Seq(ToSet(argv))
      /\ \A w \in ToSet(argv) : IsWord(w)
      /\ \A name \in Names : Kind[name] = "msz" =>
           /\ env[name] # Null => IsText(env[name][1])
           /\ reg[name] # Null => IsMultiSz(reg[name][1])
  BY <1>1, TextsAssumption DEF IsWord
<1>4. IsList(argv)
  BY <1>3 DEF IsList, ToSet
<1>5. \A j \in 1 .. Len(argv) : IsWord(argv[j])
  <2>1. DOMAIN argv = 1 .. Len(argv)
    BY <1>4, ListIs
  <2>2. QED
    BY <1>3, <2>1 DEF ToSet
<1>6. ASSUME NEW name \in Names PROVE Signed(given[name]) /\ Told(name)
  <2>1. PICK g, o : g = given[name] /\ g = <<>> /\ o = opts[name] /\ o = NotGiven
    BY <1>2
  <2>2. Signed(g)
    BY <2>1 DEF Signed
  <2>3. IsList(g)
    BY <2>1 DEF IsList
  <2>4. Counting(g) = <<>>
    BY <2>1, <2>3, CountingIs
  <2>5. o.value = Null /\ o.length = 0 /\ ~o.found /\ ~o.add
    BY <2>1 DEF NotGiven
  <2>6. PICK t : t = Counting(g) /\ t = <<>> /\ IsList(t) /\ Filled(Null, 0, t)
    BY <2>4, NoneIs
  <2>7. Tells(name, t, AllAdd(g), o)
    BY <2>5, <2>6 DEF Tells
  <2>8. QED
    BY <2>1, <2>2, <2>6, <2>7 DEF Told
<1>7. QED
  BY <1>2, <1>3, <1>4, <1>5, <1>6 DEF ListInv

(* The text of a word that is a value.                                      *)
LEMMA WordText ==
  ASSUME NEW w, IsWord(w)
  PROVE  IsText(Text(w)) /\ (w.text # Null => IsText(w.text[1]))
<1>1. CASE w.sign = ""
  BY <1>1 DEF IsWord, Text
<1>2. CASE w.sign # ""
  <2>1. PICK n, t : n = w.name /\ t = <<n>> /\ t = Text(w) /\ n # NUL
    BY <1>2 DEF IsWord, Text
  <2>2. t \in Seq({n}) /\ ToSet(t) = {n}
    BY <2>1 DEF ToSet
  <2>3. IsText(t)
    BY <2>1, <2>2 DEF IsText
  <2>4. QED
    BY <2>1, <2>3 DEF IsWord
<1>3. QED
  BY <1>1, <1>2

(* A word is read.                                                          *)
LEMMA ReadOptionLists == ASSUME ReadInv, ListInv, ReadOption PROVE ListInv'
<1> DEFINE w == argv[i]
           joined == w.text # <<>>
           val == IF joined THEN w.text[1] ELSE Text(argv[i + 1])
<1> PICK name, text, sign : name = w.name /\ text = val /\ sign = w.sign
  OBVIOUS
<1> DEFINE p == [Put(Mark(opts[name], sign), name, text) EXCEPT !.found = TRUE]
           g == Append(given[name], <<sign, text>>)
<1>1. /\ at = "parse" /\ i <= Len(argv) /\ UNCHANGED <<argv, env, reg>> /\ sign \in {"--", "++"}
  BY DEF ReadOption, IsOption
<1>2. /\ IsList(argv) /\ i \in Nat /\ i > 0 /\ \A j \in 1 .. Len(argv) : IsWord(argv[j])
      /\ \A n \in Names :
           /\ Signed(given[n])
           /\ Kind[n] = "msz" /\ env[n] # Null => IsText(env[n][1])
           /\ Kind[n] = "msz" /\ reg[n] # Null => IsMultiSz(reg[n][1])
      /\ \A n \in Names : Told(n)
  BY <1>1 DEF ListInv
<1>3. /\ DOMAIN opts = Names /\ DOMAIN given = Names
      /\ \A n \in Names : IsRow(opts[n]) /\ IsList(given[n])
  BY DEF ReadInv
<1>4. CASE name \in Names /\ (joined \/ i < Len(argv))
  <2>1. /\ opts' = [opts EXCEPT ![name] = p] /\ given' = [given EXCEPT ![name] = g]
        /\ at' = at /\ i' = IF joined THEN i + 1 ELSE i + 2
    BY <1>4 DEF ReadOption
  <2>2. IsText(text)
    <3>1. Len(argv) \in Nat
      BY <1>2, ListIs
    <3>2. i \in 1 .. Len(argv) /\ (~joined => i + 1 \in 1 .. Len(argv))
      BY <1>1, <1>2, <1>4, <3>1
    <3>3. IsWord(w) /\ (~joined => IsWord(argv[i + 1]))
      BY <1>2, <3>2
    <3>4. CASE joined
      <4>1. text = w.text[1] /\ w.text # Null
        BY <3>4 DEF Null
      <4>2. QED
        BY <3>3, <4>1, WordText
    <3>5. CASE ~joined
      BY <3>3, <3>5, WordText
    <3>6. QED
      BY <3>4, <3>5
  <2>3. i' \in Nat /\ i' > 0
    BY <1>2, <2>1
  <2> HIDE DEF p, g, val, joined, w
  <2>4. opts'[name] = p /\ given'[name] = g
    BY <1>3, <1>4, <2>1
  <2>5. Tells(name, Counting(g), AllAdd(g), p)
    <3>1. PICK e, o : e = given[name] /\ o = opts[name]
      OBVIOUS
    <3>2. Tells(name, Counting(e), AllAdd(e), o) /\ IsRow(o) /\ IsList(e)
      BY <1>2, <1>3, <1>4, <3>1 DEF Told
    <3>3. Tells(name, Counting(Append(e, <<sign, text>>)), AllAdd(Append(e, <<sign, text>>)),
                [Put(Mark(o, sign), name, text) EXCEPT !.found = TRUE])
      BY <1>1, <1>4, <2>2, <3>2, OptionTells
    <3>4. QED
      BY <3>1, <3>3 DEF p, g
  <2>6. Told(name)'
    BY <2>4, <2>5 DEF Told, Tells
  <2>7. Signed(g)
    <3>1. PICK e, x, n : e = given[name] /\ x = <<sign, text>> /\ n = Len(e)
      OBVIOUS
    <3>2. IsList(e) /\ Signed(e) /\ n \in Nat /\ DOMAIN e = 1 .. n
      BY <1>2, <1>3, <1>4, <3>1, ListIs
    <3>3. /\ DOMAIN Append(e, x) = 1 .. n + 1 /\ Append(e, x)[n + 1] = x
          /\ \A j \in 1 .. n : Append(e, x)[j] = e[j]
      BY <3>1, <3>2, AppendIs DEF IsList
    <3>4. \A j \in 1 .. n + 1 : j = n + 1 \/ j \in 1 .. n
      BY <3>2
    <3>5. x[1] \in {"--", "++"}
      BY <1>1, <3>1
    <3>6. Signed(Append(e, x))
      BY <3>2, <3>3, <3>4, <3>5 DEF Signed
    <3>7. QED
      BY <3>1, <3>6 DEF g
  <2>8. ASSUME NEW n \in Names PROVE Told(n)' /\ Signed(given'[n])
    <3>1. CASE n = name
      BY <2>4, <2>6, <2>7, <3>1
    <3>2. CASE n # name
      <4>1. opts'[n] = opts[n] /\ given'[n] = given[n]
        BY <2>1, <3>2
      <4>2. QED
        BY <1>1, <1>2, <4>1, ListStays
    <3>3. QED
      BY <3>1, <3>2
  <2>9. QED
    BY <1>1, <1>2, <2>1, <2>3, <2>8 DEF ListInv, IsList
<1>5. CASE ~(name \in Names /\ (joined \/ i < Len(argv)))
  <2>1. at' = "refused" /\ UNCHANGED <<opts, given, i>>
    BY <1>5 DEF ReadOption
  <2> HIDE DEF p, g, val, joined, w
  <2>2. QED
    BY <1>1, <1>2, <2>1 DEF ListInv, IsList
<1>6. QED
  BY <1>4, <1>5

(* A turn of a loop over the table gives its row and leaves the others.     *)
LEMMA TurnIs ==
  ASSUME ReadInv, NEW here, NEW next, Loop(here, next), NEW p,
         opts' = [opts EXCEPT ![Options[k]] = p], UNCHANGED reg
  PROVE  /\ k \in 1 .. Len(Options) /\ UNCHANGED <<argv, i, env, given>>
         /\ opts'[Options[k]] = p
         /\ \A j \in 1 .. Len(Options) : j # k => opts'[Options[j]] = opts[Options[j]]
         /\ \/ at' = at /\ \A j \in 1 .. Len(Options) : j < k' <=> j < k \/ j = k
            \/ at' = next /\ k' = 1 /\ \A j \in 1 .. Len(Options) : j < k \/ j = k
<1>1. k \in 1 .. Len(Options) /\ DOMAIN opts = Names /\ Options[k] \in Names
  BY OptionsIs DEF ReadInv
<1>2. UNCHANGED <<argv, i, env, given>>
  BY DEF Loop
<1>3. (k < Len(Options) /\ k' = k + 1 /\ at' = at) \/ (~(k < Len(Options)) /\ k' = 1 /\ at' = next)
  BY DEF Loop
<1>4. opts'[Options[k]] = p
  BY <1>1
<1>5. \A j \in 1 .. Len(Options) : j # k => opts'[Options[j]] = opts[Options[j]]
  BY <1>1, OptionsIs, PlacesDiffer
<1>6. CASE k < Len(Options)
  <2>1. \A j \in 1 .. Len(Options) : j < k' <=> j < k \/ j = k
    BY <1>1, <1>3, <1>6, OptionsIs
  <2>2. QED
    BY <1>1, <1>2, <1>3, <1>4, <1>5, <1>6, <2>1
<1>7. CASE ~(k < Len(Options))
  <2>1. \A j \in 1 .. Len(Options) : j < k \/ j = k
    BY <1>1, <1>7, OptionsIs
  <2>2. QED
    BY <1>1, <1>2, <1>3, <1>4, <1>5, <1>7, <2>1
<1>8. QED
  BY <1>6, <1>7

(* A turn of the loop over the variables.                                   *)
LEMMA LoadEnvVarLists == ASSUME ReadInv, ListInv, LoadEnvVar PROVE ListInv'
<1> PICK name, p : name = Options[k] /\ p = FromEnv(name, opts[name])
  OBVIOUS
<1>1. /\ Loop("env", "load") /\ opts' = [opts EXCEPT ![Options[k]] = p] /\ UNCHANGED reg
      /\ at = "env" /\ ~Fails(name)
  BY DEF LoadEnvVar, Loop
<1>2. /\ k \in 1 .. Len(Options) /\ UNCHANGED <<argv, i, env, given>>
      /\ opts'[Options[k]] = p
      /\ \A j \in 1 .. Len(Options) : j # k => opts'[Options[j]] = opts[Options[j]]
      /\ \/ at' = at /\ \A j \in 1 .. Len(Options) : j < k' <=> j < k \/ j = k
         \/ at' = "load" /\ k' = 1 /\ \A j \in 1 .. Len(Options) : j < k \/ j = k
  BY <1>1, TurnIs
<1>3. /\ IsList(argv) /\ i \in Nat /\ i > 0 /\ \A j \in 1 .. Len(argv) : IsWord(argv[j])
      /\ \A n \in Names :
           /\ Signed(given[n])
           /\ Kind[n] = "msz" /\ env[n] # Null => IsText(env[n][1])
           /\ Kind[n] = "msz" /\ reg[n] # Null => IsMultiSz(reg[n][1])
      /\ \A j \in 1 .. Len(Options) : IF j < k THEN Meant(Options[j]) ELSE Told(Options[j])
  BY <1>1 DEF ListInv
<1>4. Meant(name)'
  <2>1. name \in Names /\ IsRow(opts[name]) /\ IsList(given[name])
        /\ (Prevails(name) <=> env[name] # Null /\ Fits(env[name][1]))
    BY <1>1, <1>2, OptionsIs, PrevailsIs DEF ReadInv
  <2>2. Told(name)
    <3>1. ~(k < k)
      BY <1>2
    <3>2. QED
      BY <1>2, <1>3, <3>1
  <2>3. ASSUME Kind[name] = "msz" PROVE Tells(name, Texts(name), Adds(name), p)
    <3>1. Prevails(name) => IsText(env[name][1])
      BY <1>3, <2>1, <2>3 DEF Prevails
    <3>2. QED
      BY <1>3, <2>1, <2>2, <2>3, <3>1, EnvTells DEF Told
  <2>4. Tells(name, Texts(name), Adds(name), p)
    BY <2>3 DEF Tells
  <2>5. Texts(name)' = Texts(name) /\ (Adds(name)' <=> Adds(name)) /\ opts'[name] = p
    BY <1>2, ListStays
  <2>6. QED
    BY <2>4, <2>5 DEF Meant, Tells
<1>5. \A j \in 1 .. Len(Options) : j # k =>
        (Meant(Options[j])' <=> Meant(Options[j])) /\ (Told(Options[j])' <=> Told(Options[j]))
  BY <1>2, ListStays
<1>6. \A j \in 1 .. Len(Options) :
        /\ j < k \/ j = k => Meant(Options[j])'
        /\ ~(j < k \/ j = k) => Told(Options[j])'
  BY <1>3, <1>4, <1>5
<1>7. CASE at' = at /\ \A j \in 1 .. Len(Options) : j < k' <=> j < k \/ j = k
  <2>1. \A j \in 1 .. Len(Options) : IF j < k' THEN Meant(Options[j])' ELSE Told(Options[j])'
    BY <1>6, <1>7
  <2>2. QED
    BY <1>1, <1>2, <1>3, <1>7, <2>1 DEF ListInv, IsList
<1>8. CASE at' = "load" /\ k' = 1 /\ \A j \in 1 .. Len(Options) : j < k \/ j = k
  <2>1. \A j \in 1 .. Len(Options) : Meant(Options[j])' /\ ~(j < k')
    BY <1>6, <1>8, OptionsIs
  <2>2. \A j \in 1 .. Len(Options) : IF j < k' THEN Listed(Options[j])' ELSE Meant(Options[j])'
    BY <2>1
  <2>3. QED
    BY <1>1, <1>2, <1>3, <1>8, <2>2 DEF ListInv, IsList
<1>9. QED
  BY <1>2, <1>7, <1>8

(* A variable that fails ends the loop over the variables.                  *)
LEMMA EnvFailsLists == ASSUME ReadInv, ListInv, EnvFails PROVE ListInv'
<1>1. /\ at = "env" /\ Fails(Options[k]) /\ at' = "load" /\ k' = 1
      /\ UNCHANGED <<argv, i, opts, env, reg, given>>
  BY DEF EnvFails
<1>2. /\ \A j \in 1 .. Len(Options) : IF j < k THEN Meant(Options[j]) ELSE Told(Options[j])
      /\ k \in 1 .. Len(Options) /\ Readable
  BY <1>1 DEF ReadInv, ListInv
<1>3. ASSUME NEW h \in 1 .. Len(Options) PROVE Meant(Options[h])
  <2>1. CASE h < k
    BY <1>2, <2>1
  <2>2. CASE ~(h < k)
    <3>1. PICK name : name = Options[h] /\ Told(name) /\ Signed(given[name])
      BY <1>2, <2>2, OptionsIs DEF ListInv
    <3>2. h \in k .. Len(Options)
      BY <1>2, <2>2, OptionsIs
    <3>3. ~Prevails(name)
      BY <1>1, <1>2, <3>1, <3>2, PrevailsIs
    <3>4. Texts(name) = Counting(given[name])
      BY <3>3 DEF Texts
    <3>5. AllAdd(given[name]) <=> OnlyAdds(given[name])
      BY <3>1 DEF AllAdd, OnlyAdds, Signed
    <3>6. Adds(name) <=> AllAdd(given[name])
      BY <3>3, <3>5 DEF Adds
    <3>7. QED
      BY <3>1, <3>4, <3>6 DEF Told, Meant, Tells
  <2>3. QED
    BY <2>1, <2>2
<1>4. \A h \in 1 .. Len(Options) : ~(h < k') /\ Meant(Options[h])'
  BY <1>1, <1>3, ListStays
<1>5. QED
  BY <1>1, <1>4 DEF ListInv, IsList

(* A turn of the loop over the registry.                                    *)
LEMMA LoadLists == ASSUME ReadInv, ListInv, Load PROVE ListInv'
<1> PICK name, p : name = Options[k] /\ p = FromRegistry(name, opts[name])
  OBVIOUS
<1>1. Loop("load", "ready") /\ opts' = [opts EXCEPT ![Options[k]] = p] /\ UNCHANGED reg /\ at = "load"
  BY DEF Load, Loop
<1>2. /\ k \in 1 .. Len(Options) /\ UNCHANGED <<argv, i, env, given>>
      /\ opts'[Options[k]] = p
      /\ \A j \in 1 .. Len(Options) : j # k => opts'[Options[j]] = opts[Options[j]]
      /\ \/ at' = at /\ \A j \in 1 .. Len(Options) : j < k' <=> j < k \/ j = k
         \/ at' = "ready" /\ k' = 1 /\ \A j \in 1 .. Len(Options) : j < k \/ j = k
  BY <1>1, TurnIs
<1>3. /\ IsList(argv) /\ i \in Nat /\ i > 0 /\ \A j \in 1 .. Len(argv) : IsWord(argv[j])
      /\ \A n \in Names :
           /\ Signed(given[n])
           /\ Kind[n] = "msz" /\ env[n] # Null => IsText(env[n][1])
           /\ Kind[n] = "msz" /\ reg[n] # Null => IsMultiSz(reg[n][1])
      /\ \A j \in 1 .. Len(Options) : IF j < k THEN Listed(Options[j]) ELSE Meant(Options[j])
  BY <1>1 DEF ListInv
<1>4. Listed(name)'
  <2>1. name \in Names /\ IsRow(opts[name]) /\ IsList(given[name])
    BY <1>2, OptionsIs DEF ReadInv
  <2>2. Meant(name)
    <3>1. ~(k < k)
      BY <1>2
    <3>2. QED
      BY <1>2, <1>3, <3>1
  <2>3. AllPieces(name, p)
    BY <1>3, <2>1, <2>2, LoadPieces DEF Meant
  <2>4. /\ Texts(name)' = Texts(name) /\ (Adds(name)' <=> Adds(name)) /\ opts'[name] = p
        /\ Stored(name)' = Stored(name)
    BY <1>1, <1>2, ListStays DEF Stored
  <2>5. QED
    BY <2>3, <2>4 DEF Listed, AllPieces
<1>5. \A j \in 1 .. Len(Options) : j # k =>
        (Meant(Options[j])' <=> Meant(Options[j])) /\ (Listed(Options[j])' <=> Listed(Options[j]))
  BY <1>1, <1>2, ListStays
<1>6. \A j \in 1 .. Len(Options) :
        /\ j < k \/ j = k => Listed(Options[j])'
        /\ ~(j < k \/ j = k) => Meant(Options[j])'
  BY <1>3, <1>4, <1>5
<1>7. CASE at' = at /\ \A j \in 1 .. Len(Options) : j < k' <=> j < k \/ j = k
  <2>1. \A j \in 1 .. Len(Options) : IF j < k' THEN Listed(Options[j])' ELSE Meant(Options[j])'
    BY <1>6, <1>7
  <2>2. QED
    BY <1>1, <1>2, <1>3, <1>7, <2>1 DEF ListInv, IsList
<1>8. CASE at' = "ready" /\ k' = 1 /\ \A j \in 1 .. Len(Options) : j < k \/ j = k
  <2>1. \A n \in Names : Listed(n)'
    BY <1>6, <1>8, OptionsIs
  <2>2. QED
    BY <1>1, <1>2, <1>3, <1>8, <2>1 DEF ListInv, IsList
<1>9. QED
  BY <1>2, <1>7, <1>8

(* Every step keeps the lists.                                              *)
LEMMA ListNext == ReadInv /\ ListInv /\ [OptionsNext]_optionsVars => ListInv'
<1> SUFFICES ASSUME ReadInv, ListInv, [OptionsNext]_optionsVars PROVE ListInv'
  OBVIOUS
<1>1. ASSUME UNCHANGED <<argv, opts, env, given>>, i' \in Nat, i' > 0,
             UNCHANGED <<reg, k>> \/ at' \in {"save", "saved"},
             at' = at \/ at' \in {"refused", "run", "save", "saved"}
                      \/ (at \in {"command", "parse"} /\ at' \in {"parse", "env"}),
             at \in {"save", "saved"} => at' \in {"save", "saved"}
      PROVE  ListInv'
  <2>1. \A n \in Names : /\ Told(n)' <=> Told(n)
                         /\ Meant(n)' <=> Meant(n)
                         /\ reg' = reg => (Listed(n)' <=> Listed(n))
    BY <1>1, ListStays
  <2>2. \A j \in 1 .. Len(Options) : Options[j] \in Names
    BY OptionsIs
  <2>3. at \in {"command", "parse"} => \A j \in 1 .. Len(Options) : ~(j < k)
    <3>1. at \in {"command", "parse"} => k = 1
      BY DEF ReadInv
    <3>2. QED
      BY <3>1, OptionsIs
  <2>4. at' \in {"command", "parse", "env", "load", "ready"} => reg' = reg /\ k' = k
    BY <1>1
  <2>5. /\ at' \in {"command", "parse"} => \A n \in Names : Told(n)'
        /\ at' = "ready" => \A n \in Names : Listed(n)'
    BY <1>1, <2>1, <2>4 DEF ListInv
  <2>6. at' = "env" => \A j \in 1 .. Len(Options) : IF j < k' THEN Meant(Options[j])' ELSE Told(Options[j])'
    <3>1. CASE at = "env"
      BY <2>1, <2>2, <2>4, <3>1 DEF ListInv
    <3>2. CASE at \in {"command", "parse"}
      BY <2>1, <2>2, <2>3, <2>4, <3>2 DEF ListInv
    <3>3. QED
      BY <1>1, <3>1, <3>2
  <2>7. at' = "load" => \A j \in 1 .. Len(Options) : IF j < k' THEN Listed(Options[j])' ELSE Meant(Options[j])'
    BY <1>1, <2>1, <2>2, <2>4 DEF ListInv
  <2>8. ASSUME NEW n \in Names, Kind[n] = "msz", reg'[n] # Null, at' \notin {"save", "saved"}
        PROVE  IsMultiSz(reg'[n][1])
    <3>1. reg' = reg
      BY <1>1, <2>8
    <3>2. at \notin {"save", "saved"}
      BY <1>1, <2>8
    <3>3. QED
      BY <2>8, <3>1, <3>2 DEF ListInv
  <2>9. /\ IsList(argv') /\ \A j \in 1 .. Len(argv') : IsWord(argv'[j])
        /\ \A n \in Names : /\ Signed(given'[n])
                            /\ Kind[n] = "msz" /\ env'[n] # Null => IsText(env'[n][1])
    BY <1>1 DEF ListInv, IsList
  <2>10. QED
    BY <1>1, <2>5, <2>6, <2>7, <2>8, <2>9 DEF ListInv, IsList
<1>2. CASE ReadCommand
  <2>1. i' \in {i, 2, 3}
    BY <1>2 DEF ReadCommand
  <2>2. i' \in Nat /\ i' > 0
    BY <2>1 DEF ListInv
  <2>3. QED
    BY <1>1, <1>2, <2>2 DEF ReadCommand
<1>3. CASE ReadOption
  BY <1>3, ReadOptionLists
<1>4. CASE EndOptions
  BY <1>1, <1>4 DEF EndOptions, ListInv
<1>5. CASE LoadEnvVar \/ EnvFails
  BY <1>5, LoadEnvVarLists, EnvFailsLists
<1>6. CASE Load
  BY <1>6, LoadLists
<1>7. CASE Ready
  BY <1>1, <1>7 DEF Ready, ListInv
<1>8. CASE Save
  <2>1. at' \in {"save", "saved"} /\ UNCHANGED <<argv, opts, env, given, i>>
    BY <1>8 DEF Save, Loop
  <2>2. QED
    BY <1>1, <2>1 DEF ListInv
<1>9. CASE UNCHANGED optionsVars
  BY <1>1, <1>9 DEF optionsVars, ListInv
<1>10. QED
  BY <1>2, <1>3, <1>4, <1>5, <1>6, <1>7, <1>8, <1>9 DEF OptionsNext

(* Once the registry is read, the list of an option has every piece of      *)
(* every text that counts, in their order and behind those of the registry  *)
(* when all were additions, and nothing else (apxCmdlineParse,              *)
(* apxCmdlineLoadEnvVars, loadConfiguration).                               *)
THEOREM PiecesSound == OptionsSpec => []PiecesKept
<1>1. ReadInv /\ ListInv => PiecesKept
  <2> SUFFICES ASSUME ListInv, at = "ready", NEW name \in Names, Kind[name] = "msz", Clean(Texts(name))
               PROVE  (IF opts[name].value = Null THEN <<>> ELSE Elements(opts[name].value[1])) =
                      (IF Adds(name) THEN Stored(name) ELSE <<>>) \o Flat(Texts(name))
    BY DEF PiecesKept, Clean, Flat
  <2> QED
    BY DEF ListInv, Listed, AllPieces
<1>2. QED
  BY <1>1, ReadInit, ReadNext, ListInit, ListNext, PTL DEF OptionsSpec
=============================================================================
