--------------------------- MODULE ProcrunOptions ---------------------------
(***************************************************************************)
(* How prunsrv comes by the values of its options: apxCmdlineParse and     *)
(* apxCmdlineLoadEnvVars of cmdline.c, then loadConfiguration and          *)
(* saveConfiguration of prunsrv.c, one turn of each loop per step.         *)
(*                                                                         *)
(* A text is a sequence of characters.  A list is a buffer in which every  *)
(* element ends with a NUL and an empty element ends the list, as the      *)
(* registry keeps it.                                                      *)
(***************************************************************************)
EXTENDS Naturals, Sequences, SequencesExt, FiniteSets, TLC

CONSTANTS Options,     \* the table _options: its names in order
          Kind,        \* and what each holds: "str", "int" or "msz"
          Commands,    \* the names behind // that are commands
          AltCommands, \* and the plain words
          HugMax,      \* SIZ_HUGMAX, which the text of a variable does not reach
          Cases        \* command lines, with an environment and a registry

\* The names of the table are different words, each of a kind; a value of the
\* registry is there or not, and so is a variable, which may be there and not
\* be read: GetEnvironmentVariable gives an error, as it may of an empty one.
ASSUME OptionsAssumption ==
  /\ Options \in Seq(ToSet(Options)) /\ Options # <<>> /\ IsInjective(Options)
  /\ \A name \in ToSet(Options) : Kind[name] \in {"str", "int", "msz"}

ASSUME CasesAssumption ==
  \A case \in Cases :
    /\ DOMAIN case[2] = ToSet(Options) /\ DOMAIN case[3] = ToSet(Options)
    /\ \A name \in ToSet(Options) : case[2][name] # <<>> => case[2][name][2] \in BOOLEAN
ASSUME HugMaxAssumption == HugMax \in Nat

VARIABLES argv, i,     \* the words and the one to read
          opts,        \* the values of _options
          env, reg,    \* PR_ variables, with whether reading them fails, and
                       \* the registry, NULL where absent
          at, k,       \* the loop and its turn
          given        \* what the parser took for each option, for the properties

optionsVars == <<argv, i, opts, env, reg, at, k, given>>

NUL == "NUL"
Null == <<>>                                     \* no value
Names == ToSet(Options)

NotGiven == [value |-> Null, num |-> 0, length |-> 0, found |-> FALSE, add |-> FALSE]

Padding(n) == [j \in 1 .. n |-> NUL]

-----------------------------------------------------------------------------
(* Lists.                                                                  *)
\* __apxGetMultiSzLengthW: where the empty element begins.
MultiSzLength(list) ==
  Min({ j \in 0 .. Len(list) - 1 :
          list[j + 1] = NUL /\ (j = 0 \/ list[j] = NUL) } \cup {Len(list)})

\* No text has a NUL in it, and an empty element ends a list of the registry.
IsText(text) == text \in Seq(ToSet(text)) /\ NUL \notin ToSet(text)
IsMultiSz(list) == list \in Seq(ToSet(list)) /\ MultiSzLength(list) < Len(list)

ASSUME TextsAssumption ==
  \A case \in Cases :
    /\ case[1] \in Seq(ToSet(case[1]))
    /\ \A w \in ToSet(case[1]) :
         w.name # NUL /\ (w.sign = "" \/ w.text # Null => IsText(w.text[1]))
    /\ \A name \in { n \in Names : Kind[n] = "msz" } :
         /\ case[2][name] # Null => IsText(case[2][name][1])
         /\ case[3][name] # Null => IsMultiSz(case[3][name][1])

Combine(a, b) ==
  SubSeq(a, 1, MultiSzLength(a)) \o SubSeq(b, 1, MultiSzLength(b)) \o <<NUL>>

\* The characters of a text at some of its places, in their order.
Rank(S, j) == Cardinality({ q \in S : q < j })
Chars(text, S) == [h \in 1 .. Cardinality(S) |-> text[CHOOSE j \in S : Rank(S, j) = h - 1]]

\* What is left of a text before, between and behind the cuts.
Parts(text, cuts, kept) ==
  [e \in 1 .. Cardinality(cuts) + 1 |->
     Chars(text, { j \in kept \ cuts : Rank(cuts, j) = e - 1 })]

Split(text) == Parts(text, { j \in DOMAIN text : text[j] = NUL }, DOMAIN text)

\* apxMultiSzToArrayW: the elements, up to the empty one.
Elements(list) == Front(Split(SubSeq(list, 1, MultiSzLength(list))))

(* The loop over the characters of a value: # and ; outside quotes end an  *)
(* element, apostrophes are left out, quotation marks are kept.  It goes   *)
(* on with the text so far and the quotes that are open.                   *)
Separator  == "#"
Apostrophe == "'"
Quotes     == {Apostrophe, "\""}

Taken(c, open) ==
  IF c = Apostrophe THEN <<>> ELSE IF c = Separator /\ open = {} THEN <<NUL>> ELSE <<c>>

Toggled(c, open) == IF c \notin Quotes THEN open ELSE (open \ {c}) \cup ({c} \ open)

Unquoted(val) ==
  LET read[n \in 0 .. Len(val)] ==
        IF n = 0 THEN <<<<>>, {}>>
        ELSE <<read[n - 1][1] \o Taken(val[n], read[n - 1][2]), Toggled(val[n], read[n - 1][2])>>
  IN  read[Len(val)][1]

\* The buffer grows by the length of the value and is filled from where the
\* one before had its last character but one.
AppendFromEnd(o, val) ==
  LET sp == o.length
      n  == sp + Len(val) + 2
      text == (IF sp = 0 THEN <<>> ELSE o.value[1]) \o Unquoted(val)
  IN  [o EXCEPT !.length = n, !.value = <<text \o Padding(n - Len(text))>>]

AppendList(o, val) ==
  LET sp == IF o.length > 1 THEN o.length - 1 ELSE 0
      n  == sp + Len(val) + 2
      text == (IF sp = 0 THEN <<>> ELSE SubSeq(o.value[1], 1, sp)) \o Unquoted(val)
  IN  [o EXCEPT !.length = n, !.value = <<text \o Padding(n - Len(text))>>]

Digits == "0" :> 0 @@ "5" :> 5
Number(text) ==
  IF text = <<>> THEN 0 ELSE IF text[1] \in DOMAIN Digits THEN Digits[text[1]] ELSE 0

Put(o, name, val) ==
  CASE Kind[name] = "str" -> [o EXCEPT !.value = <<val>>]
    [] Kind[name] = "int" -> [o EXCEPT !.num = Number(val)]
    [] Kind[name] = "msz" -> AppendList(o, val)

-----------------------------------------------------------------------------
(* apxCmdlineParse.  A word is a record: the sign it begins with, a name,  *)
(* and the text after an equals sign or, for a plain word, its text.       *)
OptionsInit ==
  /\ \E case \in Cases : argv = case[1] /\ env = case[2] /\ reg = case[3]
  /\ i = 1 /\ at = "command" /\ k = 1
  /\ opts = [n \in Names |-> NotGiven] /\ given = [n \in Names |-> <<>>]

\* A first word of at most two characters, like none, asks for the first
\* command and ends the line.  A plain command may be followed by the name of
\* the application, which // has in the same word.
NoCommand == IF argv = <<>> THEN TRUE ELSE argv[1].sign = "" /\ Len(argv[1].text[1]) <= 2

ReadCommand ==
  /\ at = "command"
  /\ \/ NoCommand /\ at' = "env" /\ i' = i
     \/ /\ ~NoCommand /\ argv[1].sign = "//" /\ argv[1].name \in Commands
        /\ at' = "parse" /\ i' = 2
     \/ /\ ~NoCommand /\ argv[1].sign = "" /\ argv[1].text[1] \in AltCommands
        /\ at' = "parse"
        /\ i' = IF Len(argv) = 1 THEN 2 ELSE IF argv[2].sign = "" THEN 3 ELSE 2
     \/ /\ ~NoCommand
        /\ IF argv[1].sign = "//" THEN argv[1].name \notin Commands
           ELSE IF argv[1].sign = "" THEN argv[1].text[1] \notin AltCommands ELSE TRUE
        /\ at' = "refused" /\ i' = i
  /\ UNCHANGED <<argv, opts, env, reg, k, given>>

Text(w) == IF w.sign = "" THEN w.text[1] ELSE <<w.name>>
IsOption(w) == w.sign \in {"--", "++"}

\* ++ asks for an addition if nothing was given before; -- after additions
\* discards them.
Mark(o, sign) ==
  IF sign = "++" THEN IF o.found THEN o ELSE [o EXCEPT !.add = TRUE]
  ELSE IF o.add THEN [NotGiven EXCEPT !.found = o.found]
  ELSE o

ReadOption ==
  /\ at = "parse" /\ i <= Len(argv) /\ IsOption(argv[i])
  /\ LET w == argv[i]
         joined == w.text # <<>>
         val == IF joined THEN w.text[1] ELSE Text(argv[i + 1])
     IN  IF w.name \in Names /\ (joined \/ i < Len(argv))
         THEN /\ opts' = [opts EXCEPT ![w.name] =
                            [Put(Mark(@, w.sign), w.name, val) EXCEPT !.found = TRUE]]
              /\ given' = [given EXCEPT ![w.name] = Append(@, <<w.sign, val>>)]
              /\ i' = IF joined THEN i + 1 ELSE i + 2
              /\ UNCHANGED at
         ELSE at' = "refused" /\ UNCHANGED <<opts, given, i>>
  /\ UNCHANGED <<argv, env, reg, k>>

\* The first word that is no option and no value, or the end.
EndOptions ==
  /\ at = "parse" /\ (IF i > Len(argv) THEN TRUE ELSE ~IsOption(argv[i]))
  /\ at' = "env" /\ UNCHANGED <<argv, i, opts, env, reg, k, given>>

-----------------------------------------------------------------------------
(* The loops over the table.                                               *)
Loop(here, next) ==
  /\ at = here
  /\ IF k < Len(Options) THEN k' = k + 1 /\ UNCHANGED at ELSE k' = 1 /\ at' = next
  /\ UNCHANGED <<argv, i, env, given>>

\* apxCmdlineLoadEnvVars: a PR_ variable replaces what was given, and a list
\* from it is added to the registry's.  One that is absent, empty or too long
\* is skipped.
Fits(text) == 0 < Len(text) /\ Len(text) < HugMax

FromEnv(name, o) ==
  IF env[name] = Null \/ ~Fits(env[name][1]) THEN o
  ELSE IF Kind[name] = "msz"
  THEN [AppendList(NotGiven, env[name][1]) EXCEPT !.found = TRUE, !.add = TRUE]
  ELSE [Put(o, name, env[name][1]) EXCEPT !.found = TRUE]

\* An error other than ERROR_ENVVAR_NOT_FOUND ends the loop.
Fails(name) == env[name] # Null /\ env[name][2]

EnvFails ==
  /\ at = "env" /\ Fails(Options[k])
  /\ at' = "load" /\ k' = 1
  /\ UNCHANGED <<argv, i, opts, env, reg, given>>

\* Mutant of LoadEnvVar: what cannot be read is skipped.
LoadEnvVarSkipping ==
  /\ Loop("env", "load")
  /\ opts' = [opts EXCEPT ![Options[k]] = FromEnv(Options[k], @)]
  /\ UNCHANGED reg

LoadEnvVar ==
  /\ ~Fails(Options[k]) /\ Loop("env", "load")
  /\ opts' = [opts EXCEPT ![Options[k]] = FromEnv(Options[k], @)]
  /\ UNCHANGED reg

\* loadConfiguration: what was not given is read, additions to a list are
\* merged with what is there.
FromRegistry(name, o) ==
  LET stored == reg[name]
      old == IF stored = Null THEN <<NUL>> ELSE stored[1]
      new == Combine(old, o.value[1])
  IN  IF ~o.found
      THEN IF Kind[name] = "int" THEN [o EXCEPT !.num = IF stored = Null THEN 0 ELSE stored[1]]
           ELSE [o EXCEPT !.value = stored]
      ELSE IF o.add /\ Kind[name] = "msz" THEN [o EXCEPT !.value = <<new>>, !.length = Len(new)]
      ELSE o

Load ==
  /\ Loop("load", "ready")
  /\ opts' = [opts EXCEPT ![Options[k]] = FromRegistry(Options[k], @)]
  /\ UNCHANGED reg

\* An update saves what was given, a service that runs does not.
Ready ==
  /\ at = "ready" /\ at' \in {"save", "run"}
  /\ UNCHANGED <<argv, i, opts, env, reg, k, given>>

\* apxRegistrySetStrW deletes the value for a text that is empty.
Stores(name, o) ==
  IF Kind[name] = "int" THEN <<o.num>>
  ELSE IF Kind[name] = "str" /\ o.value = <<<<>>>> THEN Null ELSE o.value

\* Mutant of Save: what was not given is saved too.
SaveAll ==
  /\ Loop("save", "saved")
  /\ reg' = [reg EXCEPT ![Options[k]] = Stores(Options[k], opts[Options[k]])]
  /\ UNCHANGED opts

Save ==
  /\ Loop("save", "saved")
  /\ LET name == Options[k] o == opts[name] IN
       reg' = [reg EXCEPT ![name] = IF o.found THEN Stores(name, o) ELSE @]
  /\ UNCHANGED opts

OptionsNext == \/ ReadCommand \/ ReadOption \/ EndOptions
        \/ LoadEnvVar \/ EnvFails \/ Load \/ Ready \/ Save

OptionsSpec == OptionsInit /\ [][OptionsNext]_optionsVars

-----------------------------------------------------------------------------
(* What the values should be, read off the whole of what was given.        *)
\* Character j of a text is inside quotes.
Quoted(text, j) == \E q \in Quotes : Cardinality({ h \in 1 .. j - 1 : text[h] = q }) % 2 = 1

Pieces(text) ==
  Parts(text, { j \in DOMAIN text : text[j] = Separator /\ ~Quoted(text, j) },
              { j \in DOMAIN text : text[j] # Apostrophe })

\* The texts that count: all of them, but an addition is discarded by the
\* first value that is no addition; a variable replaces them all, unless it is
\* empty or too long, or stands in the table at or behind one that fails.
Counting(g) ==
  LET sets == { j \in DOMAIN g : g[j][1] = "--" }
      from == IF sets = {} \/ g[1][1] = "--" THEN 1 ELSE Min(sets)
  IN  [j \in 1 .. Len(g) + 1 - from |-> g[from + j - 1][2]]

Prevails(name) ==
  /\ env[name] # Null /\ Fits(env[name][1])
  /\ \A j, h \in DOMAIN Options : Options[h] = name /\ j <= h => ~Fails(Options[j])

Texts(name) == IF Prevails(name) THEN <<env[name][1]>> ELSE Counting(given[name])

OnlyAdds(g) == \A j \in DOMAIN g : g[j][1] = "++"
Adds(name) == Prevails(name) \/ OnlyAdds(given[name])

NoEmptyPiece(text) == \A j \in DOMAIN Pieces(text) : Pieces(text)[j] # <<>>
NoApostrophe(text) == Apostrophe \notin ToSet(text)

Stored(name) == IF reg[name] = Null THEN <<>> ELSE Elements(reg[name][1])

\* A list holds every piece of every value that counts, in their order and
\* after those of the registry when all were additions, and nothing else.
\* It needs texts without an empty piece, which ends the list, and without
\* apostrophes, which leave room in the buffer that ends it too, unless the
\* text is the last.
PiecesKept ==
  at = "ready" =>
    \A name \in Names :
      LET texts == Texts(name)
          value == opts[name].value
          clean == \A j \in DOMAIN texts : /\ NoEmptyPiece(texts[j])
                                           /\ j < Len(texts) => NoApostrophe(texts[j])
      IN  Kind[name] = "msz" /\ clean =>
            (IF value = Null THEN <<>> ELSE Elements(value[1])) =
            (IF Adds(name) THEN Stored(name) ELSE <<>>)
              \o FlattenSeq([j \in DOMAIN texts |-> Pieces(texts[j])])

\* What is not given keeps the value of the registry, which a save leaves
\* alone.  For the rest the last text counts, it is all that a save writes, and
\* when it ends the registry has each of them: a text, or no value for an empty
\* one, the number, or the list (apxCmdlineParse, apxCmdlineLoadEnvVars,
\* loadConfiguration, saveConfiguration).
Final(name) ==
  LET last == Last(Texts(name)) IN
  CASE Kind[name] = "str" -> IF last = <<>> THEN Null ELSE <<last>>
    [] Kind[name] = "int" -> <<Number(last)>>
    [] Kind[name] = "msz" -> opts[name].value

LastWord ==
  at' = "save" \/ at = "save" =>
    \A name \in Names :
      LET texts == Texts(name) o == opts[name] IN
      /\ texts = <<>> => reg'[name] = reg[name]
      /\ texts # <<>> /\ Kind[name] = "str" => o.value = <<Last(texts)>>
      /\ texts # <<>> /\ Kind[name] = "int" => o.num = Number(Last(texts))
      /\ texts # <<>> /\ (at' = "saved" \/ reg'[name] # reg[name]) => reg'[name] = Final(name)

LastWordWins == [][LastWord]_optionsVars
=============================================================================
