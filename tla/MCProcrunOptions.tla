-------------------------- MODULE MCProcrunOptions --------------------------
(* One option of each kind, two words of any sort behind the command or     *)
(* three of the list.                                                      *)
EXTENDS ProcrunOptions

MCOptions == <<"Jvm", "JvmMs", "JvmOptions">>
MCKind == "Jvm" :> "str" @@ "JvmMs" :> "int" @@ "JvmOptions" :> "msz"

Plain(text) == [sign |-> "", name |-> "", text |-> <<text>>]
Joined(sign, name, text) == [sign |-> sign, name |-> name, text |-> <<text>>]
Alone(sign, name) == [sign |-> sign, name |-> name, text |-> <<>>]

Lists == { <<"a">>, <<"b", "#", "c">>, <<"'", "a", "'">>, <<"a", "#">>,
           <<"'", "a", "#", "b", "'">>, <<"\"", "a", "#", "\"">> }

ListWords == { Joined(sign, "JvmOptions", text) : sign \in {"--", "++"}, text \in Lists }
OtherWords == { Alone("--", "Jvm"), Alone("++", "JvmOptions"), Joined("--", "JvmMs", <<"5">>),
                Joined("++", "Jvm", <<"x">>), Joined("--", "Jvm", <<>>), Alone("--", "Other"),
                Plain(<<"y">>) }

Set(jvm, ms, options) == "Jvm" :> jvm @@ "JvmMs" :> ms @@ "JvmOptions" :> options

NoValues == Set(Null, Null, Null)

\* A variable that is read, and one that is not: empty ones are skipped or end
\* the loop, and one is too long.
Var(text) == <<text, FALSE>>
Bad == <<<<>>, TRUE>>
Long == <<"l", "o", "n", "g">>
Environments == { NoValues, Set(Var(<<"v">>), Null, Var(<<"e", "#", "f">>)),
                  Set(Var(<<>>), Var(<<"5">>), Var(Long)),
                  Set(Var(<<"v">>), Bad, Var(<<"e">>)) }
Registries   == { NoValues, Set(<<<<"r">>>>, <<7>>, <<<<"r", NUL, "s", NUL, NUL>>>>) }

Us == Alone("//", "US")
Update == <<"u", "p", "d", "a", "t", "e">>
MCAltCommands == {Update}
MCCases ==
  { <<<<Us>> \o line, env0, reg0>> :
      line \in UNION { [1 .. n -> ListWords \cup OtherWords] : n \in 0 .. 2 },
      env0 \in Environments, reg0 \in Registries }
  \cup { <<<<Us>> \o line, NoValues, reg0>> : line \in [1 .. 3 -> ListWords], reg0 \in Registries }
  \cup { <<line, NoValues, reg0>> :
           line \in { <<>>, <<Alone("//", "XX")>>, <<Alone("--", "Jvm")>>, <<Plain(<<"u", "p">>)>>,
                     <<Plain(Update)>>, <<Plain(Update), Plain(<<"y">>), Joined("--", "JvmMs", <<"5">>)>>,
                     <<Plain(Update), Joined("--", "JvmMs", <<"5">>), Plain(<<"y">>)>> },
           reg0 \in Registries }
=============================================================================
