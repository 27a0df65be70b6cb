--------------------------- MODULE MCStartRequest ---------------------------
(***************************************************************************)
(* What a request to start or to schedule a script goes through: the tab   *)
(* sends it and follows what becomes of it, the body is read, the values   *)
(* of the form turn into arguments, the output is searched for the prompt  *)
(* that a value waits for, the groups of the user decide on the access,    *)
(* and a schedule gets its next time. These share no state here: a         *)
(* behaviour takes one of them.                                            *)
(***************************************************************************)
EXTENDS FormReader, StdinListener, ScriptArguments, UserGroups, NextTimes,
        TabExecutors

VARIABLES
    about,   \* which of them
    params,  \* the parameters of the script
    values   \* the value wrappers of the parameters

others == <<about, formVars, stdinVars, scheduleVars, params, values, groups, tabVars>>

-----------------------------------------------------------------------------
(* Forms with a value and a file, whose contents look like a separator, or *)
(* like the end of a header, or hold a character of two bytes.             *)

Bodies == {<<>>, <<"r">>, <<"r", "n">>, <<"n", "r", "r", "n">>, <<"r", "n", "r", "n", "x">>,
           <<"x", "B">>, <<"1", "2", "r">>}

TwoParts ==
    {<<[name |-> "value", file |-> FALSE, body |-> b1], [name |-> "upload", file |-> TRUE, body |-> b2]>> :
        b1 \in Bodies, b2 \in Bodies}

Prompts == {<<"a">>, <<"a", "b">>, <<"a", "a", "b">>, <<"a", "b", "a", "b">>, <<"a", "b", "a", "a">>}

-----------------------------------------------------------------------------
(* Scripts with a positional parameter and two options. The texts of a     *)
(* parameter are made of its name, so that a secret is told from the rest. *)

Plain(name) ==
    [name |-> name, option |-> TRUE, no_value |-> FALSE, type |-> "text", constant |-> FALSE,
     required |-> FALSE, default |-> None, secure |-> FALSE, same_arg |-> FALSE,
     argument_type |-> "single_argument", max_length |-> 2, min |-> 0, max |-> 5,
     numbers |-> ("0" :> 0) @@ ("7" :> 7) @@ (name :> 5), values |-> {<<name>>, <<name, name>>},
     mapping |-> <<>>, pass_as |-> "default", env_var |-> name]

Multi(name) == [Plain(name) EXCEPT !.type = "multiselect"]

Positional(name) ==
    {[Plain(name) EXCEPT !.option = FALSE, !.secure = TRUE],
     [Plain(name) EXCEPT !.option = FALSE, !.secure = TRUE, !.constant = TRUE, !.default = Text(<<name>>)],
     [Multi(name) EXCEPT !.option = FALSE, !.secure = TRUE, !.argument_type = "argument_per_value"]}

Multiselects(name) ==
    {[Multi(name) EXCEPT !.argument_type = t, !.same_arg = same, !.secure = secure] :
        t \in {"single_argument", "argument_per_value", "repeat_param_value"},
        same \in BOOLEAN, secure \in BOOLEAN}

Label == <<"label">>

Singles(name) ==
    LET p == Plain(name) IN
    {p, [p EXCEPT !.secure = TRUE, !.same_arg = TRUE], [p EXCEPT !.type = "int"],
     [p EXCEPT !.no_value = TRUE], [p EXCEPT !.no_value = TRUE, !.constant = TRUE, !.default = Flag(TRUE)],
     [p EXCEPT !.type = "int", !.constant = TRUE, !.default = Number(0)],
     [p EXCEPT !.type = "list", !.mapping = <<[script |-> <<name>>, ui |-> Label]>>],
     [p EXCEPT !.type = "list", !.mapping = <<[script |-> <<name>>, ui |-> <<name, name>>]>>],
     [p EXCEPT !.pass_as = "argument"], [p EXCEPT !.pass_as = "env_variable"], [p EXCEPT !.pass_as = "stdin"]}

Scripts ==
    {<<p, q, r>> : p \in Positional("x"), q \in Singles("y") \cup Multiselects("y"),
                   r \in UNION {{r, [r EXCEPT !.env_var = "y"]} : r \in Singles("z")}}
    \cup {<<p, q, [Plain("z") EXCEPT !.env_var = "y"]>> :
            p \in {[Plain("x") EXCEPT !.env_var = "y"]}, q \in Singles("y")}

Inputs(p) ==
    CASE p.no_value -> {None, Flag(TRUE), Text(<<"false">>)}
      [] ~p.no_value /\ p.type = "int" -> {None, Text(<<"0">>), Number(0), Text(<<"7">>), Text(<<p.name>>)}
      [] ~p.no_value /\ p.type = "multiselect" ->
           {List(<<>>), Text(<<p.name>>), List(<<<<p.name>>, <<p.name, p.name>>>>), List(<<<<"other">>>>)}
      [] ~p.no_value /\ p.type = "list" -> {None, Text(<<p.name>>), Text(<<p.name, p.name>>), Text(Label)}
      [] OTHER -> {None, Text(<<>>), Text(<<p.name>>), Text(<<p.name, p.name>>), Text(<<p.name, p.name, p.name>>)}

Unset(script) == [i \in DOMAIN script |-> Wrapper(script[i], Normalized(script[i], None))]

(* A value of the form is taken if it is valid. *)
SetValue(i, v) ==
    LET user == Normalized(params[i], v) IN
    /\ Valid(params[i], user)
    /\ values' = [values EXCEPT ![i] = Wrapper(params[i], user)]
    /\ values' # values
    /\ UNCHANGED params

-----------------------------------------------------------------------------
(* Three groups, a user in another spelling and a group of the             *)
(* authenticator                                                           *)
ThreeGroups == {Group("g1"), Group("g2"), Group("g3")}
Ann == {Capitals(User("ann", ""))}
FromLdap == {Group("ldap")}

-----------------------------------------------------------------------------
NoForm == <<>>

Unused(kind) ==
    /\ kind # "form" => /\ form = NoForm /\ arrived = 0 /\ buffer = <<>> /\ part = NoPart
                        /\ parts = <<>> /\ failed = FALSE
    /\ kind # "stdin" => expected = <<>> /\ output = <<>> /\ tail = <<>> /\ valueSent = FALSE
    /\ kind # "schedule" => schedule = NoSchedule /\ now = 0
    /\ kind # "arguments" => params = <<>> /\ values = <<>>
    /\ kind # "groups" => groups = NoGroups
    /\ kind # "tab" => active = {} /\ breaks = 0

(* One older execution and one start with a fault, or two starts without.  *)
TwoExecutions ==
    /\ active # {} => breaks = 0
    /\ about = "tab" /\ active = {} => breaks = MaxBreaks
    /\ selected = AnyScript

AtMostTwo ==
    \A o \in Started :
        post'[o].at # "none" => o[2] + Cardinality({id \in Older : srv[id].life # "none"}) <= 2

RequestInit ==
    /\ about \in {"form", "stdin", "schedule", "arguments", "groups", "tab"}
    /\ TabInit /\ Unused(about) /\ TwoExecutions
    /\ about = "form" => FormInit
    /\ about = "stdin" => StdinInit
    /\ about = "schedule" => ScheduleInit
    /\ about = "arguments" => params \in Scripts /\ values = Unset(params)
    /\ about = "groups" => GroupsInit

RequestNext ==
    /\ UNCHANGED about
    /\ \/ /\ about = "form" /\ FormNext
          /\ UNCHANGED <<stdinVars, scheduleVars, params, values, groups, tabVars>>
       \/ /\ about = "stdin" /\ StdinNext
          /\ UNCHANGED <<formVars, scheduleVars, params, values, groups, tabVars>>
       \/ /\ about = "schedule" /\ TimePasses
          /\ UNCHANGED <<formVars, stdinVars, params, values, groups, tabVars>>
       \/ /\ about = "arguments" /\ \E i \in DOMAIN params : \E v \in Inputs(params[i]) : SetValue(i, v)
          /\ UNCHANGED <<formVars, stdinVars, scheduleVars, groups, tabVars>>
       \/ /\ about = "groups" /\ Regroup
          /\ UNCHANGED <<formVars, stdinVars, scheduleVars, params, values, tabVars>>
       \/ /\ about = "tab" /\ TabNext /\ AtMostTwo
          /\ UNCHANGED <<formVars, stdinVars, scheduleVars, params, values, groups>>

RequestSpec == RequestInit /\ [][RequestNext]_others

-----------------------------------------------------------------------------
(* The script reads from its arguments the values that were accepted.      *)
ReadBack == ArgumentsReadBack(params, values)

(* The audit log shows the arguments with every secret masked, and so does *)
(* the output of a script that prints an argument.                         *)
AuditSafe == AuditMasked(params, values) /\ OutputMasked(params, values)

(* A variable of the environment is the value of one parameter only.       *)
EnvOwned == EnvUnambiguous(params, values)

(* The script gets no value of a list that the list does not have.         *)
AllowedOnly == OnlyAllowed(params, values)

(* The script gets the values that were accepted, by arguments and by      *)
(* variables, and no others.                                               *)
ValuesReachScript == ReadBack /\ EnvOwned /\ AllowedOnly

(* However a form or an output is cut into chunks, the form that was sent  *)
(* is read, and the text that was waited for is found.                     *)
ChunksDoNotMatter == FormKept /\ SentWhenAsked
=============================================================================
