--------------------------- MODULE ScriptArguments ---------------------------
(***************************************************************************)
(* From the values of a form to what the script gets: whether a value is   *)
(* accepted, what it is mapped to, and the command line, the environment   *)
(* and the standard input made of it (model/parameter_config.py,           *)
(* execution/executor.py).                                                 *)
(*                                                                         *)
(* A text is the sequence of its atoms: <<>> is blank, <<"a", "b">> is the *)
(* text "a" and the text "b", joined with the separator.                   *)
(***************************************************************************)
EXTENDS Integers, Sequences, FiniteSets, SequencesExt, TLC

None == [is |-> "none"]

Text(atoms) == [is |-> "text", text |-> atoms]

Number(n) == [is |-> "number", number |-> n]

Flag(b) == [is |-> "flag", flag |-> b]

List(texts) == [is |-> "list", list |-> texts]

Mask == <<"******">>

(* is_empty *)
Empty(v) == v \in {None, Text(<<>>), List(<<>>)}

(* What python takes for false *)
Falsy(v) == Empty(v) \/ v \in {Number(0), Flag(FALSE)}

(* read_bool *)
IsTrue(v) == v \in {Flag(TRUE), Text(<<"true">>)}

(* str(value); p.numbers has the numbers that texts stand for. *)
StrOf(p, v) ==
    CASE v.is = "number" -> <<CHOOSE a \in DOMAIN p.numbers : p.numbers[a] = v.number>>
      [] v.is = "text" -> v.text
      [] v.is = "list" -> FlattenSeq(v.list)
      [] v.is = "flag" -> <<IF v.flag THEN "true" ELSE "false">>
      [] OTHER -> <<"none">>

-----------------------------------------------------------------------------
(* validate_value, for the types of a flag, a text, an integer, a list and *)
(* a multiselect. A text is a number if its only atom is in p.numbers.     *)

AsNumber(p, v) == IF v.is = "number" THEN v.number ELSE p.numbers[v.text[1]]

ValidNumber(p, v) ==
    /\ v.is = "text" => Len(v.text) = 1 /\ v.text[1] \in DOMAIN p.numbers
    /\ v.is \in {"number", "text"}
    /\ AsNumber(p, v) \in p.min..p.max

(* get_ui_values: a text the mapping does not know is shown as it is. *)
Shown(p, text) ==
    LET known == {i \in DOMAIN p.mapping : p.mapping[i].script = text} IN
    IF known = {} THEN text ELSE p.mapping[Min(known)].ui

UiValues(p) == {Shown(p, text) : text \in p.values}

Valid(p, v) ==
    IF p.constant THEN TRUE
    ELSE IF Empty(v) THEN ~p.required
    ELSE CASE p.no_value -> v.is = "flag" \/ v \in {Text(<<"true">>), Text(<<"false">>)}
           [] p.type = "text" -> v.is = "text" /\ Len(v.text) <= p.max_length
           [] p.type = "int" -> ValidNumber(p, v)
           [] p.type = "list" -> v.is = "text" /\ v.text \in UiValues(p)
           [] p.type = "multiselect" -> v.is = "list" /\ Range(v.list) \subseteq UiValues(p)

(* Mutant: what the form shows goes to the script. *)
AsShown(p, text) == text

(* values_ui_mapping: the first value of the script that is shown so *)
Mapped(p, text) ==
    LET known == {i \in DOMAIN p.mapping : p.mapping[i].ui = text} IN
    IF known = {} THEN text ELSE p.mapping[Min(known)].script

MapToScript(p, v) ==
    CASE v.is = "text" -> Text(Mapped(p, v.text))
      [] v.is = "list" -> List([i \in DOMAIN v.list |-> Mapped(p, v.list[i])])
      [] OTHER -> v

ToScriptArgs(p, v) ==
    IF p.type = "multiselect" /\ p.argument_type = "single_argument" /\ v.is = "list"
    THEN Text(FlattenSeq(v.list)) ELSE v

(* Mutant: a list is taken for a text. *)
SecuredTexts(p, v) ==
    IF ~p.secure \/ v.is # "text" THEN v ELSE Text(Mask)

(* get_secured_value, the values of a list one by one *)
Secured(p, v) ==
    CASE ~p.secure \/ v = None \/ p.no_value -> v
      [] p.secure /\ ~p.no_value /\ v.is = "list" -> List([i \in DOMAIN v.list |-> Mask])
      [] OTHER -> Text(Mask)

(* normalize_user_value *)
Normalized(p, v) ==
    IF p.type # "multiselect" \/ v.is = "list" THEN v
    ELSE IF Empty(v) THEN List(<<>>) ELSE List(<<v.text>>)

(* create_value_wrapper: the value of the user, what it is mapped to, what *)
(* the script gets and what the audit log gets. A constant of a list is    *)
(* not taken apart.                                                        *)
Wrapper(p, user) ==
    LET mapped == IF p.no_value /\ user # None THEN Flag(IsTrue(user)) ELSE MapToScript(p, user)
        arg == ToScriptArgs(p, mapped) IN
    IF p.constant
    THEN [user |-> None, mapped |-> p.default, arg |-> p.default,
          secure |-> Text(IF p.secure THEN Mask ELSE StrOf(p, p.default))]
    ELSE [user |-> user, mapped |-> mapped, arg |-> arg, secure |-> Secured(p, arg)]

-----------------------------------------------------------------------------
(* build_command_args. An argument is an option, a value or an option with *)
(* the value glued to it.                                                  *)

Option(p) == [option |-> p.name, value |-> <<>>]

Value(text) == [option |-> "", value |-> text]

Glued(p, text) == [option |-> p.name, value |-> text]

(* Mutant: the option of a repeated value is written once. *)
OptionOnce(p, texts) ==
    LET values == [i \in DOMAIN texts |-> Value(texts[i])] IN
    IF ~p.option THEN values
    ELSE IF p.same_arg THEN <<Glued(p, Head(texts))>> \o Tail(values)
    ELSE <<Option(p)>> \o values

(* argument_per_value, repeat_param_value, and for a list that should have *)
(* been joined nothing at all *)
ListArguments(p, texts) ==
    LET values == [i \in DOMAIN texts |-> Value(texts[i])] IN
    CASE ~p.option -> values
      [] p.option /\ p.argument_type = "argument_per_value" ->
           IF p.same_arg THEN <<Glued(p, Head(texts))>> \o Tail(values) ELSE <<Option(p)>> \o values
      [] p.option /\ p.argument_type = "repeat_param_value" ->
           FlattenSeq([i \in DOMAIN texts |->
               IF p.same_arg THEN <<Glued(p, texts[i])>> ELSE <<Option(p), values[i]>>])
      [] p.option /\ p.argument_type = "single_argument" -> <<>>

Arguments(p, v) ==
    CASE p.no_value -> IF v = Flag(TRUE) /\ p.option THEN <<Option(p)>> ELSE <<>>
      [] ~p.no_value /\ Falsy(v) -> <<>>
      [] ~p.no_value /\ ~Falsy(v) /\ v.is = "list" -> ListArguments(p, v.list)
      [] OTHER -> LET text == StrOf(p, v) IN
                  IF ~p.option THEN <<Value(text)>>
                  ELSE IF p.same_arg THEN <<Glued(p, text)>> ELSE <<Option(p), Value(text)>>

(* PassAsConfiguration: an argument and a variable unless configured *)
PassedAs(p, way) ==
    IF p.pass_as = "default" THEN way \in {"argument", "env_variable"} ELSE way = p.pass_as

(* build_command_args, for the values themselves or for the secured ones *)
CommandArgs(params, chosen) ==
    FlattenSeq([i \in DOMAIN params |->
        IF PassedAs(params[i], "argument") THEN Arguments(params[i], chosen[i]) ELSE <<>>])

ScriptArgs(params, values) == CommandArgs(params, [i \in DOMAIN params |-> values[i].arg])

(* get_secure_command *)
AuditArgs(params, values) == CommandArgs(params, [i \in DOMAIN params |-> values[i].secure])

(* Mutant: a list is one secret. *)
ValueAsSecret(v) == IF v.is = "list" THEN {FlattenSeq(v.list)} ELSE {v.text}

(* __init_secure_replacements: the texts of a value that are masked *)
SecretsOf(v) == IF v.is = "list" THEN Range(v.list) ELSE {v.text}

SecretTexts(params, values) ==
    UNION {SecretsOf(values[i].mapped) :
        i \in {j \in DOMAIN params : params[j].secure /\ values[j].mapped.is \in {"text", "list"}}} \ {<<>>}

(* __replace_secure_variables *)
Protected(params, values, output) ==
    FoldLeft(LAMBDA text, secret : ReplaceAllSubSeqs(Mask, secret, text),
             output, SetToSeq(SecretTexts(params, values)))

-----------------------------------------------------------------------------
(* _build_env_variables: a variable of two parameters is nobody's.         *)

Skipped(p, v, s) ==
    v.is \in {"none", "list"} \/ ~PassedAs(p, "env_variable") \/ p.env_var \in s.excluded

(* Mutant: the variable is not remembered as excluded. *)
ExcludeOnce(s, e) == [s EXCEPT !.vars = Restrict(@, DOMAIN @ \ {e})]

Exclude(s, e) == [vars |-> Restrict(s.vars, DOMAIN s.vars \ {e}), excluded |-> s.excluded \cup {e}]

Set(s, e, text) ==
    [s EXCEPT !.vars = [d \in DOMAIN s.vars \cup {e} |-> IF d = e THEN text ELSE s.vars[d]]]

AddVariable(s, p, v) ==
    CASE Skipped(p, v, s) -> s
      [] ~Skipped(p, v, s) /\ p.env_var \in DOMAIN s.vars -> Exclude(s, p.env_var)
      [] ~Skipped(p, v, s) /\ p.env_var \notin DOMAIN s.vars ->
           IF p.no_value /\ ~IsTrue(v) THEN s
           ELSE Set(s, p.env_var, IF p.no_value THEN <<"true">> ELSE StrOf(p, v))

EnvVariables(params, values) ==
    LET Built[k \in 0..Len(params)] ==
          IF k = 0 THEN [vars |-> <<>>, excluded |-> {}]
          ELSE AddVariable(Built[k - 1], params[k], values[k].arg)
    IN Built[Len(params)].vars

(* send_stdin_parameters *)
StdinText(p, v) ==
    IF p.no_value THEN <<IF IsTrue(v) THEN "true" ELSE "false">> ELSE StrOf(p, v)

StdinTexts(params, values) ==
    LET sent == {i \in DOMAIN params : PassedAs(params[i], "stdin") /\ values[i].arg # None} IN
    [i \in sent |-> StdinText(params[i], values[i].arg)]

-----------------------------------------------------------------------------
(* How a script reads its arguments, which knows its options and which of  *)
(* them take a value, or several                                           *)

Owner(params, args, i) ==
    LET before == {k \in 1..i : args[k].option # ""}
        k == Max(before)
        p == params[CHOOSE j \in DOMAIN params : params[j].name = args[k].option]
        takes == \/ k = i
                 \/ p.type = "multiselect" /\ p.argument_type = "argument_per_value"
                 \/ ~p.no_value /\ i = k + 1 /\ args[k].value = <<>>
    IN IF before # {} /\ takes THEN p.name ELSE ""

(* The texts of an option, or of the positional arguments for "" *)
TextsRead(params, args, name) ==
    LET own == SelectSeq([i \in DOMAIN args |-> [owner |-> Owner(params, args, i), text |-> args[i].value]],
                         LAMBDA a : a.owner = name /\ a.text # <<>>)
    IN [i \in DOMAIN own |-> own[i].text]

OptionRead(args, p) == \E i \in DOMAIN args : args[i].option = p.name

(* What the script should get of a parameter. Two values do not arrive,    *)
(* and are left out here: the number 0, which counts as no value, and the  *)
(* constant list of an option that takes one argument.                     *)
TextsMeant(p, v) ==
    CASE v.is = "list" ->
           IF p.option /\ p.argument_type = "single_argument" THEN <<>> ELSE v.list
      [] v.is # "list" /\ ~p.no_value /\ ~Falsy(v) -> <<StrOf(p, v)>>
      [] OTHER -> <<>>

ArgumentsReadBack(params, values) ==
    LET args == ScriptArgs(params, values)
        meant == [i \in DOMAIN params |->
                     IF PassedAs(params[i], "argument") THEN TextsMeant(params[i], values[i].arg) ELSE <<>>]
        positional == FlattenSeq([i \in DOMAIN params |-> IF params[i].option THEN <<>> ELSE meant[i]])
    IN /\ TextsRead(params, args, "") = positional
       /\ \A i \in {j \in DOMAIN params : params[j].option} :
             /\ TextsRead(params, args, params[i].name) = meant[i]
             /\ params[i].no_value /\ PassedAs(params[i], "argument") =>
                   (OptionRead(args, params[i]) <=> values[i].arg = Flag(TRUE))

Atoms(args) == UNION {Range(args[i].value) : i \in DOMAIN args}

(* The constants and the empty secrets have another shape in the audit log. *)
AuditMasked(params, values) ==
    LET args == ScriptArgs(params, values)
        audit == AuditArgs(params, values)
        secret == {i \in DOMAIN params : params[i].secure /\ ~params[i].no_value}
        alike == \A i \in DOMAIN params :
                    ~params[i].constant /\ (params[i].secure => ~Falsy(values[i].arg))
    IN /\ \A i \in secret : Range(StrOf(params[i], values[i].arg)) \cap Atoms(audit) = {}
       /\ alike => /\ Len(args) = Len(audit)
                   /\ \A k \in DOMAIN args :
                        /\ audit[k].option = args[k].option
                        /\ audit[k].value # args[k].value => audit[k].value = Mask

(* The output of a script that prints one of its arguments at once *)
OutputMasked(params, values) ==
    \A i \in DOMAIN params :
        params[i].secure /\ values[i].arg.is = "text" =>
            Range(values[i].arg.text) \cap Range(Protected(params, values, values[i].arg.text)) = {}

Claims(params, values, e) ==
    {i \in DOMAIN params :
        /\ PassedAs(params[i], "env_variable") /\ params[i].env_var = e
        /\ values[i].arg.is \notin {"none", "list"}
        /\ params[i].no_value => IsTrue(values[i].arg)}

EnvUnambiguous(params, values) ==
    LET env == EnvVariables(params, values) IN
    \A e \in DOMAIN env : \E i \in DOMAIN params :
        /\ Claims(params, values, e) = {i}
        /\ env[e] = IF params[i].no_value THEN <<"true">> ELSE StrOf(params[i], values[i].arg)

(* A label of the mapping that is itself another value of the parameter    *)
(* leads to that other value.                                              *)
LabelsApart(p) ==
    \A i \in DOMAIN p.mapping : p.mapping[i].script \in p.values /\ p.mapping[i].ui \notin p.values

OnlyAllowed(params, values) ==
    \A i \in DOMAIN params :
        LET v == values[i].mapped IN
        LabelsApart(params[i]) /\ ~params[i].constant =>
            /\ params[i].type = "list" /\ v.is = "text" /\ ~Empty(v) => v.text \in params[i].values
            /\ params[i].type = "multiselect" /\ v.is = "list" => Range(v.list) \subseteq params[i].values
=============================================================================
