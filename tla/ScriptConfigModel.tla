------------------------- MODULE ScriptConfigModel -------------------------
(***************************************************************************)
(* The parameters of one loaded script and their values:                   *)
(* model/script_config.py, model/parameter_config.py, and what they take   *)
(* from react/properties.py, model/template_property.py and                *)
(* config/script/list_values.py.                                           *)
(*                                                                         *)
(* The parameters are lists.  The options of a parameter may depend on the *)
(* values of other parameters; the script may include a file chosen by the *)
(* value of the parameter IncludeKey, with more parameters.  A parameter   *)
(* that is removed stays an observer of the values: an object is an index  *)
(* of `objects', which only grows, in the order of subscription.           *)
(*                                                                         *)
(* A change of a value is a chain of observers.  The socket sees its       *)
(* effects one by one, so the chain is given as a sequence of frames: the  *)
(* model after each effect it can see (a change of the list of parameters  *)
(* or of the options of one) and the event it raises, if any.              *)
(***************************************************************************)
EXTENDS Integers, Sequences, SequencesExt, FiniteSets

CONSTANTS
    Names, Values,
    None,          \* no value
    Unset,         \* no entry in parameter_values
    Defs,          \* the parameter configs
    Original,      \* the ones in the script's own file
    IncludeKey,    \* the parameter in the template of `include'
    Included       \* the parameter configs of each included file

DefIds == DOMAIN Defs
Originals == {Defs[Original[i]].name : i \in DOMAIN Original}

ASSUME DefsAssumption ==
    /\ IsFiniteSet(Names) /\ Original \in Seq(DefIds)
    /\ None \notin Values /\ Unset \notin Values \cup {None}
    /\ \A d \in DefIds :
        /\ Defs[d].name \in Names /\ Defs[d].needs \subseteq Names
        /\ Defs[d].default \in Values \cup {None}
        /\ Defs[d].copies \in Names \cup {None}
        /\ Defs[d].derived \in [Values \cup {None} -> Values \cup {None}]
        /\ Defs[d].options \in [[Defs[d].needs -> Values] -> SUBSET Values]
    /\ IncludeKey \in Originals
    /\ Included \in [Values -> Seq(DefIds)]

Empty(v) == v \in {None, Unset}
ParametersOf(v) == IF Empty(v) THEN <<>> ELSE Included[v]

(* The options of a parameter under the given values: none as long as a    *)
(* parameter they depend on is empty.                                      *)
Options(d, values) ==
    IF \E n \in Defs[d].needs : Empty(values[n]) THEN {}
    ELSE Defs[d].options[[n \in Defs[d].needs |-> values[n]]]

NewObject(d, values) == [def |-> d, allowed |-> Options(d, values)]
DefOf(m, i) == Defs[m.objects[i].def]

(* find_parameter: the first one of that name, 0 if there is none. *)
Place(m, n) == LET named == {k \in DOMAIN m.shown : DefOf(m, m.shown[k]).name = n}
               IN  IF named = {} THEN 0 ELSE Min(named)
Find(m, n) == IF Place(m, n) = 0 THEN 0 ELSE m.shown[Place(m, n)]

(* create_value_wrapper: a constant parameter has its default whatever the *)
(* user says.                                                              *)
Wrap(d, v) == IF Defs[d].constant THEN Defs[d].default ELSE v
Valid(m, i, v) == DefOf(m, i).constant \/ Empty(v) \/ v \in m.objects[i].allowed

NoEvent == [kind |-> "none"]
External(m, i) == [def |-> m.objects[i].def, allowed |-> m.objects[i].allowed]
Config(m) == LET visible == SelectSeq(m.shown, LAMBDA i : ~DefOf(m, i).constant)
             IN  [k \in DOMAIN visible |-> External(m, visible[k])]

-----------------------------------------------------------------------------
(* A chain in progress: the model, the frames so far, and whether an       *)
(* observer has raised an exception (which ends that observer only).       *)
Chain(m) == [m |-> m, frames |-> <<>>, raised |-> FALSE]
Frame(s, m, event) ==
    [m |-> m, frames |-> Append(s.frames, [model |-> m, event |-> event]), raised |-> s.raised]

Recompute(s, i) ==
    LET allowed == Options(s.m.objects[i].def, s.m.values)
        m == [s.m EXCEPT !.objects[i].allowed = allowed]
    IN  IF allowed = s.m.objects[i].allowed THEN s
        ELSE Frame(s, m, [kind |-> "changed", object |-> i, param |-> External(m, i)])

Store(s, n, v) == [s EXCEPT !.m.values[n] = v]

(* The parameters that depend on n hear of it in the order of creation. *)
Notify(s, n) ==
    LET Told[k \in 0..Len(s.m.objects)] ==
          IF k = 0 THEN s
          ELSE IF n \in DefOf(s.m, k).needs THEN Recompute(Told[k - 1], k) ELSE Told[k - 1]
    IN  Told[Len(s.m.objects)]

(* The parameters of the old file stay. *)
RemoveParameterNever(s, n) == s

RemoveParameter(s, n) ==
    LET i == Find(s.m, n)
        m == [s.m EXCEPT !.shown = RemoveAt(@, Place(s.m, n))]
        out == Frame(s, m, NoEvent)
    IN  IF s.raised \/ n \in Originals THEN s
        ELSE IF i = 0 THEN [s EXCEPT !.raised = TRUE]
        ELSE IF DefOf(m, i).constant THEN out
        ELSE Frame(out, m, [kind |-> "removed", name |-> n])

AddParameter(s, d) ==
    LET n == Defs[d].name
        i == Len(s.m.objects) + 1
        m == [s.m EXCEPT !.objects = Append(@, NewObject(d, s.m.values)),
                         !.shown = Append(@, i)]
        in == Frame(s, m, NoEvent)
        told == IF Defs[d].constant THEN in
                ELSE Frame(in, m, [kind |-> "added", object |-> i, param |-> External(m, i)])
    IN  IF s.raised \/ Find(s.m, n) # 0 THEN s
        ELSE IF s.m.values[n] # Unset THEN told
        ELSE Notify(Store(told, n, Wrap(d, Defs[d].default)), n)

(* The names of the old file are a set: each is removed once. *)
RemoveParameters(s, file) ==
    LET NameOf(k) == Defs[file[k]].name
        Less[k \in 0..Len(file)] ==
          IF k = 0 THEN s
          ELSE IF \E j \in 1..k - 1 : NameOf(j) = NameOf(k) THEN Less[k - 1]
          ELSE RemoveParameter(Less[k - 1], NameOf(k))
    IN  Less[Len(file)]

AddParameters(s, file) ==
    LET More[k \in 0..Len(file)] ==
          IF k = 0 THEN s ELSE AddParameter(More[k - 1], file[k])
    IN  More[Len(file)]

(* The template of `include' under the given values. *)
File(values) == IF Empty(values[IncludeKey]) THEN None ELSE values[IncludeKey]

(* The included parameters follow the value of IncludeKey.  The model      *)
(* watches it only after its constructor has set the defaults.             *)
Include(s) ==
    LET file == File(s.m.values)
        old == s.m.included
        in == [s EXCEPT !.m.included = file]
    IN  IF file = old \/ ~s.m.watching THEN in
        ELSE [AddParameters(RemoveParameters(in, ParametersOf(old)), ParametersOf(file))
              EXCEPT !.raised = FALSE]

Assign(s, n, v) ==
    IF v = s.m.values[n] THEN s
    ELSE LET stored == Store(s, n, v)
         IN  Notify(IF n = IncludeKey THEN Include(stored) ELSE stored, n)

-----------------------------------------------------------------------------
(* The operations. *)

Blank ==
    [objects |-> [k \in DOMAIN Original |->
                     NewObject(Original[k], [n \in Names |-> Unset])],
     shown |-> [k \in DOMAIN Original |-> k],
     values |-> [n \in Names |-> Unset], included |-> None, watching |-> FALSE]

NewModel ==
    LET Filled[k \in 0..Len(Original)] ==
          IF k = 0 THEN Chain(Blank)
          ELSE LET d == Original[k]
               IN  Assign(Filled[k - 1], Defs[d].name, Wrap(d, Defs[d].default))
    IN  [Filled[Len(Original)].m EXCEPT !.watching = TRUE]

(* set_param_value: an invalid value clears the parameter. *)
SetValue(m, n, v) ==
    LET i == Find(m, n)
        ok == i = 0 \/ Valid(m, i, Wrap(m.objects[i].def, v))
        s == IF i = 0 THEN Chain(m)
             ELSE Assign(Chain(m), n, Wrap(m.objects[i].def, IF ok THEN v ELSE None))
    IN  [ok |-> ok, frames |-> s.frames, result |-> s.m]

(* set_all_param_values with skip_invalid_parameters: passes over the      *)
(* parameters, first the ones there were at the beginning.                 *)
SetOne(given, s, i) ==
    LET n == DefOf(s.m, i).name
        v == Wrap(s.m.objects[i].def, given[n])
    IN  IF n \in s.done \/ DefOf(s.m, i).needs \ s.done # {} THEN s
        ELSE [m |-> Assign(Chain(s.m), n, IF Valid(s.m, i, v) /\ v # Unset THEN v ELSE None).m,
              done |-> s.done \cup {n}]

Pass(given, s, list, skipped) ==
    LET Upto[k \in 0..Len(list)] ==
          IF k = 0 THEN s
          ELSE IF list[k] \in skipped THEN Upto[k - 1] ELSE SetOne(given, Upto[k - 1], list[k])
    IN  Upto[Len(list)]

(* One pass over the parameters there were at the beginning. *)
SetAllOnce(m, given) == Pass(given, [m |-> m, done |-> {}], m.shown, {}).m

(* IncludeKey comes first, then those that depend on fewer parameters. *)
Sorted(m) ==
    LET Rank(i) == Cardinality(DefOf(m, i).needs) + IF DefOf(m, i).name = IncludeKey THEN 0 ELSE 100
        Least(S) == CHOOSE i \in S : \A j \in S : Rank(i) < Rank(j) \/ (Rank(i) = Rank(j) /\ i <= j)
        First[k \in 0..Cardinality(Range(m.shown))] ==
          IF k = 0 THEN <<>> ELSE Append(First[k - 1], Least(Range(m.shown) \ Range(First[k - 1])))
    IN  First[Cardinality(Range(m.shown))]

(* Each pass ends with the parameters that were not there at the beginning. *)
SetAll(m, given) ==
    LET Both(s) == Pass(given, Pass(given, s, Sorted(m), {}), s.m.shown, Range(Sorted(m)))
        Passed[k \in 0..Cardinality(Names)] ==
          IF k = 0 THEN [m |-> m, done |-> {}] ELSE Both(Passed[k - 1])
    IN  Passed[Cardinality(Names)].m

(* The parameters there should be for the file included now. *)
Expected(m) ==
    Originals \cup {Defs[d].name : d \in Range(ParametersOf(m.values[IncludeKey]))}
Present(m) == {DefOf(m, i).name : i \in Range(m.shown)}
=============================================================================
