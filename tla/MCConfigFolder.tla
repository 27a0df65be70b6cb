---------------------------- MODULE MCConfigFolder ----------------------------
(***************************************************************************)
(* The files of the server, in the two parts of its life that change them: *)
(* the start, with its migrations, and the service of the administrators.  *)
(* The instance takes them one at a time.                                  *)
(***************************************************************************)
EXTENDS ConfigService, Migrations

VARIABLE part

(* Two scripts whose names give one file name, and administrators of whom  *)
(* one is not allowed to edit all of them.                                 *)
Base == [n \in Names |-> IF n = "a b" THEN "a_b" ELSE n]

TopFiles == <<Path("runners", "a_b", 0), Path("runners", "a_b", 1)>>

ann == User("ann", "x.org")
bob == User("bob", "x.org")
cat == User("cat", "")

Ops == Group("ops")

OpsOf(u) == IF Normal(u) = bob THEN {Ops} ELSE {}

Everyone == [admins |-> {AnyUser}, users |-> {AnyUser}, hidden |-> FALSE]
OpsOnly == [admins |-> {Ops}, users |-> {DomainOf("x.org")}, hidden |-> FALSE]
Hidden == [Everyone EXCEPT !.hidden = TRUE]

(* That of none of the administrators of the instance *)
Locked == [OpsOnly EXCEPT !.admins = {cat}]

SomeSettings == {Everyone, Hidden, Locked}

HandMade == {OpsOnly}

Admins == {ann, bob}
Reader == {cat}
AdminList == {ann, Capitals(bob)}
EditorList == {Ops}

(* Two configs, conf.json and two logs of an older version *)
Runner(output, format, repeat, same, multiple) ==
    [output_files |-> output, bash_formatting |-> format, output_format |-> "none",
     repeat_param |-> repeat, same_arg_param |-> same, multiple_arguments |-> multiple,
     argument_type |-> "none"]
Old == {Runner("$$$", "false", "none", "true", "none"), Runner("none", "true", "false", "none", "true"),
        Runner("$$$", "none", "true", "true", "true")}
New == {[Runner("${}", "none", "none", "true", "none") EXCEPT !.output_format = "text", !.argument_type = "argument_per_value"]}

OldConf(place) == [access |-> place, username_pattern |-> "old"]
OldLog(n) == [is |-> "log", id |-> n, user_id |-> FALSE]
Disk(r1, r2, c, l1, l2) == ("r1" :> r1) @@ ("r2" :> r2) @@ ("conf" :> c) @@ ("l1" :> l1) @@ ("l2" :> l2)
Disks == {Disk(Runner("$$$", "false", "none", "true", "none"), Runner("none", "true", "false", "none", "true"), OldConf("old"), Headless, OldLog(0)),
          Disk(Missing, Runner("$$$", "none", "true", "true", "true"), OldConf("new"), OldLog(0), OldLog(1))}

-----------------------------------------------------------------------------
FolderInit ==
    /\ Init /\ StartInit
    /\ part \in {"serving", "starting"}
    /\ part = "serving" => \A f \in Files : disk[f] = Missing
    /\ part = "starting" => \A f \in Paths : files[f] = Absent

Serving == part = "serving" /\ Next /\ UNCHANGED startVars /\ UNCHANGED part

Starting == part = "starting" /\ StartNext /\ UNCHANGED vars /\ UNCHANGED part

FolderSpec ==
    /\ FolderInit
    /\ [][Serving \/ Starting]_<<part, vars, startVars>>
    /\ WF_startVars(part = "starting" /\ StartStep /\ UNCHANGED <<part, vars>>)

=============================================================================
