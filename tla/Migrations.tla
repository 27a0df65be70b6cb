------------------------------ MODULE Migrations ------------------------------
(***************************************************************************)
(* The start of the server on the files of an older version: the           *)
(* migrations rewrite the configs of the scripts, conf.json and the logs,  *)
(* one after another, and temp/migrations.txt records what was applied     *)
(* (migrations/migrate.py, called by main.py). A crash may come between    *)
(* any two file operations; the temp folder may be lost between two runs   *)
(* of the server, as it is not one of the folders to keep.                 *)
(***************************************************************************)
EXTENDS Naturals, Sequences, FiniteSets, FiniteSetsExt, SequencesExt

CONSTANTS
    Conf,        \* conf.json
    Runners,     \* the files of the runners folder
    Logs,        \* the log files of executions
    OldDisks,    \* bound: the files as the older version left them
    NewRunners,  \* bound: configs for this version
    MaxStops,    \* bound: crashes and regular stops
    MaxLosses    \* bound: losses of the temp folder

ASSUME FilesAssumption ==
    /\ Conf \notin Runners \cup Logs /\ Runners \cap Logs = {}
    /\ IsFiniteSet(Logs)

VARIABLES
    disk,      \* from files to their fields
    intended,  \* from runner files to what their author meant, for properties
    recorded,  \* the lines of migrations.txt
    server,    \* how far the start is
    todo,      \* to_migrate, the index of the loop over it and has_changes
    migrated,  \* the migrations recorded before or applied
    work,      \* the files left to the migration being applied, the content being written
    current,   \* the runner files with the arguments of this version, for properties
    confused,  \* those of them that repeat_param met nevertheless, for properties
    stops, losses

startVars ==
    <<disk, intended, recorded, server, todo, migrated, work, current, confused, stops, losses>>

Registered == <<"execution_info", "user_id", "access_config", "output_files",
                "bash_formatting", "repeat_param", "ldap_resolver">>

Requires(m) == IF m = "user_id" THEN {"execution_info"} ELSE {}

Files == {Conf} \cup Runners \cup Logs

(* A file that was truncated and not written, and one that is not there *)
Broken == [is |-> "broken"]

Missing == [is |-> "missing"]

(* What the files may hold: the fields of a config that the migrations     *)
(* read, or the header of a log, which the oldest ones do not have.        *)
Flag == {"none", "true", "false"}

RunnerFile ==
    [output_files : {"none", "$$$", "${}"}, bash_formatting : Flag,
     output_format : {"none", "text", "terminal"}, repeat_param : Flag,
     same_arg_param : Flag, multiple_arguments : Flag,
     argument_type : {"none", "single_argument", "argument_per_value", "repeat_param_value"}]

Headless == [is |-> "bare"]

LogFile == [is : {"log"}, id : Nat, user_id : BOOLEAN]

(* The older version wrote none of the fields that came later, and gave    *)
(* every log an id of its own.                                             *)
ASSUME OldAssumption ==
    \A d \in OldDisks :
        /\ DOMAIN d = Files
        /\ \A f \in Runners :
              \/ d[f] = Missing
              \/ /\ d[f] \in RunnerFile
                 /\ d[f].output_format = "none" /\ d[f].argument_type = "none"
        /\ \A l \in Logs : d[l] \in {Missing, Headless} \cup LogFile
        /\ \A k, l \in Logs :
              k # l /\ d[k].is = "log" /\ d[l].is = "log" => d[k].id # d[l].id

(* A config for this version has none of the older fields.                 *)
ASSUME NewAssumption ==
    \A r \in NewRunners :
        /\ r \in RunnerFile /\ r.output_files # "$$$" /\ r.bash_formatting = "none"
        /\ r.repeat_param = "none" /\ r.multiple_arguments = "none"

-----------------------------------------------------------------------------
(* The migrations, as functions on the fields they read. A field that is   *)
(* not in the file is "none".                                              *)

(* migrate_output_files_parameters_substitution: $$$name becomes ${name} *)
OutputFiles(r) == [r EXCEPT !.output_files = IF @ = "$$$" THEN "${}" ELSE @]

BashFormatting(r) ==
    IF r.bash_formatting = "none" THEN r
    ELSE [r EXCEPT !.bash_formatting = "none",
                   !.output_format = IF r.bash_formatting = "false" THEN "text" ELSE "terminal"]

Opposite(flag) == IF flag = "true" THEN "false" ELSE "true"

RepeatParamInPlace(r) ==
    IF {r.repeat_param, r.same_arg_param, r.multiple_arguments} = {"none"} THEN r
    ELSE [r EXCEPT !.repeat_param = "none",
                   !.multiple_arguments = "none",
                   !.same_arg_param = IF r.repeat_param = "none" THEN "none"
                                      ELSE Opposite(r.repeat_param),
                   !.argument_type = IF "true" \in {r.same_arg_param, Opposite(r.repeat_param)} THEN "repeat_param_value"
                                     ELSE IF r.multiple_arguments = "true" THEN "argument_per_value"
                                     ELSE @]

RepeatParam(r) ==
    IF {r.repeat_param, r.same_arg_param, r.multiple_arguments} = {"none"} THEN r
    ELSE [r EXCEPT !.repeat_param = "none",
                   !.multiple_arguments = "none",
                   !.same_arg_param = IF r.repeat_param = "none" THEN "none"
                                      ELSE Opposite(r.repeat_param),
                   !.argument_type = IF r.same_arg_param = "true" THEN "repeat_param_value"
                                     ELSE IF r.multiple_arguments = "true" THEN "argument_per_value"
                                     ELSE @]

(* move_to_access: the access fields leave their old place for `access'.   *)
AccessConfig(c) == [c EXCEPT !.access = IF @ = "old" THEN "new" ELSE @]

LdapResolver(c) == [c EXCEPT !.username_pattern = IF @ = "old" THEN "new" ELSE @]

(* A log without a header gets one, with the first number that no log has; *)
(* one with a `user' gets the fields that came instead of it.              *)
UserId(log) == IF log.is = "log" THEN [log EXCEPT !.user_id = TRUE] ELSE log

Ids == {disk[l].id : l \in {k \in Logs : disk[k].is = "log"}}

CountIds == Cardinality(Ids)

FreeId == Min((0..Cardinality(Logs)) \ Ids)

ExecutionInfo(log) ==
    IF log.is = "log" THEN log ELSE [is |-> "log", id |-> FreeId, user_id |-> TRUE]

Change(m, content) ==
    IF content = Missing \/ (content = Broken /\ m # "execution_info") THEN content
    ELSE CASE m = "execution_info" -> ExecutionInfo(content)
           [] m = "user_id" -> UserId(content)
           [] m = "access_config" -> AccessConfig(content)
           [] m = "output_files" -> OutputFiles(content)
           [] m = "bash_formatting" -> BashFormatting(content)
           [] m = "repeat_param" -> RepeatParam(content)
           [] m = "ldap_resolver" -> LdapResolver(content)

(* The files a migration reads, of which it writes those that change: one  *)
(* that cannot be parsed is left alone, but see Begin.                     *)
Reads(m) ==
    CASE m \in {"execution_info", "user_id"} -> Logs
      [] m \in {"access_config", "ldap_resolver"} -> {Conf}
      [] OTHER -> Runners

Changed(m) == {f \in Reads(m) : Change(m, disk[f]) # disk[f]}

-----------------------------------------------------------------------------
(* The start of the server                                                 *)

NoTodo == [left |-> <<>>, i |-> 1, changes |-> FALSE]

NoWork == [m |-> "none", files |-> {}, content |-> Missing]

Lines == IF recorded \in {Missing, Broken} THEN {} ELSE recorded.lines

Unrecorded(m) == IF m \in Lines THEN <<>> ELSE <<m>>

(* to_migrate: the registered migrations that are not recorded *)
ToMigrate ==
    Unrecorded(Registered[1]) \o Unrecorded(Registered[2]) \o Unrecorded(Registered[3]) \o
    Unrecorded(Registered[4]) \o Unrecorded(Registered[5]) \o Unrecorded(Registered[6]) \o
    Unrecorded(Registered[7])

(* migrate, called by main before the rest of the server starts. It is     *)
(* never a new installation: main has read conf/logging.json before, so    *)
(* the conf folder is not empty.                                           *)
StartServer ==
    /\ server = "down"
    /\ server' = IF ToMigrate = <<>> THEN "up" ELSE "loop"
    /\ migrated' = Lines
    /\ todo' = [NoTodo EXCEPT !.left = ToMigrate]
    /\ UNCHANGED <<disk, intended, recorded, work, current, confused, stops, losses>>

(* The end of a pass of the inner loop *)
NextPass ==
    /\ server = "loop" /\ todo.i > Len(todo.left)
    /\ server' = IF todo.left = <<>> THEN "up" ELSE IF todo.changes THEN "loop" ELSE "failed"
    /\ todo' = [todo EXCEPT !.i = 1, !.changes = FALSE]
    /\ UNCHANGED <<disk, intended, recorded, migrated, work, current, confused, stops, losses>>

(* A migration is left for the next pass if one that it requires is not    *)
(* applied. The one for the access fields fails on a broken conf.json.     *)
Begin ==
    LET m == todo.left[todo.i] IN
    /\ server = "loop" /\ todo.i <= Len(todo.left)
    /\ IF Requires(m) \subseteq migrated
       THEN /\ server' = IF m = "access_config" /\ disk[Conf] = Broken THEN "failed" ELSE "apply"
            /\ work' = [NoWork EXCEPT !.m = m, !.files = Changed(m)]
            /\ confused' = IF m = "repeat_param" THEN confused \cup current ELSE confused
            /\ UNCHANGED todo
       ELSE /\ todo' = [todo EXCEPT !.i = @ + 1]
            /\ UNCHANGED <<server, work, confused>>
    /\ UNCHANGED <<disk, intended, recorded, migrated, current, stops, losses>>

(* _write_json and write_file truncate a file before they write it. *)
OpenFile(f) ==
    /\ server = "apply" /\ f \in work.files
    /\ server' = "write"
    /\ work' = [work EXCEPT !.content = [file |-> f, fields |-> Change(work.m, disk[f])]]
    /\ disk' = [disk EXCEPT ![f] = Broken]
    /\ UNCHANGED <<intended, recorded, todo, migrated, current, confused, stops, losses>>

WriteFile ==
    /\ server = "write"
    /\ server' = "apply"
    /\ disk' = [disk EXCEPT ![work.content.file] = work.content.fields]
    /\ work' = [work EXCEPT !.files = @ \ {work.content.file}, !.content = Missing]
    /\ current' = IF work.m = "repeat_param" THEN current \cup {work.content.file} ELSE current
    /\ UNCHANGED <<intended, recorded, todo, migrated, confused, stops, losses>>

OpenRecordKept ==
    /\ server = "apply" /\ work.files = {}
    /\ server' = "record"
    /\ migrated' = migrated \cup {work.m}
    /\ todo' = [left |-> todo.left, i |-> todo.i + 1, changes |-> TRUE]
    /\ work' = NoWork
    /\ recorded' = Broken
    /\ UNCHANGED <<disk, intended, current, confused, stops, losses>>

(* The migration leaves the list that the inner loop goes over, which then *)
(* skips the next one; the record is written anew.                         *)
OpenRecord ==
    /\ server = "apply" /\ work.files = {}
    /\ server' = "record"
    /\ migrated' = migrated \cup {work.m}
    /\ todo' = [left |-> RemoveAt(todo.left, todo.i), i |-> todo.i + 1, changes |-> TRUE]
    /\ work' = NoWork
    /\ recorded' = Broken
    /\ UNCHANGED <<disk, intended, current, confused, stops, losses>>

(* _write_migrations *)
WriteRecord ==
    /\ server = "record"
    /\ server' = "loop"
    /\ recorded' = [is |-> "record", lines |-> migrated]
    /\ UNCHANGED <<disk, intended, todo, migrated, work, current, confused, stops, losses>>

-----------------------------------------------------------------------------
(* Around the start                                                        *)

(* A crash, or a regular stop of a server that is up *)
StopServer ==
    /\ server # "down" /\ stops < MaxStops
    /\ stops' = stops + 1
    /\ server' = "down"
    /\ todo' = NoTodo /\ work' = NoWork /\ migrated' = {}
    /\ UNCHANGED <<disk, intended, recorded, current, confused, losses>>

LoseTemp ==
    /\ server = "down" /\ losses < MaxLosses
    /\ losses' = losses + 1
    /\ recorded' = Missing
    /\ UNCHANGED <<disk, intended, server, todo, migrated, work, current, confused, stops>>

(* What a config means to this version, and what its author meant with it  *)
(* when it was written for the older one.                                  *)
Meaning(r) ==
    [output_files |-> r.output_files # "$$$",
     output_format |-> IF r.output_format = "text" THEN "text" ELSE "terminal",
     same_arg |-> r.same_arg_param = "true",
     argument_type |-> IF r.argument_type = "none" THEN "single_argument" ELSE r.argument_type]

OldMeaning(r) ==
    [output_files |-> TRUE,
     output_format |-> IF r.bash_formatting = "false" \/ r.output_format = "text" THEN "text"
                       ELSE "terminal",
     same_arg |-> r.repeat_param = "false",
     argument_type |-> IF r.same_arg_param = "true" THEN "repeat_param_value"
                       ELSE IF r.multiple_arguments = "true" THEN "argument_per_value"
                       ELSE "single_argument"]

(* An administrator saves a config for this version. *)
SaveRunner(f, r) ==
    /\ server = "up"
    /\ disk[f] # r
    /\ disk' = [disk EXCEPT ![f] = r]
    /\ intended' = [intended EXCEPT ![f] = Meaning(r)]
    /\ current' = current \cup {f}
    /\ confused' = confused \ {f}
    /\ UNCHANGED <<recorded, server, todo, migrated, work, stops, losses>>

(* Files of an older version, one without a record of migrations or one    *)
(* that recorded the first of them; or no files at all                     *)
StartInit ==
    /\ \/ /\ disk \in OldDisks
          /\ recorded \in {r \in {Missing, [is |-> "record", lines |-> {"execution_info", "access_config"}]} :
                             r # Missing => \A f \in Logs : disk[f].is = "log"}
       \/ disk = [f \in Files |-> Missing] /\ recorded = Missing
    /\ intended = [f \in Runners |-> IF disk[f] = Missing THEN Missing ELSE OldMeaning(disk[f])]
    /\ server = "down"
    /\ todo = NoTodo /\ migrated = {} /\ work = NoWork
    /\ current = {} /\ confused = {} /\ stops = 0 /\ losses = 0

StartStep ==
    \/ StartServer \/ NextPass \/ Begin \/ OpenRecord \/ WriteRecord \/ WriteFile
    \/ \E f \in Files : OpenFile(f)

StartNext ==
    \/ StartStep
    \/ StopServer \/ LoseTemp
    \/ \E f \in Runners, r \in NewRunners : SaveRunner(f, r)

StartSpec == StartInit /\ [][StartNext]_startVars /\ WF_startVars(StartStep)

-----------------------------------------------------------------------------
(* Properties                                                              *)

\* The files and the state of the start are of the kinds the migrations expect.
StartTypeOK ==
    /\ server \in {"down", "loop", "apply", "write", "record", "up", "failed"}
    /\ migrated \subseteq Range(Registered)
    /\ DOMAIN disk = Files /\ work.files \subseteq Files
    /\ todo.i \in 1..Len(Registered) + 1
    /\ Range(todo.left) \cap migrated = {}
    /\ server = "down" => work = NoWork /\ todo = NoTodo

(* Once the server is up, a config means what its author meant, however    *)
(* often the start was interrupted and the record lost. The options of     *)
(* arguments are left out when their migration met a config that already   *)
(* had those of this version: it cannot tell them from the older ones.     *)
MeaningKept ==
    server = "up" =>
        \A f \in Runners : disk[f] \notin {Missing, Broken} =>
            \A aspect \in DOMAIN intended[f] :
                \/ Meaning(disk[f])[aspect] = intended[f][aspect]
                \/ f \in confused /\ aspect \in {"same_arg", "argument_type"}

(* README.md:182 of the configs: "An existing file is never touched, so    *)
(* your edits survive restarts and image upgrades".                        *)
EditsSurvive ==
    server = "up" =>
        \A f \in Runners : disk[f] \notin {Missing, Broken} => Meaning(disk[f]) = intended[f]

(* Once the server is up, every log that an interrupted start did not      *)
(* break has a header with a user and a number of its own.                 *)
LogsReady ==
    server = "up" =>
        \A l \in Logs : disk[l] \notin {Missing, Broken} =>
            /\ disk[l].is = "log" /\ disk[l].user_id
            /\ \A k \in Logs \ {l} : disk[k].is = "log" => disk[k].id # disk[l].id

(* The passes over the list end: every start comes up with all migrations  *)
(* applied, unless it is stopped or an earlier one broke conf.json.        *)
StartEnds ==
    server = "loop" ~> \/ server = "down" \/ disk[Conf] = Broken
                       \/ server = "up" /\ Lines = Range(Registered)

(* What a start comes up with is sound: the files are of the kinds the     *)
(* server expects, configs mean what they meant, and logs have numbers.    *)
UpgradeSound == StartTypeOK /\ MeaningKept /\ LogsReady
=============================================================================
