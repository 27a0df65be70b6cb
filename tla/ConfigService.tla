---------------------------- MODULE ConfigService ----------------------------
(***************************************************************************)
(* The scripts of the server as files: the runners folder, which the       *)
(* administrators edit (config/config_service.py, model/script_config.py,  *)
(* the admin endpoints of web/server.py), while other threads load scripts *)
(* from it, and a crash may come between any two of the file operations.   *)
(*                                                                         *)
(* The handlers run one after another on the IOLoop thread. A write of a   *)
(* file truncates it first (write_file), so a reader may find it damaged.  *)
(***************************************************************************)
EXTENDS Authorization

CONSTANTS
    Names,       \* names of scripts
    BaseOf,      \* [Names -> ...]: the file name made of a name
    FileOrder,   \* the paths of all configs, in the order of their text
    MaxCopies,   \* bound: the highest number create_unique_filename tries
    Settings,    \* bound: the settings an administrator may save
    AtFirst,     \* bound: the settings of the configs made by hand
    Editors,     \* the users who edit
    Readers,     \* the users who start scripts
    GroupsOf(_), \* the groups of a user
    AdminUsers,  \* admin_users of the server
    CodeEditors, \* code_editor_users of the server
    MaxEdits,    \* bound: saves and removals
    MaxCrashes   \* bound

Paths == Range(FileOrder)

Path(folder, base, copy) == [folder |-> folder, base |-> base, copy |-> copy]

(* The configs are in one folder, with room for the copies of each name.   *)
ASSUME FolderAssumption ==
    /\ Names # {} /\ MaxCopies \in Nat /\ FileOrder \in Seq(Paths)
    /\ \A f \in Paths : f = Path("runners", f.base, f.copy)
    /\ \A n \in Names, i \in 0..MaxCopies : Path("runners", BaseOf[n], i) \in Paths

VARIABLES
    files,    \* from paths of configs to their content
    scripts,  \* from paths of script files to their content
    archive,  \* from paths of the folder of deleted configs to their content
    known,    \* file names that load_config has told a client
    op,       \* the save at work on the IOLoop thread
    load,     \* a load at work on another thread
    edits, crashes

vars == <<files, scripts, archive, known, op, load, edits, crashes>>

(* os.path.basename *)
FileName(path) == [base |-> path.base, copy |-> path.copy]

Deleted == {Path("deleted", FileName(f), i) : f \in Paths, i \in 0..MaxCopies}

ScriptPaths == {Path("scripts", "run", i) : i \in 0..MaxCopies} \cup {Path("opt", "tool", 0)}

Absent == [is |-> "absent"]

Damaged == [is |-> "damaged"]

(* A config: settings are its admin_users, its allowed_users and `hidden'. *)
Config(name, settings, script) ==
    [is |-> "config", name |-> name, settings |-> settings, script |-> script]

Configs == {Config(n, s, p) : n \in Names, s \in Settings \cup AtFirst, p \in ScriptPaths}

NoOp == [pc |-> "idle"]

NoLoad == [pc |-> "idle"]

-----------------------------------------------------------------------------
(* Reading the folder                                                      *)

(* _build_name_from_path; a numbered copy has a name that nobody chose. *)
ShownName(f) == IF f.copy = 0 THEN f.base ELSE "numbered"

(* find_and_load: a hidden config has no name, one that cannot be parsed   *)
(* that of its file.                                                       *)
Answers(f, content, name) ==
    \/ content.is = "config" /\ ~content.settings.hidden /\ content.name = name
    \/ content.is = "damaged" /\ ShownName(f) = name

Matches(name) == {f \in Paths : Answers(f, files[f], name)}

(* The file that is listed before the others, if there is one.             *)
FirstOf(fs) ==
    {FileOrder[i] : i \in {j \in DOMAIN FileOrder :
        FileOrder[j] \in fs /\ \A k \in 1..j - 1 : FileOrder[k] \notin fs}}

Free(name) == Matches(name) = {}

(* _find_config: the first of the matching files, unless it is damaged     *)
Found(name) == {f \in FirstOf(Matches(name)) : files[f].is = "config"}

IsAdmin(u) == IsAllowed(u, AdminUsers, GroupsOf(u))

CanEdit(u, settings) == IsAllowed(u, settings.admins, GroupsOf(u))

CanAccess(u, settings) == IsAllowed(u, settings.users, GroupsOf(u))

CanEditCode(u) == IsAdmin(u) /\ IsAllowed(u, CodeEditors, GroupsOf(u))

(* create_unique_filename: the preferred path or the first free copy of    *)
(* it, if there is one *)
Unique(taken, preferred) ==
    LET copies == {i \in 0..MaxCopies : [preferred EXCEPT !.copy = i] \notin taken} IN
    {[preferred EXCEPT !.copy = i] : i \in {j \in copies : \A k \in copies : j <= k}}

Taken(fn) == {p \in DOMAIN fn : fn[p] # Absent}

(* The files that answer a load with one and the same script all the time, *)
(* for the properties.                                                     *)
Steady(name) == {f \in Paths : files[f].is = "config" /\ Answers(f, files[f], name)}

Watched(changed) ==
    IF load.pc = "idle" THEN load ELSE [load EXCEPT !.steady = @ \ {changed}]

-----------------------------------------------------------------------------
(* Saving                                                                  *)

Text == [is |-> "text"]

Binary == [is |-> "binary"]

(* What the form says of the script: a path, new code or an uploaded file. *)
Modes == {"new_path", "new_code", "upload_script"}

(* _preprocess_script_fields: where the script of a new config is written *)
NewScript(mode, path) ==
    IF mode = "new_path" THEN {path}
    ELSE Unique(Taken(scripts), [path EXCEPT !.folder = "scripts", !.base = "run"])

(* and that of an existing one: the code of a binary or a missing file     *)
(* cannot be edited, and the path stays.                                   *)
OldScript(mode, path, original) ==
    {p \in {path} :
        /\ mode # "new_path" => path = original.script
        /\ mode = "new_code" => scripts[path] = Text}

MayWrite(u, mode) == mode = "new_path" \/ CanEditCode(u)

CodeOf(mode) == IF mode = "new_code" THEN Text ELSE Binary

SaveWithoutScript(f, config, mode) ==
    /\ edits' = edits + 1
    /\ op' = [pc |-> "script_written", file |-> f, old |-> files[f], config |-> config,
              code |-> CodeOf(mode)]
    /\ UNCHANGED <<files, scripts, archive, known, load, crashes>>

(* The save of config into the file f: the script is truncated and         *)
(* written, then the config.                                               *)
Save(f, config, mode) ==
    /\ edits' = edits + 1
    /\ op' = [pc |-> IF mode = "new_path" THEN "script_written" ELSE "script_open",
              file |-> f, old |-> files[f], config |-> config, code |-> CodeOf(mode)]
    /\ scripts' = IF mode = "new_path" THEN scripts ELSE [scripts EXCEPT ![config.script] = Damaged]
    /\ UNCHANGED <<files, archive, known, load, crashes>>

CreateByFileName(u, name, settings, mode, path) ==
    /\ op = NoOp /\ edits < MaxEdits
    /\ IsAdmin(u) /\ MayWrite(u, mode)
    /\ files[Path("runners", BaseOf[name], 0)] = Absent
    /\ \E script \in NewScript(mode, path),
          f \in Unique(Taken(files), Path("runners", BaseOf[name], 0)) :
          Save(f, Config(name, settings, script), mode)

(* create_config *)
Create(u, name, settings, mode, path) ==
    /\ op = NoOp /\ edits < MaxEdits
    /\ IsAdmin(u) /\ MayWrite(u, mode)
    /\ Free(name)
    /\ \E script \in NewScript(mode, path),
          f \in Unique(Taken(files), Path("runners", BaseOf[name], 0)) :
          Save(f, Config(name, settings, script), mode)

UpdateByAnyAdmin(u, file, name, settings, mode, path) ==
    LET f == Path("runners", file.base, file.copy)
        original == files[f] IN
    /\ op = NoOp /\ edits < MaxEdits
    /\ IsAdmin(u) /\ MayWrite(u, mode)
    /\ f \in Paths
    /\ original.is = "config" /\ ~original.settings.hidden
    /\ Free(name) \/ \E g \in Found(name) : FileName(g) = file
    /\ \E script \in OldScript(mode, path, original) :
          Save(f, Config(name, settings, script), mode)

(* update_config: the file name comes from the client, whatever it was     *)
(* when the client got it.                                                 *)
Update(u, file, name, settings, mode, path) ==
    LET f == Path("runners", file.base, file.copy)
        original == files[f] IN
    /\ op = NoOp /\ edits < MaxEdits
    /\ IsAdmin(u) /\ MayWrite(u, mode)
    /\ f \in Paths
    /\ original.is = "config" /\ ~original.settings.hidden
    /\ Free(name) \/ \E g \in Found(name) : FileName(g) = file
    /\ CanEdit(u, original.settings)
    /\ \E script \in OldScript(mode, path, original) :
          Save(f, Config(name, settings, script), mode)

WriteScript ==
    /\ op.pc = "script_open"
    /\ scripts' = [scripts EXCEPT ![op.config.script] = op.code]
    /\ op' = [op EXCEPT !.pc = "script_written"]
    /\ UNCHANGED <<files, archive, known, load, edits, crashes>>

(* _save_config *)
OpenConfig ==
    /\ op.pc = "script_written"
    /\ files' = [files EXCEPT ![op.file] = Damaged]
    /\ op' = [op EXCEPT !.pc = "config_open"]
    /\ load' = Watched(op.file)
    /\ UNCHANGED <<scripts, archive, known, edits, crashes>>

WriteConfig ==
    /\ op.pc = "config_open"
    /\ files' = [files EXCEPT ![op.file] = op.config]
    /\ op' = NoOp
    /\ UNCHANGED <<scripts, archive, known, load, edits, crashes>>

(* load_config, the page of the administrator: it tells the name of the    *)
(* file without its folder.                                                *)
LoadConfig(u, name) ==
    /\ op = NoOp
    /\ IsAdmin(u)
    /\ \E f \in Found(name) :
       /\ CanEdit(u, files[f].settings)
       /\ FileName(f) \notin known
       /\ known' = known \cup {FileName(f)}
    /\ UNCHANGED <<files, scripts, archive, op, load, edits, crashes>>

(* delete_config: the file moves to the folder of deleted configs. *)
Delete(u, name) ==
    /\ op = NoOp
    /\ IsAdmin(u)
    /\ edits < MaxEdits
    /\ edits' = edits + 1
    /\ \E f \in Found(name) :
       /\ CanEdit(u, files[f].settings)
       /\ \E target \in Unique(Taken(archive), Path("deleted", FileName(f), 0)) :
             archive' = [archive EXCEPT ![target] = files[f]]
       /\ files' = [files EXCEPT ![f] = Absent]
       /\ load' = Watched(f)
    /\ UNCHANGED <<scripts, known, op, crashes>>

-----------------------------------------------------------------------------
(* Loading a script on another thread: for a page, a start or a schedule   *)

(* load_config_model: os.walk lists the files, which are then read one     *)
(* after another. A load that no edit can disturb is left out.             *)
StartLoad(u, name) ==
    /\ load = NoLoad
    /\ op # NoOp \/ edits < MaxEdits
    /\ load' = [pc |-> "read", user |-> u, name |-> name, steady |-> Steady(name),
                rest |-> {f \in Paths : files[f] # Absent}]
    /\ UNCHANGED <<files, scripts, archive, known, op, edits, crashes>>

(* The answer and the file it comes from, if any                           *)
Result(answer, at) ==
    [pc |-> "done", user |-> load.user, name |-> load.name, answer |-> answer, at |-> at,
     steady |-> load.steady]

Access(u, f) == IF CanAccess(u, files[f].settings) THEN "found" ELSE "forbidden"

Read(f) ==
    IF ~Answers(f, files[f], load.name) THEN [load EXCEPT !.rest = @ \ {f}]
    ELSE IF files[f].is = "damaged" THEN Result("corrupt", {f})
    ELSE Result(Access(load.user, f), {f})

ReadFileOrStop ==
    /\ load.pc = "read"
    /\ \/ load.rest = {} /\ load' = Result("none", {})
       \/ \E f \in FirstOf(load.rest) :
             load' = IF files[f] = Absent THEN Result("none", {}) ELSE Read(f)
    /\ UNCHANGED <<files, scripts, archive, known, op, edits, crashes>>

(* A file that was deleted since is skipped, as one that does not match. *)
ReadFile ==
    /\ load.pc = "read"
    /\ \/ load.rest = {} /\ load' = Result("none", {})
       \/ \E f \in FirstOf(load.rest) : load' = Read(f)
    /\ UNCHANGED <<files, scripts, archive, known, op, edits, crashes>>

EndLoad ==
    /\ load.pc = "done"
    /\ load' = NoLoad
    /\ UNCHANGED <<files, scripts, archive, known, op, edits, crashes>>

-----------------------------------------------------------------------------
Crash ==
    /\ crashes < MaxCrashes
    /\ crashes' = crashes + 1
    /\ op' = NoOp
    /\ load' = NoLoad
    /\ UNCHANGED <<files, scripts, archive, known, edits>>

(* The folder as somebody filled it by hand: no name twice, no config that *)
(* cannot be read, and the scripts are there.                              *)
Init ==
    /\ files \in [Paths -> {Absent} \cup
                  {Config(n, s, p) : n \in Names, s \in AtFirst, p \in ScriptPaths}]
    /\ \A name \in Names : \A f, g \in Matches(name) : f = g
    /\ scripts = [p \in ScriptPaths |-> IF p.folder = "opt" THEN Text ELSE Absent]
    /\ \A f \in Taken(files) : files[f].script \in Taken(scripts)
    /\ archive = [p \in Deleted |-> Absent]
    /\ known = {}
    /\ op = NoOp /\ load = NoLoad
    /\ edits = 0 /\ crashes = 0

Next ==
    \/ \E u \in Editors, name \in Names :
          \/ LoadConfig(u, name) \/ Delete(u, name)
          \/ \E settings \in Settings, mode \in Modes, path \in Taken(scripts) :
                \/ Create(u, name, settings, mode, path)
                \/ \E file \in known : Update(u, file, name, settings, mode, path)
    \/ \E u \in Readers, name \in Names : StartLoad(u, name)
    \/ WriteScript \/ OpenConfig \/ WriteConfig
    \/ ReadFile \/ EndLoad
    \/ Crash

Spec == Init /\ [][Next]_vars

-----------------------------------------------------------------------------
(* Properties                                                              *)

\* A file is absent, damaged or whole, and the saves and loads at work are of
\* the kinds the code knows.
TypeOK ==
    /\ files \in [Paths -> {Absent, Damaged} \cup Configs]
    /\ scripts \in [ScriptPaths -> {Absent, Damaged, Text, Binary}]
    /\ archive \in [Deleted -> {Absent} \cup Configs]
    /\ op \in {NoOp} \cup [pc : {"script_open", "script_written", "config_open"}, file : Paths,
                           old : {Absent} \cup Configs, config : Configs, code : {Text, Binary}]
    /\ load \in {NoLoad}
           \cup [pc : {"read"}, user : Readers, name : Names, steady : SUBSET Paths, rest : SUBSET Paths]
           \cup [pc : {"done"}, user : Readers, name : Names, steady : SUBSET Paths,
                 at : SUBSET Paths, answer : {"none", "corrupt", "found", "forbidden"}]

(* No two configs that can be read have one name, whatever the saves, the  *)
(* removals and the crashes: otherwise all but the first are out of reach. *)
UniqueNames == \A name \in Names : \A f, g \in Steady(name) : f = g

(* A config never arrives before its script: a script that was new with it  *)
(* is there once the config is in the folder, crash or not.                 *)
ScriptReady ==
    \A f \in Paths :
        files[f].is = "config" /\ files[f].script.folder = "scripts"
            => scripts[files[f].script] # Absent

\* A name leads to one script, and the script of a config is there: whatever
\* the saves, the removals and the crashes.
ScriptsSound == TypeOK /\ UniqueNames /\ ScriptReady

Before(f, g) ==
    \E i, j \in DOMAIN FileOrder : i < j /\ FileOrder[i] = f /\ FileOrder[j] = g

(* Another thread that loads a script which is there all the time, while   *)
(* the other files are edited, finds it and no other, and answers by its   *)
(* settings.  One thing hides it: a damaged file that is listed before it  *)
(* and is named like it, which is taken for the script (_find_config).     *)
LoadFinds ==
    load.pc = "done" =>
        \A g \in load.steady :
            \/ load.at = {g} /\ load.answer = Access(load.user, g)
            \/ /\ load.answer = "corrupt"
               /\ \E f \in load.at : ShownName(f) = load.name /\ Before(f, g)

(* The folder is a registry of scripts: see ScriptRegistry. A config being *)
(* written counts as the old one until it is complete.                     *)
Content(f) == IF op.pc = "config_open" /\ op.file = f THEN op.old ELSE files[f]

BodyOf(content) == [settings |-> content.settings, script |-> content.script]

ScriptNamed(name) ==
    LET all == {f \in Paths : Content(f).is = "config" /\ Answers(f, Content(f), name)} IN
    IF all = {} THEN Absent ELSE BodyOf(Content(CHOOSE f \in all : TRUE))

EditsScript(u, body) == IsAdmin(u) /\ CanEdit(u, body.settings)

Registry ==
    INSTANCE ScriptRegistry WITH
        Names <- Names, Users <- Editors,
        Bodies <- {[settings |-> s, script |-> p] : s \in Settings \cup AtFirst, p \in ScriptPaths},
        NoScript <- Absent,
        Edits <- EditsScript,
        registry <- [n \in Names |-> ScriptNamed(n)],
        bin <- {BodyOf(archive[p]) : p \in Taken(archive)},
        crashes <- crashes

\* Seen through the names of the scripts, what the administrators do to the
\* files is what the registry lets them do to scripts.
ImplementsRegistry == Registry!RegistrySpec
=============================================================================
