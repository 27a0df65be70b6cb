------------------------- MODULE ConfigFolder_proofs -------------------------
(***************************************************************************)
(* Proofs about ConfigService, for any names, any folder of configs, any   *)
(* users and rights, and any bounds; about Migrations, for any files that  *)
(* an older version left, and any bounds; and about the groups of users,   *)
(* for any configuration (Authorization and UserGroups).                   *)
(***************************************************************************)
EXTENDS ConfigService, UserGroups, Migrations, FiniteSetTheorems, SequenceTheorems,
        NaturalsInduction, WellFoundedInduction, TLAPS

(* The path f answers to name, seen by the administrators: a config that   *)
(* is being written counts as the old one.                                 *)
Visible(content, name) ==
    content.is = "config" /\ ~content.settings.hidden /\ content.name = name

Shows(f, name) == Visible(Content(f), name)

(* A name is shown by one path, also while its config is being written.    *)
OneOwner == \A f, g \in Paths, n \in Names : Shows(f, n) /\ Shows(g, n) => f = g

(* A save at work was allowed, its name is no other config's, its script   *)
(* is in the folder, and the file is what it was or the damaged one.       *)
SaveAllowed ==
    op.pc # "idle" =>
        /\ \A f \in Paths : files[f].is = "config" /\ f # op.file => ~Visible(files[f], op.config.name)
        /\ op.old # Absent =>
              /\ op.old \in Configs /\ ~op.old.settings.hidden
              /\ \E u \in Editors : EditsScript(u, BodyOf(op.old))
        /\ scripts[op.config.script] # Absent
        /\ files[op.file] = IF op.pc = "config_open" THEN Damaged ELSE op.old

(* The files that answer a load all the time do so now, and it has not yet *)
(* passed them.                                                            *)
LoadAhead ==
    load.pc # "idle" =>
        \A f \in load.steady :
            Visible(files[f], load.name) /\ (load.pc = "read" => f \in load.rest)

Ended ==
    [pc : {"done"}, user : Readers, name : Names, steady : SUBSET Paths, at : SUBSET Paths,
     answer : {"none", "corrupt", "found", "forbidden"}]

IInv == TypeOK /\ OneOwner /\ SaveAllowed /\ ScriptReady /\ LoadAhead /\ LoadFinds

-----------------------------------------------------------------------------
LEMMA ConfigTyped ==
    \A c \in Configs : /\ c.is = "config" /\ c.name \in Names /\ c.script \in ScriptPaths
                        /\ c.settings \in Settings \cup AtFirst
                        /\ c # Absent /\ c # Damaged
BY DEF Configs, Config, Absent, Damaged

(* Within the one folder, a path is its file name.                         *)
LEMMA NameIsPath == \A f, g \in Paths : FileName(f) = FileName(g) => f = g
<1> SUFFICES ASSUME NEW f \in Paths, NEW g \in Paths, FileName(f) = FileName(g)
             PROVE  f = g
  OBVIOUS
<1>1. f = Path("runners", f.base, f.copy) /\ g = Path("runners", g.base, g.copy)
  BY FolderAssumption
<1>2. f.base = g.base /\ f.copy = g.copy
  BY DEF FileName
<1> QED BY <1>1, <1>2

(* What create_unique_filename answers is not there, and is a copy of what *)
(* was asked for.                                                          *)
LEMMA UniqueIsFree ==
    ASSUME NEW taken, NEW preferred, NEW p \in Unique(taken, preferred)
    PROVE  p \notin taken /\ \E i \in 0..MaxCopies : p = [preferred EXCEPT !.copy = i]
BY DEF Unique

LEMMA NewConfigPath ==
    ASSUME NEW n \in Names, NEW taken, NEW p \in Unique(taken, Path("runners", BaseOf[n], 0))
    PROVE  p \in Paths /\ p \notin taken
<1>1. PICK i \in 0..MaxCopies : p = [Path("runners", BaseOf[n], 0) EXCEPT !.copy = i]
  BY UniqueIsFree
<1>2. p = Path("runners", BaseOf[n], i) BY <1>1 DEF Path
<1> QED BY <1>2, FolderAssumption, UniqueIsFree

LEMMA NewScriptPath ==
    ASSUME TypeOK, NEW path \in ScriptPaths, NEW mode \in Modes, NEW p \in NewScript(mode, path)
    PROVE  p \in ScriptPaths /\ (mode = "new_path" => p = path)
<1>1. CASE mode = "new_path" BY <1>1 DEF NewScript
<1>2. CASE mode # "new_path"
  <2> DEFINE preferred == [path EXCEPT !.folder = "scripts", !.base = "run"]
  <2>1. p \in Unique(Taken(scripts), preferred)
    BY <1>2 DEF NewScript
  <2>2. PICK i \in 0..MaxCopies : p = [preferred EXCEPT !.copy = i]
    BY <2>1 DEF Unique
  <2>3. ASSUME NEW a, NEW b, NEW c, path = Path(a, b, c)
        PROVE  p = Path("scripts", "run", i)
    BY <2>2, <2>3 DEF Path
  <2>5. p = Path("scripts", "run", i)
    BY <2>3 DEF ScriptPaths
  <2> QED BY <1>2, <2>5 DEF ScriptPaths
<1> QED BY <1>1, <1>2

LEMMA FoundFirst ==
    ASSUME NEW n \in Names, NEW f \in Found(n)
    PROVE  f \in Paths /\ Visible(files[f], n)
BY DEF Found, FirstOf, Matches, Answers, Visible

(* The saves that the two endpoints start.                                 *)
Admitted(u, f, c, mode) ==
    /\ op = NoOp
    /\ f \in Paths /\ c \in Configs /\ mode \in Modes
    /\ mode = "new_path" => scripts[c.script] # Absent
    /\ \A g \in Paths : files[g].is = "config" /\ g # f => ~Visible(files[g], c.name)
    /\ files[f] # Absent =>
           files[f] \in Configs /\ ~files[f].settings.hidden /\ EditsScript(u, BodyOf(files[f]))

LEMMA CreateAdmitted ==
    ASSUME TypeOK, NEW u \in Editors, NEW n \in Names, NEW s \in Settings, NEW mode \in Modes,
           NEW path \in Taken(scripts), Create(u, n, s, mode, path)
    PROVE  \E f, c : Admitted(u, f, c, mode) /\ Save(f, c, mode)
<1>1. PICK script \in NewScript(mode, path), f \in Unique(Taken(files), Path("runners", BaseOf[n], 0)) :
          Save(f, Config(n, s, script), mode)
  BY DEF Create
<1>2. path \in ScriptPaths /\ scripts[path] # Absent BY DEF Taken, TypeOK
<1>3. script \in ScriptPaths /\ (mode = "new_path" => script = path) BY <1>2, NewScriptPath
<1>4. f \in Paths /\ files[f] = Absent
  <2>1. f \in Paths /\ f \notin Taken(files) BY NewConfigPath
  <2> QED BY <2>1 DEF Taken, TypeOK
<1>5. Config(n, s, script) \in Configs /\ Config(n, s, script).script = script
      /\ Config(n, s, script).name = n
  BY <1>3 DEF Configs, Config
<1>6. \A g \in Paths : files[g].is = "config" => ~Visible(files[g], n)
  BY DEF Create, Free, Matches, Answers, Visible
<1>7. op = NoOp BY DEF Create
<1>8. Admitted(u, f, Config(n, s, script), mode)
  BY <1>2, <1>3, <1>4, <1>5, <1>6, <1>7 DEF Admitted
<1> QED BY <1>1, <1>8

LEMMA UpdateAdmitted ==
    ASSUME TypeOK, OneOwner, NEW u \in Editors, NEW n \in Names, NEW s \in Settings,
           NEW mode \in Modes, NEW path \in Taken(scripts), NEW file,
           Update(u, file, n, s, mode, path)
    PROVE  \E f, c : Admitted(u, f, c, mode) /\ Save(f, c, mode)
<1> DEFINE f == Path("runners", file.base, file.copy)
<1>1. PICK script \in OldScript(mode, path, files[f]) : Save(f, Config(n, s, script), mode)
  BY DEF Update
<1>2. script = path /\ path \in ScriptPaths /\ scripts[path] # Absent BY DEF Taken, TypeOK, OldScript
<1>3. /\ op = NoOp /\ f \in Paths
      /\ files[f].is = "config" /\ ~files[f].settings.hidden
      /\ Free(n) \/ \E g \in Found(n) : FileName(g) = file
      /\ IsAdmin(u) /\ CanEdit(u, files[f].settings)
  BY DEF Update
<1>4. files[f] \in Configs BY <1>3 DEF TypeOK, Absent, Damaged
<1>5. EditsScript(u, BodyOf(files[f])) BY <1>3 DEF EditsScript, BodyOf
<1>6. Config(n, s, script) \in Configs /\ Config(n, s, script).script = script
      /\ Config(n, s, script).name = n
  BY <1>2 DEF Configs, Config
<1>7. \A g \in Paths : files[g].is = "config" /\ g # f => ~Visible(files[g], n)
  <2>1. CASE Free(n) BY <2>1 DEF Free, Matches, Answers, Visible
  <2>2. ASSUME NEW h \in Found(n), FileName(h) = file PROVE <1>7!:
    <3>1. h \in Paths /\ Visible(files[h], n) BY FoundFirst
    <3>2. h = f
      BY <3>1, <2>2, FolderAssumption DEF FileName
    <3>3. \A g \in Paths : Content(g) = files[g] BY <1>3 DEF Content, NoOp
    <3> QED BY <3>1, <3>2, <3>3 DEF OneOwner, Shows
  <2> QED BY <1>3, <2>1, <2>2
<1>8. Admitted(u, f, Config(n, s, script), mode)
  BY <1>2, <1>3, <1>4, <1>5, <1>6, <1>7 DEF Admitted
<1> QED BY <1>1, <1>8

-----------------------------------------------------------------------------
(* What a step is, for the invariant and for the refinement.               *)
LEMMA StepCases ==
    ASSUME TypeOK, OneOwner, [Next]_vars
    PROVE  \/ \E u \in Editors : \E f, c, mode : Admitted(u, f, c, mode) /\ Save(f, c, mode)
           \/ \E u \in Editors, n \in Names : Delete(u, n)
           \/ \E u \in Editors, n \in Names : LoadConfig(u, n)
           \/ \E u \in Readers, n \in Names : StartLoad(u, n)
           \/ WriteScript \/ OpenConfig \/ WriteConfig
           \/ ReadFile \/ EndLoad \/ Crash
           \/ UNCHANGED vars
<1>1. ASSUME NEW u \in Editors, NEW n \in Names, NEW s \in Settings, NEW mode \in Modes,
             NEW path \in Taken(scripts), Create(u, n, s, mode, path)
      PROVE  \E f, c : Admitted(u, f, c, mode) /\ Save(f, c, mode)
  BY <1>1, CreateAdmitted
<1>2. ASSUME NEW u \in Editors, NEW n \in Names, NEW s \in Settings, NEW mode \in Modes,
             NEW path \in Taken(scripts), NEW file \in known, Update(u, file, n, s, mode, path)
      PROVE  \E f, c : Admitted(u, f, c, mode) /\ Save(f, c, mode)
  BY <1>2, UpdateAdmitted
<1> QED BY <1>1, <1>2 DEF Next

LEMMA OpTyped ==
    ASSUME TypeOK, op.pc # "idle"
    PROVE  /\ op.file \in Paths /\ op.config \in Configs /\ op.old \in {Absent} \cup Configs
           /\ op.code \in {Text, Binary}
           /\ op \in [pc : {"script_open", "script_written", "config_open"}, file : Paths,
                      old : {Absent} \cup Configs, config : Configs, code : {Text, Binary}]
BY DEF TypeOK, NoOp

LEMMA LoadTyped ==
    ASSUME TypeOK
    PROVE  /\ load.pc \in {"idle", "read", "done"}
           /\ load.pc = "idle" => load = NoLoad
           /\ load.pc = "read" =>
                load \in [pc : {"read"}, user : Readers, name : Names, steady : SUBSET Paths, rest : SUBSET Paths]
           /\ load.pc = "done" =>
                load \in Ended
BY DEF TypeOK, NoLoad, Ended

LEMMA WatchedTyped ==
    ASSUME TypeOK, NEW f, load' = Watched(f)
    PROVE  /\ load' \in {NoLoad}
               \cup [pc : {"read"}, user : Readers, name : Names, steady : SUBSET Paths, rest : SUBSET Paths]
               \cup Ended
           /\ load'.pc = load.pc
           /\ load.pc = "read" => /\ load'.steady = load.steady \ {f} /\ load'.rest = load.rest
                                  /\ load'.name = load.name
           /\ load.pc = "done" => /\ load'.steady = load.steady \ {f} /\ load'.name = load.name
                                  /\ load'.answer = load.answer /\ load'.at = load.at
                                  /\ load'.user = load.user
<1>1. CASE load.pc = "idle" BY <1>1, LoadTyped DEF Watched, NoLoad
<1>2. CASE load.pc = "read" BY <1>2, LoadTyped DEF Watched
<1>3. CASE load.pc = "done" BY <1>3, LoadTyped DEF Watched, Ended
<1> QED BY <1>1, <1>2, <1>3, LoadTyped

(* What a load says when it ends with the file f.                          *)
Answered(f) ==
    /\ load' \in Ended /\ load'.steady = load.steady
    /\ load'.user = load.user /\ load'.name = load.name
    /\ load'.at = {f} /\ f \in FirstOf(load.rest)
    /\ \/ load'.answer = "corrupt" /\ ShownName(f) = load.name /\ files[f].is = "damaged"
       \/ load'.answer = Access(load.user, f) /\ Visible(files[f], load.name)

(* A load ends, or passes a file that does not answer it.                  *)
LEMMA ReadCases ==
    ASSUME TypeOK, ReadFile
    PROVE  /\ load.pc = "read"
           /\ \/ load' \in Ended /\ load'.steady = load.steady /\ load'.name = load.name
                 /\ load.rest = {}
              \/ \E f \in Paths : Answered(f)
              \/ \E f \in Paths :
                    /\ load' \in [pc : {"read"}, user : Readers, name : Names, steady : SUBSET Paths, rest : SUBSET Paths]
                    /\ ~Visible(files[f], load.name)
                    /\ load'.steady = load.steady /\ load'.name = load.name
                    /\ load'.rest = load.rest \ {f}
<1>1. load \in [pc : {"read"}, user : Readers, name : Names, steady : SUBSET Paths, rest : SUBSET Paths]
  BY LoadTyped DEF ReadFile
<1>2. \A answer \in {"none", "corrupt", "found", "forbidden"}, at \in SUBSET Paths :
          /\ Result(answer, at) \in Ended /\ Result(answer, at).steady = load.steady
          /\ Result(answer, at).user = load.user /\ Result(answer, at).name = load.name
          /\ Result(answer, at).answer = answer /\ Result(answer, at).at = at
  BY <1>1 DEF Result, Ended
<1>3. CASE load.rest = {} /\ load' = Result("none", {}) BY <1>2, <1>3 DEF ReadFile
<1>4. CASE \E f \in FirstOf(load.rest) : load' = Read(f)
  <2>1. PICK f \in FirstOf(load.rest) : load' = Read(f) BY <1>4
  <2>2. f \in Paths BY <1>1, <2>1 DEF FirstOf
  <2>3. CASE Answers(f, files[f], load.name)
    <3>1. Access(load.user, f) \in {"found", "forbidden"} BY DEF Access
    <3>2. CASE files[f].is = "damaged"
      <4>1. load' = Result("corrupt", {f}) BY <2>1, <2>3, <3>2 DEF Read
      <4>2. ShownName(f) = load.name BY <2>3, <3>2 DEF Answers
      <4> QED BY <1>2, <2>1, <2>2, <3>2, <4>1, <4>2 DEF Answered, ReadFile
    <3>3. CASE files[f].is # "damaged"
      <4>1. load' = Result(Access(load.user, f), {f}) BY <2>1, <2>3, <3>3 DEF Read
      <4>2. Visible(files[f], load.name) BY <2>3, <3>3 DEF Answers, Visible
      <4> QED BY <1>2, <2>1, <2>2, <3>1, <4>1, <4>2 DEF Answered, ReadFile
    <3> QED BY <3>2, <3>3
  <2>4. CASE ~Answers(f, files[f], load.name)
    <3>1. load' = [load EXCEPT !.rest = @ \ {f}] BY <2>1, <2>4 DEF Read
    <3>2. ~Visible(files[f], load.name) BY <2>4 DEF Answers, Visible
    <3> QED BY <1>1, <2>2, <3>1, <3>2 DEF ReadFile
  <2> QED BY <2>3, <2>4
<1> QED BY <1>3, <1>4 DEF ReadFile

-----------------------------------------------------------------------------
LEMMA TypeInit == Init => TypeOK
<1> SUFFICES ASSUME Init PROVE TypeOK
  OBVIOUS
<1>1. files \in [Paths -> {Absent, Damaged} \cup Configs] BY DEF Init, Configs
<1>2. scripts \in [ScriptPaths -> {Absent, Damaged, Text, Binary}] BY DEF Init
<1>3. archive \in [Deleted -> {Absent} \cup Configs] BY DEF Init
<1> QED BY <1>1, <1>2, <1>3 DEF Init, TypeOK

LEMMA TypeStep == TypeOK /\ OneOwner /\ [Next]_vars => TypeOK'
<1> SUFFICES ASSUME TypeOK, OneOwner, [Next]_vars PROVE TypeOK'
  OBVIOUS
<1>t. /\ files \in [Paths -> {Absent, Damaged} \cup Configs]
      /\ scripts \in [ScriptPaths -> {Absent, Damaged, Text, Binary}]
      /\ archive \in [Deleted -> {Absent} \cup Configs]
  BY DEF TypeOK
<1>1. ASSUME NEW u \in Editors, NEW f, NEW c, NEW mode, Admitted(u, f, c, mode), Save(f, c, mode)
      PROVE  TypeOK'
  <2>1. f \in Paths /\ c \in Configs /\ c.script \in ScriptPaths BY <1>1, ConfigTyped DEF Admitted
  <2>2. scripts' \in [ScriptPaths -> {Absent, Damaged, Text, Binary}] BY <1>1, <1>t, <2>1 DEF Save
  <2>3. files[f] \in {Absent} \cup Configs BY <1>1, <1>t DEF Admitted
  <2>4. op' \in [pc : {"script_open", "script_written", "config_open"}, file : Paths,
                 old : {Absent} \cup Configs, config : Configs, code : {Text, Binary}]
    BY <1>1, <2>1, <2>3 DEF Save, CodeOf
  <2> QED BY <1>1, <2>2, <2>4 DEF Save, TypeOK
<1>2. ASSUME NEW u \in Editors, NEW n \in Names, Delete(u, n) PROVE TypeOK'
  <2>1. PICK f \in Found(n) :
            /\ \E target \in Unique(Taken(archive), Path("deleted", FileName(f), 0)) :
                  archive' = [archive EXCEPT ![target] = files[f]]
            /\ files' = [files EXCEPT ![f] = Absent]
            /\ load' = Watched(f)
    BY <1>2 DEF Delete
  <2>2. f \in Paths /\ files[f] \in Configs
    BY <1>t, FoundFirst DEF Visible, Absent, Damaged
  <2>3. archive' \in [Deleted -> {Absent} \cup Configs] BY <1>t, <2>1, <2>2
  <2> QED BY <1>2, <1>t, <2>1, <2>2, <2>3, WatchedTyped DEF Delete, TypeOK, Ended
<1>3. ASSUME NEW u \in Editors, NEW n \in Names, LoadConfig(u, n) PROVE TypeOK'
  BY <1>3 DEF LoadConfig, TypeOK
<1>4. ASSUME NEW u \in Readers, NEW n \in Names, StartLoad(u, n) PROVE TypeOK'
  <2>1. load' \in [pc : {"read"}, user : Readers, name : Names, steady : SUBSET Paths, rest : SUBSET Paths]
    BY <1>4 DEF StartLoad, Steady
  <2> QED BY <1>4, <2>1 DEF StartLoad, TypeOK
<1>5. CASE WriteScript
  <2>1. /\ op.config.script \in ScriptPaths
        /\ op' \in [pc : {"script_open", "script_written", "config_open"}, file : Paths,
                    old : {Absent} \cup Configs, config : Configs, code : {Text, Binary}]
    BY <1>5, OpTyped, ConfigTyped DEF WriteScript
  <2>2. scripts' \in [ScriptPaths -> {Absent, Damaged, Text, Binary}]
    BY <1>5, <1>t, <2>1, OpTyped DEF WriteScript
  <2> QED BY <1>5, <2>1, <2>2 DEF WriteScript, TypeOK
<1>6. CASE OpenConfig
  <2>1. /\ op.file \in Paths
        /\ op' \in [pc : {"script_open", "script_written", "config_open"}, file : Paths,
                    old : {Absent} \cup Configs, config : Configs, code : {Text, Binary}]
    BY <1>6, OpTyped DEF OpenConfig
  <2> QED BY <1>6, <1>t, <2>1, WatchedTyped DEF OpenConfig, TypeOK, Ended
<1>7. CASE WriteConfig
  <2>1. files' \in [Paths -> {Absent, Damaged} \cup Configs]
    BY <1>7, <1>t, OpTyped DEF WriteConfig
  <2> QED BY <1>7, <2>1 DEF WriteConfig, TypeOK
<1>8. CASE ReadFile
  <2>1. load' \in [pc : {"read"}, user : Readers, name : Names, steady : SUBSET Paths, rest : SUBSET Paths]
            \cup Ended
    BY <1>8, ReadCases DEF Answered
  <2> QED BY <1>8, <2>1 DEF ReadFile, TypeOK, Ended
<1>9. CASE EndLoad
  BY <1>9 DEF EndLoad, TypeOK
<1>10. CASE Crash
  BY <1>10 DEF Crash, TypeOK
<1>11. CASE UNCHANGED vars
  BY <1>11 DEF vars, TypeOK
<1> QED BY <1>1, <1>2, <1>3, <1>4, <1>5, <1>6, <1>7, <1>8, <1>9, <1>10, <1>11, StepCases

-----------------------------------------------------------------------------
(* What a step does to what the administrators see: only the end of a save *)
(* and a removal change it, and a crash that damages a file.               *)
LEMMA ContentSame ==
    ASSUME TypeOK, files' = files, op.pc # "config_open", op'.pc # "config_open"
    PROVE  \A f : Content(f)' = Content(f)
BY DEF Content

LEMMA ContentOpened ==
    ASSUME TypeOK, SaveAllowed, OpenConfig
    PROVE  \A f \in Paths : Content(f)' = Content(f)
<1>1. op.file \in Paths /\ op'.pc = "config_open" /\ op'.file = op.file /\ op'.old = op.old
  BY OpTyped DEF OpenConfig
<1>2. files[op.file] = op.old
  BY DEF SaveAllowed, OpenConfig
<1> QED BY <1>1, <1>2 DEF Content, OpenConfig, TypeOK

LEMMA ContentWritten ==
    ASSUME TypeOK, WriteConfig
    PROVE  \A f \in Paths :
              IF f = op.file THEN Content(f) = op.old /\ Content(f)' = op.config
              ELSE Content(f) = files[f] /\ Content(f)' = files[f]
<1>1. \A f \in Paths : Content(f)' = files'[f] BY DEF WriteConfig, Content, NoOp
<1>2. \A f \in Paths : files'[f] = IF f = op.file THEN op.config ELSE files[f]
  BY DEF WriteConfig, TypeOK
<1> QED BY <1>1, <1>2 DEF Content, WriteConfig

LEMMA ContentCrashed ==
    ASSUME TypeOK, SaveAllowed, Crash
    PROVE  \A f \in Paths :
              IF op.pc = "config_open" /\ op.file = f
              THEN Content(f) = op.old /\ Content(f)' = Damaged
              ELSE Content(f)' = Content(f)
<1>1. \A f \in Paths : Content(f)' = files[f] BY DEF Crash, Content, NoOp
<1>2. op.pc = "config_open" => files[op.file] = Damaged BY DEF SaveAllowed
<1> QED BY <1>1, <1>2 DEF Content

LEMMA ContentDeleted ==
    ASSUME TypeOK, NEW u \in Editors, NEW n \in Names, Delete(u, n)
    PROVE  \E f \in Found(n) :
              /\ f \in Paths /\ Content(f) = files[f] /\ Content(f)' = Absent
              /\ CanEdit(u, files[f].settings)
              /\ \E target \in Unique(Taken(archive), Path("deleted", FileName(f), 0)) :
                    archive' = [archive EXCEPT ![target] = files[f]]
              /\ files' = [files EXCEPT ![f] = Absent]
              /\ load' = Watched(f)
              /\ \A g \in Paths : g # f => Content(g) = files[g] /\ Content(g)' = files[g]
<1>1. PICK f \in Found(n) :
          /\ CanEdit(u, files[f].settings)
          /\ \E target \in Unique(Taken(archive), Path("deleted", FileName(f), 0)) :
                archive' = [archive EXCEPT ![target] = files[f]]
          /\ files' = [files EXCEPT ![f] = Absent]
          /\ load' = Watched(f)
  BY DEF Delete
<1>2. f \in Paths BY FoundFirst
<1>3. op = NoOp /\ op' = NoOp BY DEF Delete
<1>4. \A g \in Paths : Content(g) = files[g] /\ Content(g)' = files'[g]
  BY <1>3 DEF Content, NoOp
<1>5. files'[f] = Absent /\ \A g \in Paths : g # f => files'[g] = files[g]
  BY <1>1, <1>2 DEF TypeOK
<1> QED BY <1>1, <1>2, <1>4, <1>5

-----------------------------------------------------------------------------
LEMMA OwnerStep == IInv /\ [Next]_vars => OneOwner'
<1> SUFFICES ASSUME IInv, [Next]_vars PROVE OneOwner'
  OBVIOUS
<1>t. TypeOK /\ OneOwner /\ SaveAllowed BY DEF IInv
<1>s. ASSUME \A f \in Paths : Content(f)' = Content(f) \/ Content(f)'.is # "config"
      PROVE  OneOwner'
  BY <1>s, <1>t DEF OneOwner, Shows, Visible
<1>1. ASSUME NEW u \in Editors, NEW f, NEW c, NEW mode, Admitted(u, f, c, mode), Save(f, c, mode)
      PROVE  OneOwner'
  BY <1>1, <1>s, <1>t, ContentSame DEF Admitted, Save, NoOp
<1>2. ASSUME NEW u \in Editors, NEW n \in Names, Delete(u, n) PROVE OneOwner'
  <2>1. PICK f \in Found(n) : /\ Content(f)' = Absent
                              /\ \A g \in Paths : g # f => Content(g) = files[g] /\ Content(g)' = files[g]
    BY <1>2, <1>t, ContentDeleted
  <2>2. \A g \in Paths : Content(g)' = Content(g) \/ Content(g)'.is # "config"
    BY <2>1 DEF Absent
  <2> QED BY <2>2, <1>s
<1>3. ASSUME NEW u \in Editors, NEW n \in Names, LoadConfig(u, n) PROVE OneOwner'
  BY <1>3, <1>t, <1>s, ContentSame DEF LoadConfig, NoOp
<1>4. ASSUME NEW u \in Readers, NEW n \in Names, StartLoad(u, n) PROVE OneOwner'
  BY <1>4, <1>s DEF StartLoad, Content
<1>5. CASE WriteScript
  <2>1. op'.pc = "script_written" BY <1>5, <1>t, OpTyped DEF WriteScript
  <2> QED BY <1>5, <1>t, <1>s, <2>1, ContentSame DEF WriteScript
<1>6. CASE OpenConfig
  BY <1>6, <1>t, <1>s, ContentOpened
<1>7. CASE WriteConfig
  <2>1. \A f, g \in Paths, n \in Names : Shows(f, n)' /\ Shows(g, n)' => f = g
    <3> SUFFICES ASSUME NEW f \in Paths, NEW g \in Paths, NEW n \in Names, Shows(f, n)', Shows(g, n)', f # g
                 PROVE  FALSE
      OBVIOUS
    <3>1. \A h \in Paths : h # op.file => ~Visible(files[h], op.config.name)
      BY <1>7, <1>t DEF SaveAllowed, WriteConfig, Visible
    <3>2. CASE f = op.file
      BY <1>7, <1>t, <3>1, <3>2, ContentWritten DEF Shows, Visible
    <3>3. CASE g = op.file
      BY <1>7, <1>t, <3>1, <3>3, ContentWritten DEF Shows, Visible
    <3>4. CASE f # op.file /\ g # op.file
      BY <1>7, <1>t, <3>4, ContentWritten DEF OneOwner, Shows
    <3> QED BY <3>2, <3>3, <3>4
  <2> QED BY <2>1 DEF OneOwner
<1>8. CASE ReadFile
  BY <1>8, <1>s DEF ReadFile, Content
<1>9. CASE EndLoad
  BY <1>9, <1>s DEF EndLoad, Content
<1>10. CASE Crash
  BY <1>10, <1>t, <1>s, ContentCrashed DEF Damaged
<1>11. CASE UNCHANGED vars
  BY <1>11, <1>s DEF vars, Content
<1> QED BY <1>t, <1>1, <1>2, <1>3, <1>4, <1>5, <1>6, <1>7, <1>8, <1>9, <1>10, <1>11, StepCases

LEMMA SaveStep == IInv /\ [Next]_vars => SaveAllowed'
<1> SUFFICES ASSUME IInv, [Next]_vars PROVE SaveAllowed'
  OBVIOUS
<1>t. TypeOK /\ OneOwner /\ SaveAllowed BY DEF IInv
<1>i. ASSUME op' = NoOp PROVE SaveAllowed'
  BY <1>i DEF SaveAllowed, NoOp
<1>s. ASSUME UNCHANGED <<files, scripts, op>> PROVE SaveAllowed'
  BY <1>s, <1>t DEF SaveAllowed
<1>1. ASSUME NEW u \in Editors, NEW f, NEW c, NEW mode, Admitted(u, f, c, mode), Save(f, c, mode)
      PROVE  SaveAllowed'
  <2>1. /\ f \in Paths /\ c.script \in ScriptPaths
        /\ op'.file = f /\ op'.old = files[f] /\ op'.config = c /\ files' = files
        /\ op'.pc # "config_open"
    BY <1>1, ConfigTyped DEF Admitted, Save
  <2>2. scripts'[c.script] # Absent
    <3>1. CASE mode = "new_path" BY <1>1, <3>1 DEF Admitted, Save
    <3>2. CASE mode # "new_path"
      <4>1. scripts'[c.script] = Damaged BY <1>1, <1>t, <2>1, <3>2 DEF Save, TypeOK
      <4> QED BY <4>1 DEF Damaged, Absent
    <3> QED BY <3>1, <3>2
  <2> QED BY <1>1, <2>1, <2>2 DEF SaveAllowed, Admitted
<1>2. ASSUME NEW u \in Editors, NEW n \in Names, Delete(u, n) PROVE SaveAllowed'
  BY <1>2, <1>i DEF Delete
<1>3. ASSUME NEW u \in Editors, NEW n \in Names, LoadConfig(u, n) PROVE SaveAllowed'
  BY <1>3, <1>s DEF LoadConfig
<1>4. ASSUME NEW u \in Readers, NEW n \in Names, StartLoad(u, n) PROVE SaveAllowed'
  BY <1>4, <1>s DEF StartLoad
<1>5. CASE WriteScript
  <2>1. /\ op.pc # "idle" /\ op.config.script \in ScriptPaths /\ op.code # Absent
        /\ op'.pc = "script_written" /\ op'.file = op.file /\ op'.old = op.old /\ op'.config = op.config
    BY <1>5, <1>t, OpTyped, ConfigTyped DEF WriteScript, Text, Binary, Absent
  <2>2. scripts'[op.config.script] # Absent
    BY <1>5, <1>t, <2>1 DEF WriteScript, TypeOK
  <2> QED BY <1>5, <1>t, <2>1, <2>2 DEF WriteScript, SaveAllowed
<1>6. CASE OpenConfig
  <2>1. /\ op.pc # "idle" /\ op.file \in Paths
        /\ op'.pc = "config_open" /\ op'.file = op.file /\ op'.old = op.old /\ op'.config = op.config
    BY <1>6, <1>t, OpTyped DEF OpenConfig
  <2>2. files'[op.file] = Damaged /\ \A f \in Paths : f # op.file => files'[f] = files[f]
    BY <1>6, <1>t, <2>1 DEF OpenConfig, TypeOK
  <2> QED BY <1>6, <1>t, <2>1, <2>2 DEF OpenConfig, SaveAllowed
<1>7. CASE WriteConfig
  BY <1>7, <1>i DEF WriteConfig
<1>8. CASE ReadFile
  BY <1>8, <1>s DEF ReadFile
<1>9. CASE EndLoad
  BY <1>9, <1>s DEF EndLoad
<1>10. CASE Crash
  BY <1>10, <1>i DEF Crash
<1>11. CASE UNCHANGED vars
  BY <1>11, <1>s DEF vars
<1> QED BY <1>t, <1>1, <1>2, <1>3, <1>4, <1>5, <1>6, <1>7, <1>8, <1>9, <1>10, <1>11, StepCases

LEMMA ScriptStep == IInv /\ [Next]_vars => ScriptReady'
<1> SUFFICES ASSUME IInv, [Next]_vars PROVE ScriptReady'
  OBVIOUS
<1>t. TypeOK /\ OneOwner /\ SaveAllowed /\ ScriptReady BY DEF IInv
<1>s. ASSUME \A f \in Paths : files'[f] = files[f] \/ files'[f].is # "config",
             \A p \in ScriptPaths : scripts[p] # Absent => scripts'[p] # Absent
      PROVE  ScriptReady'
  <2>1. \A f \in Paths : files[f].is = "config" => files[f].script \in ScriptPaths
    BY <1>t, ConfigTyped DEF TypeOK, Absent, Damaged
  <2> QED BY <1>s, <1>t, <2>1 DEF ScriptReady
<1>1. ASSUME NEW u \in Editors, NEW f, NEW c, NEW mode, Admitted(u, f, c, mode), Save(f, c, mode)
      PROVE  ScriptReady'
  <2>1. \A p \in ScriptPaths : scripts[p] # Absent => scripts'[p] # Absent
    BY <1>1, <1>t DEF Save, TypeOK, Damaged, Absent
  <2> QED BY <1>1, <1>s, <2>1 DEF Save
<1>2. ASSUME NEW u \in Editors, NEW n \in Names, Delete(u, n) PROVE ScriptReady'
  <2>1. \A f \in Paths : files'[f] = files[f] \/ files'[f].is # "config"
    BY <1>2, <1>t DEF Delete, TypeOK, Absent
  <2> QED BY <1>2, <1>s, <2>1 DEF Delete
<1>3. ASSUME NEW u \in Editors, NEW n \in Names, LoadConfig(u, n) PROVE ScriptReady'
  BY <1>3, <1>s DEF LoadConfig
<1>4. ASSUME NEW u \in Readers, NEW n \in Names, StartLoad(u, n) PROVE ScriptReady'
  BY <1>4, <1>s DEF StartLoad
<1>5. CASE WriteScript
  <2>1. op.code # Absent /\ op.config.script \in ScriptPaths
    BY <1>5, <1>t, OpTyped, ConfigTyped DEF WriteScript, Text, Binary, Absent
  <2>2. \A p \in ScriptPaths : scripts[p] # Absent => scripts'[p] # Absent
    BY <1>5, <1>t, <2>1 DEF WriteScript, TypeOK
  <2> QED BY <1>5, <1>s, <2>2 DEF WriteScript
<1>6. CASE OpenConfig
  <2>1. \A f \in Paths : files'[f] = files[f] \/ files'[f].is # "config"
    BY <1>6, <1>t DEF OpenConfig, TypeOK, Damaged
  <2> QED BY <1>6, <1>s, <2>1 DEF OpenConfig
<1>7. CASE WriteConfig
  <2>1. \A f \in Paths : files'[f] = IF f = op.file THEN op.config ELSE files[f]
    BY <1>7, <1>t DEF WriteConfig, TypeOK
  <2>2. scripts[op.config.script] # Absent /\ scripts' = scripts
    BY <1>7, <1>t DEF WriteConfig, SaveAllowed
  <2> QED BY <1>t, <2>1, <2>2 DEF ScriptReady
<1>8. CASE ReadFile
  BY <1>8, <1>s DEF ReadFile
<1>9. CASE EndLoad
  BY <1>9, <1>s DEF EndLoad
<1>10. CASE Crash
  BY <1>10, <1>s DEF Crash
<1>11. CASE UNCHANGED vars
  BY <1>11, <1>s DEF vars
<1> QED BY <1>t, <1>1, <1>2, <1>3, <1>4, <1>5, <1>6, <1>7, <1>8, <1>9, <1>10, <1>11, StepCases

(* No two configs that can be read have one name.                          *)
LEMMA OneOfName == IInv => UniqueNames
<1> SUFFICES ASSUME IInv PROVE UniqueNames
  OBVIOUS
<1>1. \A f \in Paths : files[f].is = "config" => Content(f) = files[f]
  BY DEF IInv, Content, SaveAllowed, Damaged
<1> QED BY <1>1 DEF IInv, UniqueNames, Steady, Answers, OneOwner, Shows, Visible

(* The file a load reads next is listed before the others it has to read.  *)
LEMMA FirstBefore ==
    ASSUME NEW fs \in SUBSET Paths, NEW f \in FirstOf(fs), NEW g \in fs, f # g
    PROVE  Before(f, g)
<1>1. PICK i \in DOMAIN FileOrder :
          f = FileOrder[i] /\ \A k \in 1..i - 1 : FileOrder[k] \notin fs
  BY DEF FirstOf
<1>2. PICK j \in DOMAIN FileOrder : g = FileOrder[j]
  BY DEF Paths, Range
<1>3. i \in Nat /\ j \in Nat /\ j >= 1
  BY FolderAssumption
<1>4. i < j
  BY <1>1, <1>2, <1>3
<1> QED BY <1>1, <1>2, <1>4 DEF Before

LEMMA LoadStep == IInv /\ [Next]_vars => LoadAhead' /\ LoadFinds'
<1> SUFFICES ASSUME IInv, [Next]_vars PROVE LoadAhead' /\ LoadFinds'
  OBVIOUS
<1>t. TypeOK /\ OneOwner /\ SaveAllowed /\ LoadAhead /\ LoadFinds BY DEF IInv
<1>i. ASSUME load' = NoLoad PROVE LoadAhead' /\ LoadFinds'
  BY <1>i DEF LoadAhead, LoadFinds, NoLoad
<1>s. ASSUME UNCHANGED load, UNCHANGED files PROVE LoadAhead' /\ LoadFinds'
  BY <1>s, <1>t DEF LoadAhead, LoadFinds, Access
<1>w. ASSUME NEW f \in Paths, load' = Watched(f), \A g \in Paths : g # f => files'[g] = files[g]
      PROVE  LoadAhead' /\ LoadFinds'
  <2>1. load.pc # "idle" => load.steady \subseteq Paths
    BY <1>t, LoadTyped DEF Ended
  <2>2. LoadAhead' BY <1>w, <1>t, <2>1, WatchedTyped, LoadTyped DEF LoadAhead
  <2>3. LoadFinds' BY <1>w, <1>t, <2>1, WatchedTyped DEF LoadFinds, Access
  <2> QED BY <2>2, <2>3
<1>1. ASSUME NEW u \in Editors, NEW f, NEW c, NEW mode, Admitted(u, f, c, mode), Save(f, c, mode)
      PROVE  LoadAhead' /\ LoadFinds'
  BY <1>1, <1>s DEF Save
<1>2. ASSUME NEW u \in Editors, NEW n \in Names, Delete(u, n) PROVE LoadAhead' /\ LoadFinds'
  <2>1. PICK f \in Found(n) : f \in Paths /\ load' = Watched(f) /\ files' = [files EXCEPT ![f] = Absent]
    BY <1>2, <1>t, ContentDeleted
  <2> QED BY <1>t, <1>w, <2>1 DEF TypeOK
<1>3. ASSUME NEW u \in Editors, NEW n \in Names, LoadConfig(u, n) PROVE LoadAhead' /\ LoadFinds'
  BY <1>3, <1>s DEF LoadConfig
<1>4. ASSUME NEW u \in Readers, NEW n \in Names, StartLoad(u, n) PROVE LoadAhead' /\ LoadFinds'
  <2>1. /\ load'.pc = "read" /\ load'.name = n /\ load'.steady = Steady(n)
        /\ load'.rest = {f \in Paths : files[f] # Absent}
        /\ files' = files
    BY <1>4 DEF StartLoad
  <2> QED BY <2>1 DEF LoadAhead, LoadFinds, Steady, Answers, Visible, Absent
<1>5. CASE WriteScript
  BY <1>5, <1>s DEF WriteScript
<1>6. CASE OpenConfig
  BY <1>6, <1>t, <1>w, OpTyped DEF OpenConfig, TypeOK
<1>7. CASE WriteConfig
  <2>1. /\ op.file \in Paths /\ files[op.file] = Damaged
        /\ \A f \in Paths : f # op.file => files'[f] = files[f]
    BY <1>7, <1>t, OpTyped DEF WriteConfig, SaveAllowed, TypeOK
  <2>2. load.pc # "idle" => load.steady \subseteq Paths /\ op.file \notin load.steady
    BY <1>t, <2>1, LoadTyped DEF LoadAhead, Visible, Damaged, Ended
  <2> QED BY <1>7, <1>t, <2>1, <2>2, LoadTyped DEF WriteConfig, LoadAhead, LoadFinds, Access
<1>8. CASE ReadFile
  <2>1. load.pc = "read" /\ files' = files BY <1>8 DEF ReadFile
  <2>2. CASE load' \in Ended /\ load'.steady = load.steady /\ load.rest = {}
    BY <1>t, <2>1, <2>2 DEF LoadAhead, LoadFinds
  <2>4. CASE \E f \in Paths : Answered(f)
    <3>1. PICK f \in Paths : Answered(f) BY <2>4
    <3>2. /\ load'.steady = load.steady /\ load'.user = load.user /\ load'.name = load.name
          /\ load'.at = {f} /\ f \in FirstOf(load.rest) /\ load'.pc = "done"
          /\ \/ load'.answer = "corrupt" /\ ShownName(f) = load.name /\ files[f].is = "damaged"
             \/ load'.answer = Access(load.user, f) /\ Visible(files[f], load.name)
      BY <3>1 DEF Answered, Ended
    <3>3. load.rest \subseteq Paths /\ load.steady \subseteq Paths /\ load.name \in Names
      BY <1>t, <2>1, LoadTyped
    <3>4. \A g \in load.steady : g \in load.rest /\ Visible(files[g], load.name)
      BY <1>t, <2>1 DEF LoadAhead
    <3>5. LoadAhead' BY <2>1, <3>2, <3>4 DEF LoadAhead
    <3>6. ASSUME NEW g \in load.steady
          PROVE  \/ load'.at = {g} /\ load'.answer = Access(load.user, g)
                 \/ /\ load'.answer = "corrupt"
                    /\ \E h \in load'.at : ShownName(h) = load'.name /\ Before(h, g)
      <4>1. CASE files[f].is = "damaged"
        <5>1. f # g BY <3>4, <4>1 DEF Visible
        <5>2. Before(f, g) BY <3>2, <3>3, <3>4, <5>1, FirstBefore
        <5>3. load'.answer = "corrupt" /\ ShownName(f) = load.name BY <3>2, <4>1 DEF Visible
        <5> QED BY <3>2, <5>2, <5>3
      <4>2. CASE files[f].is # "damaged"
        <5>1. f \in Steady(load.name) /\ g \in Steady(load.name)
          BY <3>2, <3>3, <3>4, <4>2 DEF Steady, Answers, Visible
        <5>2. f = g BY <3>3, <5>1, OneOfName DEF UniqueNames
        <5> QED BY <3>2, <4>2, <5>2
      <4> QED BY <4>1, <4>2
    <3>7. LoadFinds' BY <2>1, <3>2, <3>6 DEF LoadFinds, Access
    <3> QED BY <3>5, <3>7
  <2>3. CASE \E f \in Paths :
                /\ load' \in [pc : {"read"}, user : Readers, name : Names, steady : SUBSET Paths, rest : SUBSET Paths]
                /\ ~Visible(files[f], load.name)
                /\ load'.steady = load.steady /\ load'.name = load.name
                /\ load'.rest = load.rest \ {f}
    BY <1>t, <2>1, <2>3 DEF LoadAhead, LoadFinds
  <2> QED BY <1>8, <1>t, <2>2, <2>3, <2>4, ReadCases
<1>9. CASE EndLoad
  BY <1>9, <1>i DEF EndLoad
<1>10. CASE Crash
  BY <1>10, <1>i DEF Crash
<1>11. CASE UNCHANGED vars
  BY <1>11, <1>s DEF vars
<1> QED BY <1>t, <1>1, <1>2, <1>3, <1>4, <1>5, <1>6, <1>7, <1>8, <1>9, <1>10, <1>11, StepCases

LEMMA InvariantInit == Init => IInv
<1> SUFFICES ASSUME Init PROVE IInv
  OBVIOUS
<1>1. TypeOK BY TypeInit
<1>2. \A f \in Paths : Content(f) = files[f] BY DEF Init, Content, NoOp
<1>3. OneOwner
  BY <1>2 DEF OneOwner, Shows, Init, Matches, Answers, Visible
<1>4. SaveAllowed BY DEF Init, SaveAllowed, NoOp
<1>5. ScriptReady
  <2> SUFFICES ASSUME NEW f \in Paths, files[f].is = "config" PROVE scripts[files[f].script] # Absent
    BY DEF ScriptReady
  <2>1. f \in Taken(files) BY <1>1 DEF TypeOK, Taken, Absent
  <2> QED BY <2>1 DEF Init, Taken
<1>6. LoadAhead /\ LoadFinds BY DEF Init, LoadAhead, LoadFinds, NoLoad
<1> QED BY <1>1, <1>3, <1>4, <1>5, <1>6 DEF IInv

(* The inductive invariant: what is said above holds in every state.       *)
THEOREM InductiveInvariant == Spec => []IInv
<1>1. Init => IInv BY InvariantInit
<1>2. IInv /\ [Next]_vars => IInv'
  BY TypeStep, OwnerStep, SaveStep, ScriptStep, LoadStep DEF IInv
<1> QED BY <1>1, <1>2, PTL DEF Spec

(* A name leads to one script whose file is there, whatever the saves, the *)
(* removals and the crashes between two file operations (update_config,    *)
(* _preprocess_script_fields, write_file).                                 *)
THEOREM FolderIsSound == Spec => []ScriptsSound
<1>1. IInv => ScriptsSound
  <2> SUFFICES ASSUME IInv PROVE ScriptsSound
    OBVIOUS
  <2> QED BY OneOfName DEF IInv, ScriptsSound
<1> QED BY InductiveInvariant, <1>1, PTL

(* A load of a script that stays as it is (load_config_model) answers with *)
(* that script, whatever is saved or removed meanwhile in the other files, *)
(* or that it is corrupt, because of a file before it.                     *)
THEOREM LoadsFindTheirScript == Spec => []LoadFinds
<1>1. IInv => LoadFinds BY DEF IInv
<1> QED BY InductiveInvariant, <1>1, PTL

-----------------------------------------------------------------------------
(* The names of the registry.                                              *)
LEMMA NamedIs ==
    \A f \in Paths, n \in Names : OneOwner /\ Shows(f, n) => ScriptNamed(n) = BodyOf(Content(f))
<1> SUFFICES ASSUME NEW f \in Paths, NEW n \in Names, OneOwner, Shows(f, n)
             PROVE  ScriptNamed(n) = BodyOf(Content(f))
  OBVIOUS
<1> DEFINE all == {g \in Paths : Content(g).is = "config" /\ Answers(g, Content(g), n)}
<1>1. all = {f} BY DEF OneOwner, Shows, Visible, Answers
<1>2. (CHOOSE g \in {f} : TRUE) = f OBVIOUS
<1> QED BY <1>1, <1>2 DEF ScriptNamed

LEMMA NamedNone ==
    \A n \in Names : (\A f \in Paths : ~Shows(f, n)) => ScriptNamed(n) = Absent
BY DEF ScriptNamed, Shows, Visible, Answers

LEMMA NamedNext ==
    /\ \A f \in Paths, n \in Names : OneOwner' /\ Shows(f, n)' => ScriptNamed(n)' = BodyOf(Content(f)')
    /\ \A n \in Names : (\A f \in Paths : ~Shows(f, n)') => ScriptNamed(n)' = Absent
<1>1. (\A f \in Paths, n \in Names : OneOwner /\ Shows(f, n) => ScriptNamed(n) = BodyOf(Content(f)))'
  BY NamedIs, PTL
<1>2. (\A n \in Names : (\A f \in Paths : ~Shows(f, n)) => ScriptNamed(n) = Absent)'
  BY NamedNone, PTL
<1> QED BY <1>1, <1>2 DEF BodyOf

(* A step that changes one file changes the names that file has or had.    *)
LEMMA NamedStep ==
    ASSUME OneOwner, OneOwner', NEW f \in Paths,
           \A g \in Paths : g # f => Content(g)' = Content(g)
    PROVE  \A n \in Names :
              ScriptNamed(n)' = IF Visible(Content(f)', n) THEN BodyOf(Content(f)')
                                ELSE IF Visible(Content(f), n) THEN Absent
                                ELSE ScriptNamed(n)
<1> SUFFICES ASSUME NEW n \in Names
             PROVE  ScriptNamed(n)' = IF Visible(Content(f)', n) THEN BodyOf(Content(f)')
                                      ELSE IF Visible(Content(f), n) THEN Absent
                                      ELSE ScriptNamed(n)
  OBVIOUS
<1>0. \A g \in Paths : Shows(g, n)' <=> Visible(Content(g)', n)
  BY DEF Shows, Visible
<1>1. CASE Visible(Content(f)', n)
  BY <1>0, <1>1, NamedNext
<1>2. CASE ~Visible(Content(f)', n) /\ Visible(Content(f), n)
  <2>1. \A g \in Paths : ~Shows(g, n)'
    BY <1>0, <1>2 DEF OneOwner, Shows
  <2> QED BY <1>2, <2>1, NamedNext
<1>3. CASE ~Visible(Content(f)', n) /\ ~Visible(Content(f), n)
  <2>1. \A g \in Paths : Shows(g, n)' <=> Shows(g, n)
    BY <1>0, <1>3 DEF Shows
  <2>2. CASE \A g \in Paths : ~Shows(g, n)
    BY <1>3, <2>1, <2>2, NamedNone, NamedNext
  <2>3. ASSUME NEW g \in Paths, Shows(g, n) PROVE ScriptNamed(n)' = ScriptNamed(n)
    <3>1. g # f BY <1>3, <2>3 DEF Shows
    <3>2. ScriptNamed(n) = BodyOf(Content(g)) BY <2>3, NamedIs
    <3>3. ScriptNamed(n)' = BodyOf(Content(g)') BY <2>1, <2>3, NamedNext
    <3> QED BY <3>1, <3>2, <3>3
  <2> QED BY <1>3, <2>2, <2>3
<1> QED BY <1>1, <1>2, <1>3

LEMMA NamedSame ==
    ASSUME OneOwner, OneOwner', \A f \in Paths : Content(f)' = Content(f)
    PROVE  \A n \in Names : ScriptNamed(n)' = ScriptNamed(n)
<1>1. Names # {} /\ 0 \in 0..MaxCopies BY FolderAssumption
<1>2. Paths # {} BY <1>1, FolderAssumption
<1>3. PICK f \in Paths : TRUE BY <1>2
<1>4. \A n \in Names :
         ScriptNamed(n)' = IF Visible(Content(f)', n) THEN BodyOf(Content(f)')
                           ELSE IF Visible(Content(f), n) THEN Absent
                           ELSE ScriptNamed(n)
  BY <1>3, NamedStep
<1>5. Content(f)' = Content(f) BY <1>3
<1>6. \A n \in Names : Visible(Content(f), n) => ScriptNamed(n) = BodyOf(Content(f))
  BY <1>3, NamedIs DEF Shows
<1> QED BY <1>4, <1>5, <1>6

-----------------------------------------------------------------------------
(* The registry, step by step.                                             *)
Bodies == {[settings |-> s, script |-> p] : s \in Settings \cup AtFirst, p \in ScriptPaths}

registry == [n \in Names |-> ScriptNamed(n)]

bin == {BodyOf(archive[p]) : p \in Taken(archive)}

LEMMA BodyTyped == \A c \in Configs : BodyOf(c) \in Bodies /\ BodyOf(c) # Absent
<1> SUFFICES ASSUME NEW c \in Configs PROVE BodyOf(c) \in Bodies /\ BodyOf(c) # Absent
  OBVIOUS
<1>1. BodyOf(c) \in Bodies BY ConfigTyped DEF BodyOf, Bodies
<1>2. "settings" \in DOMAIN BodyOf(c) /\ "settings" \notin DOMAIN Absent BY DEF BodyOf, Absent
<1> QED BY <1>1, <1>2

LEMMA VisibleTyped ==
    ASSUME TypeOK, NEW f \in Paths, NEW n \in Names, Shows(f, n)
    PROVE  Content(f) \in Configs
<1>1. CASE op.pc = "config_open" /\ op.file = f
  BY <1>1, OpTyped DEF Content, Shows, Visible, Absent
<1>2. CASE ~(op.pc = "config_open" /\ op.file = f)
  BY <1>2 DEF TypeOK, Content, Shows, Visible, Absent, Damaged
<1> QED BY <1>1, <1>2

LEMMA RegistryStarts == Init => Registry!RegistryInit
<1> SUFFICES ASSUME Init PROVE Registry!RegistryInit
  OBVIOUS
<1>1. IInv BY InvariantInit
<1>2. \A n \in Names : ScriptNamed(n) \in Bodies \cup {Absent}
  <2> SUFFICES ASSUME NEW n \in Names PROVE ScriptNamed(n) \in Bodies \cup {Absent}
    OBVIOUS
  <2>1. CASE \A f \in Paths : ~Shows(f, n) BY <2>1, NamedNone
  <2>2. ASSUME NEW f \in Paths, Shows(f, n) PROVE ScriptNamed(n) \in Bodies \cup {Absent}
    BY <2>2, <1>1, NamedIs, BodyTyped, VisibleTyped DEF IInv
  <2> QED BY <2>1, <2>2
<1>3. Taken(archive) = {} BY DEF Init, Taken
<1>4. bin = {} BY <1>3 DEF bin
<1>5. crashes = 0 BY DEF Init
<1>6. registry \in [Names -> Bodies \cup {Absent}] BY <1>2 DEF registry
<1> QED BY <1>4, <1>5, <1>6 DEF Registry!RegistryInit, registry, bin, Bodies

(* A step of the folder that only changes what is told to the readers, or  *)
(* that has yet to replace the config.                                     *)
LEMMA Stutters ==
    ASSUME OneOwner, OneOwner', \A f \in Paths : Content(f)' = Content(f),
           UNCHANGED <<archive, crashes>>
    PROVE  UNCHANGED Registry!registryVars
<1>1. registry' = registry BY NamedSame DEF registry
<1>2. bin' = bin BY DEF bin, Taken, BodyOf
<1> QED BY <1>1, <1>2 DEF Registry!registryVars, registry, bin

LEMMA WriteMaps ==
    ASSUME IInv, OneOwner', WriteConfig
    PROVE  [Registry!RegistryNext]_(Registry!registryVars)
<1> DEFINE c == op.config.name
           o == op.old.name
<1>t. TypeOK /\ OneOwner /\ SaveAllowed BY DEF IInv
<1>1. op.file \in Paths /\ op.config \in Configs /\ c \in Names /\ op.old \in {Absent} \cup Configs
  BY <1>t, OpTyped, ConfigTyped DEF WriteConfig
<1>2. PICK f \in Paths : f = op.file BY <1>1
<1>3. Content(f) = op.old /\ Content(f)' = op.config
      /\ \A g \in Paths : g # f => Content(g)' = Content(g) /\ Content(g) = files[g]
  BY <1>t, <1>2, ContentWritten
<1>4. \A n \in Names :
         ScriptNamed(n)' = IF Visible(op.config, n) THEN BodyOf(op.config)
                           ELSE IF Visible(op.old, n) THEN Absent
                           ELSE ScriptNamed(n)
  BY <1>t, <1>3, NamedStep
<1>5. UNCHANGED crashes /\ bin' = bin BY DEF WriteConfig, bin, Taken, BodyOf
<1>6. BodyOf(op.config) \in Bodies /\ op.config.is = "config" BY <1>1, BodyTyped, ConfigTyped
<1>7. \A n \in Names : Visible(op.old, n) => ScriptNamed(n) = BodyOf(op.old)
  BY <1>t, <1>3, NamedIs DEF Shows
<1>8. ~Visible(op.old, c) => ScriptNamed(c) = Absent
  <2>1. \A g \in Paths : g # f => ~Visible(files[g], c)
    BY <1>t, <1>2 DEF SaveAllowed, WriteConfig, Visible
  <2>2. ASSUME ~Visible(op.old, c) PROVE \A g \in Paths : ~Shows(g, c)
    BY <1>3, <2>1, <2>2 DEF Shows
  <2> QED BY <1>1, <2>2, NamedNone
<1>9. op.old # Absent =>
          /\ op.old \in Configs /\ ~op.old.settings.hidden /\ o \in Names
          /\ Visible(op.old, o) /\ BodyOf(op.old) # Absent
          /\ \E u \in Editors : EditsScript(u, BodyOf(op.old))
  BY <1>t, <1>1, BodyTyped, ConfigTyped DEF SaveAllowed, WriteConfig, Visible
<1>10. op.old = Absent => \A n \in Names : ~Visible(op.old, n) BY DEF Visible, Absent
<1>11. \A n \in Names : registry[n] = ScriptNamed(n) /\ registry'[n] = ScriptNamed(n)'
  BY DEF registry
<1>12. \A n \in Names : Visible(op.old, n) => n = o BY DEF Visible
<1>a. CASE op.config.settings.hidden /\ op.old = Absent
  <2>1. registry' = registry BY <1>a, <1>4, <1>10 DEF registry, Visible
  <2> QED BY <1>5, <2>1 DEF Registry!registryVars, registry, bin
<1>b. CASE op.config.settings.hidden /\ op.old # Absent
  <2>1. registry' = [registry EXCEPT ![o] = Absent]
    BY <1>b, <1>4, <1>9, <1>12 DEF registry, Visible
  <2>2. PICK u \in Editors : EditsScript(u, registry[o])
    BY <1>b, <1>7, <1>9, <1>11
  <2>3. registry[o] # Absent /\ o \in Names BY <1>b, <1>7, <1>9, <1>11
  <2>4. Registry!Hide(u, o) BY <1>5, <2>1, <2>2, <2>3 DEF Registry!Hide, registry, bin
  <2> QED BY <2>3, <2>4 DEF Registry!RegistryNext
<1>c. CASE ~op.config.settings.hidden /\ op.old = Absent
  <2>1. registry'[c] = BodyOf(op.config) /\ registry[c] = Absent
    BY <1>c, <1>1, <1>4, <1>6, <1>8, <1>10, <1>11 DEF Visible
  <2>2. registry' = [registry EXCEPT ![c] = registry'[c]]
    BY <1>c, <1>4, <1>10, <2>1 DEF registry, Visible
  <2>3. PICK m \in Names : m = c BY <1>1
  <2>4. registry'[m] \in Bodies /\ registry[m] = Absent /\ registry' = [registry EXCEPT ![m] = registry'[m]]
    BY <1>6, <2>1, <2>2, <2>3
  <2>5. Registry!Register(m) BY <1>5, <2>4 DEF Registry!Register, registry, bin, Bodies
  <2> QED BY <2>5 DEF Registry!RegistryNext
<1>d. CASE ~op.config.settings.hidden /\ op.old # Absent
  <2>1. registry'[c] = BodyOf(op.config)
    BY <1>d, <1>1, <1>4, <1>6, <1>11 DEF Visible
  <2>2. registry' = [registry EXCEPT ![o] = Absent, ![c] = registry'[c]]
    BY <1>d, <1>1, <1>4, <1>6, <1>9, <1>12, <2>1 DEF registry, Visible
  <2>3. PICK u \in Editors : EditsScript(u, registry[o])
    BY <1>d, <1>7, <1>9, <1>11
  <2>4. registry[o] # Absent /\ o \in Names BY <1>d, <1>7, <1>9, <1>11
  <2>5. c # o => registry[c] = Absent BY <1>1, <1>8, <1>11, <1>12
  <2>6. PICK n \in Names, m \in Names : n = o /\ m = c BY <1>1, <2>4
  <2>7. /\ registry[n] # Absent /\ EditsScript(u, registry[n])
        /\ m # n => registry[m] = Absent
        /\ registry'[m] \in Bodies
        /\ registry' = [registry EXCEPT ![n] = Absent, ![m] = registry'[m]]
    BY <1>6, <2>1, <2>2, <2>3, <2>4, <2>5, <2>6
  <2>8. Registry!Change(u, n, m)
    BY <1>5, <2>7 DEF Registry!Change, registry, bin, Bodies
  <2> QED BY <2>8 DEF Registry!RegistryNext
<1> QED BY <1>a, <1>b, <1>c, <1>d

LEMMA DeleteMaps ==
    ASSUME IInv, OneOwner', NEW u \in Editors, NEW n \in Names, Delete(u, n)
    PROVE  Registry!Remove(u, n)
<1>t. TypeOK /\ OneOwner BY DEF IInv
<1>1. PICK f \in Found(n) :
         /\ f \in Paths /\ Content(f) = files[f] /\ Content(f)' = Absent
         /\ CanEdit(u, files[f].settings)
         /\ \E target \in Unique(Taken(archive), Path("deleted", FileName(f), 0)) :
               archive' = [archive EXCEPT ![target] = files[f]]
         /\ \A g \in Paths : g # f => Content(g) = files[g] /\ Content(g)' = files[g]
  BY <1>t, ContentDeleted
<1>2. Visible(files[f], n) /\ Shows(f, n) /\ files[f] \in Configs
  BY <1>t, <1>1, FoundFirst, VisibleTyped DEF Shows
<1>3. \A m \in Names : ScriptNamed(m)' = IF m = n THEN Absent ELSE ScriptNamed(m)
  <2>1. \A m \in Names :
            ScriptNamed(m)' = IF Visible(Absent, m) THEN BodyOf(Absent)
                              ELSE IF Visible(files[f], m) THEN Absent
                              ELSE ScriptNamed(m)
    BY <1>t, <1>1, NamedStep
  <2>2. \A m \in Names : ~Visible(Absent, m) /\ (Visible(files[f], m) <=> m = n)
    BY <1>2 DEF Visible, Absent
  <2> QED BY <2>1, <2>2
<1>4. ScriptNamed(n) = BodyOf(files[f]) /\ BodyOf(files[f]) # Absent
  BY <1>t, <1>1, <1>2, NamedIs, BodyTyped
<1>5. EditsScript(u, BodyOf(files[f])) BY <1>1 DEF EditsScript, BodyOf, Delete
<1>6. bin' = bin \cup {BodyOf(files[f])}
  <2>1. PICK target \in Unique(Taken(archive), Path("deleted", FileName(f), 0)) :
            archive' = [archive EXCEPT ![target] = files[f]]
    BY <1>1
  <2>2. target \notin Taken(archive) BY <2>1, UniqueIsFree
  <2>3. PICK i \in 0..MaxCopies : target = [Path("deleted", FileName(f), 0) EXCEPT !.copy = i]
    BY <2>1 DEF Unique
  <2>4. target = Path("deleted", FileName(f), i) BY <2>3 DEF Path
  <2>5. target \in Deleted BY <1>1, <2>4 DEF Deleted
  <2>6. files[f] # Absent BY <1>2, ConfigTyped
  <2>7. Taken(archive)' = Taken(archive) \cup {target}
        /\ archive'[target] = files[f] /\ \A p \in Taken(archive) : archive'[p] = archive[p]
    BY <1>t, <2>1, <2>2, <2>5, <2>6 DEF Taken, TypeOK
  <2> QED BY <2>7 DEF bin, BodyOf
<1>7. registry[n] = BodyOf(files[f]) /\ registry' = [registry EXCEPT ![n] = Absent]
  BY <1>3, <1>4 DEF registry
<1>8. UNCHANGED crashes BY DEF Delete
<1> QED BY <1>4, <1>5, <1>6, <1>7, <1>8 DEF Registry!Remove, registry, bin

LEMMA CrashMaps ==
    ASSUME IInv, OneOwner', Crash
    PROVE  \E n \in Names : Registry!Crash(n)
<1>t. TypeOK /\ OneOwner /\ SaveAllowed BY DEF IInv
<1>1. bin' = bin /\ crashes' = crashes + 1 BY DEF Crash, bin, Taken, BodyOf
<1>2. PICK any \in Names : TRUE BY FolderAssumption
<1>3. CASE registry' = registry
  <2>1. Registry!Crash(any) BY <1>1, <1>3 DEF Registry!Crash, registry, bin
  <2> QED BY <2>1
<1>4. CASE registry' # registry
  <2>1. PICK f \in Paths : op.pc = "config_open" /\ op.file = f
    <3>1. ASSUME ~\E f \in Paths : op.pc = "config_open" /\ op.file = f PROVE FALSE
      <4>1. \A f \in Paths : Content(f)' = Content(f) BY <1>t, <3>1, ContentCrashed
      <4> QED BY <1>t, <1>4, <4>1, NamedSame DEF registry
    <3> QED BY <3>1
  <2>2. \A g \in Paths : IF f = g THEN Content(g) = op.old /\ Content(g)' = Damaged
                          ELSE Content(g)' = Content(g)
    BY <1>t, <2>1, ContentCrashed
  <2>3. \A n \in Names : ScriptNamed(n)' = IF Visible(Damaged, n) THEN BodyOf(Damaged)
                                           ELSE IF Visible(op.old, n) THEN Absent
                                           ELSE ScriptNamed(n)
    BY <1>t, <2>2, NamedStep
  <2>4. \A n \in Names : ~Visible(Damaged, n) BY DEF Visible, Damaged
  <2>5. CASE \A n \in Names : ~Visible(op.old, n)
    BY <1>4, <2>3, <2>4, <2>5 DEF registry
  <2>6. ASSUME NEW n \in Names, Visible(op.old, n) PROVE Registry!Crash(n)
    <3>1. \A m \in Names : Visible(op.old, m) <=> m = n BY <2>6 DEF Visible
    <3>2. registry' = [registry EXCEPT ![n] = Absent] BY <2>3, <2>4, <3>1 DEF registry
    <3> QED BY <1>1, <3>2 DEF Registry!Crash, registry, bin
  <2> QED BY <2>5, <2>6
<1> QED BY <1>3, <1>4

LEMMA StepMaps ==
    IInv /\ IInv' /\ [Next]_vars => [Registry!RegistryNext]_(Registry!registryVars)
<1> SUFFICES ASSUME IInv, IInv', [Next]_vars
             PROVE  [Registry!RegistryNext]_(Registry!registryVars)
  OBVIOUS
<1>t. TypeOK /\ OneOwner /\ OneOwner' /\ SaveAllowed BY DEF IInv
<1>s. ASSUME UNCHANGED <<files, archive, crashes>>, op.pc # "config_open", op'.pc # "config_open"
      PROVE  UNCHANGED Registry!registryVars
  BY <1>s, <1>t, ContentSame, Stutters
<1>u. ASSUME UNCHANGED <<files, archive, op, crashes>> PROVE UNCHANGED Registry!registryVars
  <2>1. \A f \in Paths : Content(f)' = Content(f) BY <1>u DEF Content
  <2> QED BY <1>u, <1>t, <2>1, Stutters
<1>1. ASSUME NEW u \in Editors, NEW f, NEW c, NEW mode, Admitted(u, f, c, mode), Save(f, c, mode)
      PROVE  UNCHANGED Registry!registryVars
  BY <1>1, <1>s DEF Admitted, Save, NoOp
<1>2. ASSUME NEW u \in Editors, NEW n \in Names, Delete(u, n) PROVE Registry!RegistryNext
  BY <1>2, <1>t, DeleteMaps DEF Registry!RegistryNext
<1>3. ASSUME NEW u \in Editors, NEW n \in Names, LoadConfig(u, n) PROVE UNCHANGED Registry!registryVars
  BY <1>3, <1>u DEF LoadConfig
<1>4. ASSUME NEW u \in Readers, NEW n \in Names, StartLoad(u, n) PROVE UNCHANGED Registry!registryVars
  BY <1>4, <1>u DEF StartLoad
<1>5. CASE WriteScript
  <2>1. op'.pc = "script_written" BY <1>5, <1>t, OpTyped DEF WriteScript
  <2> QED BY <1>5, <1>s, <2>1 DEF WriteScript
<1>6. CASE OpenConfig
  BY <1>6, <1>t, ContentOpened, Stutters DEF OpenConfig
<1>7. CASE WriteConfig
  BY <1>7, <1>t, WriteMaps
<1>8. CASE ReadFile
  BY <1>8, <1>u DEF ReadFile
<1>9. CASE EndLoad
  BY <1>9, <1>u DEF EndLoad
<1>10. CASE Crash
  BY <1>10, <1>t, CrashMaps DEF Registry!RegistryNext
<1>11. CASE UNCHANGED vars
  BY <1>11, <1>u DEF vars
<1> QED BY <1>t, <1>1, <1>2, <1>3, <1>4, <1>5, <1>6, <1>7, <1>8, <1>9, <1>10, <1>11, StepCases

(* The folder is a registry of scripts: through the names, the steps of    *)
(* create_config, update_config and delete_config, and a crash between two *)
(* file operations, are steps ScriptRegistry lets an administrator take.   *)
THEOREM FolderIsRegistry == Spec => ImplementsRegistry
<1>1. Init => Registry!RegistryInit BY RegistryStarts
<1>2. IInv /\ IInv' /\ [Next]_vars => [Registry!RegistryNext]_(Registry!registryVars)
  BY StepMaps
<1> QED BY <1>1, <1>2, InductiveInvariant, PTL DEF Spec, ImplementsRegistry, Registry!RegistrySpec

-----------------------------------------------------------------------------
(* Migrations *)

AllMigrations == {"execution_info", "user_id", "access_config", "output_files",
          "bash_formatting", "repeat_param", "ldap_resolver"}

RunnerMigrations == {"output_files", "bash_formatting", "repeat_param"}

LogMigrations == {"execution_info", "user_id"}

(* What the content h of a file has once a migration is applied to it;     *)
(* `ours' says that it has the arguments of this version.                  *)
Done(m, h, ours) ==
    /\ m = "output_files" /\ h \in RunnerFile => h.output_files # "$$$"
    /\ m = "bash_formatting" /\ h \in RunnerFile => h.bash_formatting = "none"
    /\ m = "repeat_param" /\ h \in RunnerFile /\ ~ours =>
          /\ h.repeat_param = "none" /\ h.same_arg_param = "none" /\ h.multiple_arguments = "none"
    /\ m = "execution_info" => h \in {Missing, Broken} \cup LogFile
    /\ m = "user_id" /\ h \in LogFile => h.user_id

(* The options of arguments of h are those its author meant: in the older  *)
(* way, or in that of this version.                                        *)
ArgumentsMeant(h, meant, ours) ==
    IF ours
    THEN /\ meant.same_arg = (h.same_arg_param = "true")
         /\ meant.argument_type = IF h.argument_type = "none" THEN "single_argument"
                                  ELSE h.argument_type
    ELSE /\ meant.same_arg = (h.repeat_param = "false")
         /\ meant.argument_type = IF h.same_arg_param = "true" THEN "repeat_param_value"
                                  ELSE IF h.multiple_arguments = "true" THEN "argument_per_value"
                                  ELSE "single_argument"

(* The content h of a config has the meaning its author meant.             *)
Meant(h, meant, ours, excused) ==
    /\ meant = [output_files |-> meant.output_files, output_format |-> meant.output_format,
                same_arg |-> meant.same_arg, argument_type |-> meant.argument_type]
    /\ meant.output_files = TRUE
    /\ meant.output_format =
          IF h.bash_formatting = "false" \/ h.output_format = "text" THEN "text" ELSE "terminal"
    /\ h.bash_formatting # "none" => h.output_format = "none"
    /\ ~ours => h.argument_type = "none"
    /\ excused \/ ArgumentsMeant(h, meant, ours)

-----------------------------------------------------------------------------
(* The contents of files are told apart by their fields.                   *)
LEMMA Kinds ==
    /\ \A h \in RunnerFile : h # Missing /\ h # Broken
    /\ \A h \in LogFile : h # Missing /\ h # Broken /\ h # Headless /\ h.is = "log"
    /\ Missing # Broken /\ Headless # Missing /\ Headless # Broken
    /\ Missing.is # "log" /\ Broken.is # "log" /\ Headless.is # "log"
<1>1. ASSUME NEW h \in RunnerFile PROVE h # Missing /\ h # Broken
  <2>1. "output_files" \in DOMAIN h
    BY DEF RunnerFile
  <2>2. "output_files" \notin DOMAIN Missing /\ "output_files" \notin DOMAIN Broken
    BY DEF Missing, Broken
  <2> QED BY <2>1, <2>2
<1>2. ASSUME NEW h \in LogFile PROVE h # Missing /\ h # Broken /\ h # Headless /\ h.is = "log"
  BY DEF LogFile, Missing, Broken, Headless
<1>3. /\ Missing.is = "missing" /\ Broken.is = "broken" /\ Headless.is = "bare"
  BY DEF Missing, Broken, Headless
<1> QED BY <1>1, <1>2, <1>3

(* The migrations of configs keep a config a config, and its meaning.      *)
LEMMA MeaningStays ==
    ASSUME NEW m \in RunnerMigrations, NEW h \in RunnerFile, NEW meant,
           NEW ours \in BOOLEAN, NEW excused \in BOOLEAN,
           Meant(h, meant, ours, excused), m = "repeat_param" /\ ours => excused
    PROVE  /\ Change(m, h) \in RunnerFile
           /\ Meant(Change(m, h), meant, ours \/ m = "repeat_param", excused)
<1>1. h # Missing /\ h # Broken
  BY Kinds
<1>2. CASE m = "output_files"
  <2>1. Change(m, h) = OutputFiles(h)
    BY <1>1, <1>2 DEF Change
  <2>2. PICK g : g = OutputFiles(h)
    OBVIOUS
  <2>3. /\ g \in RunnerFile /\ g.bash_formatting = h.bash_formatting /\ g.output_format = h.output_format
        /\ g.repeat_param = h.repeat_param /\ g.same_arg_param = h.same_arg_param
        /\ g.multiple_arguments = h.multiple_arguments /\ g.argument_type = h.argument_type
    BY <2>2 DEF OutputFiles, RunnerFile
  <2> QED BY <1>2, <2>1, <2>2, <2>3 DEF Meant, ArgumentsMeant
<1>3. CASE m = "bash_formatting"
  <2>1. Change(m, h) = BashFormatting(h)
    BY <1>1, <1>3 DEF Change
  <2>2. PICK g : g = BashFormatting(h)
    OBVIOUS
  <2>3. /\ g \in RunnerFile /\ g.bash_formatting = "none"
        /\ g.output_format = IF h.bash_formatting = "none" THEN h.output_format
                             ELSE IF h.bash_formatting = "false" THEN "text" ELSE "terminal"
        /\ g.repeat_param = h.repeat_param /\ g.same_arg_param = h.same_arg_param
        /\ g.multiple_arguments = h.multiple_arguments /\ g.argument_type = h.argument_type
    BY <2>2 DEF BashFormatting, RunnerFile, Flag
  <2> QED BY <1>3, <2>1, <2>2, <2>3 DEF Meant, ArgumentsMeant
<1>4. CASE m = "repeat_param"
  <2>1. Change(m, h) = RepeatParam(h)
    BY <1>1, <1>4 DEF Change
  <2>2. PICK g : g = RepeatParam(h)
    OBVIOUS
  <2>3. /\ g \in RunnerFile
        /\ g.bash_formatting = h.bash_formatting /\ g.output_format = h.output_format
        /\ g.same_arg_param = IF h.repeat_param = "none" THEN "none" ELSE Opposite(h.repeat_param)
        /\ g.argument_type = IF h.same_arg_param = "true" THEN "repeat_param_value"
                             ELSE IF h.multiple_arguments = "true" THEN "argument_per_value"
                             ELSE h.argument_type
    <3>1. CASE {h.repeat_param, h.same_arg_param, h.multiple_arguments} = {"none"}
      <4>1. g = h
        BY <2>2, <3>1 DEF RepeatParam
      <4>2. h.repeat_param = "none" /\ h.same_arg_param = "none" /\ h.multiple_arguments = "none"
        BY <3>1
      <4> QED BY <4>1, <4>2
    <3>2. CASE {h.repeat_param, h.same_arg_param, h.multiple_arguments} # {"none"}
      <4> DEFINE same == IF h.repeat_param = "none" THEN "none" ELSE Opposite(h.repeat_param)
                 type == IF h.same_arg_param = "true" THEN "repeat_param_value"
                         ELSE IF h.multiple_arguments = "true" THEN "argument_per_value"
                         ELSE h.argument_type
      <4>1. same \in Flag /\ type \in {"none", "single_argument", "argument_per_value", "repeat_param_value"}
        BY DEF RunnerFile, Flag, Opposite
      <4>2. g = [h EXCEPT !.repeat_param = "none", !.multiple_arguments = "none",
                          !.same_arg_param = same, !.argument_type = type]
        BY <2>2, <3>2 DEF RepeatParam
      <4> HIDE DEF same, type
      <4>3. /\ g \in RunnerFile /\ g.same_arg_param = same /\ g.argument_type = type
            /\ g.bash_formatting = h.bash_formatting /\ g.output_format = h.output_format
        BY <4>1, <4>2 DEF RunnerFile, Flag
      <4> QED BY <4>3 DEF same, type
    <3> QED BY <3>1, <3>2
  <2>4. g.same_arg_param = "true" <=> h.repeat_param = "false"
    BY <2>3 DEF Opposite, RunnerFile, Flag
  <2> QED BY <1>4, <2>1, <2>2, <2>3, <2>4 DEF Meant, ArgumentsMeant
<1> QED BY <1>2, <1>3, <1>4 DEF RunnerMigrations

(* A migration of configs has done its part in what it wrote, and in what  *)
(* it found nothing to write in.                                           *)
LEMMA ConfigDone ==
    ASSUME NEW m \in RunnerMigrations, NEW h \in RunnerFile, NEW ours \in BOOLEAN
    PROVE  /\ Done(m, Change(m, h), ours \/ m = "repeat_param")
           /\ Change(m, h) = h => Done(m, h, ours)
<1>1. h # Missing /\ h # Broken
  BY Kinds
<1>2. CASE m = "output_files"
  <2>1. Change(m, h) = OutputFiles(h)
    BY <1>1, <1>2 DEF Change
  <2>2. OutputFiles(h).output_files # "$$$"
    BY DEF OutputFiles, RunnerFile
  <2> QED BY <1>2, <2>1, <2>2 DEF Done
<1>3. CASE m = "bash_formatting"
  <2>1. Change(m, h) = BashFormatting(h)
    BY <1>1, <1>3 DEF Change
  <2>2. BashFormatting(h).bash_formatting = "none"
    BY DEF BashFormatting, RunnerFile
  <2> QED BY <1>3, <2>1, <2>2 DEF Done
<1>4. CASE m = "repeat_param"
  <2>1. Change(m, h) = RepeatParam(h)
    BY <1>1, <1>4 DEF Change
  <2>2. RepeatParam(h).repeat_param = "none" /\ RepeatParam(h).multiple_arguments = "none"
    BY DEF RepeatParam, RunnerFile
  <2>3. h.repeat_param = "none" => RepeatParam(h).same_arg_param = "none"
    BY DEF RepeatParam, RunnerFile
  <2> QED BY <1>4, <2>1, <2>2, <2>3 DEF Done
<1> QED BY <1>2, <1>3, <1>4 DEF RunnerMigrations

(* What one migration of configs has done, another leaves.                 *)
LEMMA ConfigStaysDone ==
    ASSUME NEW m \in RunnerMigrations, NEW n, NEW h \in RunnerFile, NEW ours \in BOOLEAN,
           Done(n, h, ours), n \notin LogMigrations
    PROVE  Done(n, Change(m, h), ours \/ m = "repeat_param")
<1>1. h # Missing /\ h # Broken
  BY Kinds
<1>2. CASE m = "output_files"
  <2>1. Change(m, h) = OutputFiles(h)
    BY <1>1, <1>2 DEF Change
  <2>2. PICK g : g = OutputFiles(h)
    OBVIOUS
  <2>3. /\ g.output_files # "$$$" /\ g.bash_formatting = h.bash_formatting
        /\ g.repeat_param = h.repeat_param /\ g.same_arg_param = h.same_arg_param
        /\ g.multiple_arguments = h.multiple_arguments
    BY <2>2 DEF OutputFiles, RunnerFile
  <2> QED BY <1>2, <2>1, <2>2, <2>3 DEF Done, LogMigrations
<1>3. CASE m = "bash_formatting"
  <2>1. Change(m, h) = BashFormatting(h)
    BY <1>1, <1>3 DEF Change
  <2>2. PICK g : g = BashFormatting(h)
    OBVIOUS
  <2>3. /\ g.output_files = h.output_files /\ g.bash_formatting = "none"
        /\ g.repeat_param = h.repeat_param /\ g.same_arg_param = h.same_arg_param
        /\ g.multiple_arguments = h.multiple_arguments
    BY <2>2 DEF BashFormatting, RunnerFile
  <2> QED BY <1>3, <2>1, <2>2, <2>3 DEF Done, LogMigrations
<1>4. CASE m = "repeat_param"
  <2>1. Change(m, h) = RepeatParam(h)
    BY <1>1, <1>4 DEF Change
  <2>2. PICK g : g = RepeatParam(h)
    OBVIOUS
  <2>3. g.output_files = h.output_files /\ g.bash_formatting = h.bash_formatting
    BY <2>2 DEF RepeatParam, RunnerFile
  <2> QED BY <1>4, <2>1, <2>2, <2>3 DEF Done, LogMigrations
<1> QED BY <1>2, <1>3, <1>4 DEF RunnerMigrations

-----------------------------------------------------------------------------
LogContent == {Missing, Broken, Headless} \cup LogFile

(* A set of numbers that is not empty has a least one.                     *)
LEMMA LeastNumber ==
    ASSUME NEW S \in SUBSET Nat, S # {}
    PROVE  \E m \in S : \A k \in S : m <= k
<1> DEFINE R == {ss \in Nat \X Nat : ss[1] < ss[2]}
<1>1. IsWellFoundedOn(R, Nat)
  BY NatLessThanWellFounded DEF OpToRel
<1> HIDE DEF R
<1>2. PICK m \in S : \A k \in S : ~(<<k, m>> \in R)
  BY <1>1, WFMin
<1>3. \A k \in S : ~(k < m)
  BY <1>2 DEF R
<1>4. m \in Nat /\ \A k \in S : k \in Nat
  OBVIOUS
<1> QED BY <1>3, <1>4

(* The id that a log without a header gets is no other log's.              *)
LEMMA FreeIdIsFree ==
    ASSUME \A l \in Logs : disk[l].is = "log" => disk[l].id \in Nat
    PROVE  FreeId \in Nat /\ FreeId \notin Ids
<1> DEFINE L == {k \in Logs : disk[k].is = "log"}
           n == Cardinality(Logs)
           free == (0..n) \ Ids
<1>1. IsFiniteSet(L) /\ Cardinality(L) <= n /\ n \in Nat /\ Cardinality(L) \in Nat
  BY FilesAssumption, FS_Subset, FS_CardinalityType
<1>2. IsFiniteSet(Ids) /\ Cardinality(Ids) <= Cardinality(L) /\ Cardinality(Ids) \in Nat
  <2>1. [l \in L |-> disk[l].id] \in Surjection(L, Ids)
    BY DEF Surjection, Ids
  <2> HIDE DEF L
  <2>2. IsFiniteSet(Ids) /\ Cardinality(Ids) <= Cardinality(L)
    BY ONLY <1>1, <2>1, FS_Surjection
  <2> QED BY <2>2, FS_CardinalityType
<1>3. IsFiniteSet(0..n) /\ Cardinality(0..n) = n + 1
  <2>1. \A k \in Nat : IsFiniteSet(0..k) /\ Cardinality(0..k) = k + 1
    BY ONLY FS_Interval
  <2> QED BY ONLY <1>1, <2>1
<1> HIDE DEF L, n
<1>4. ~(0..n \subseteq Ids)
  <2>1. SUFFICES ASSUME 0..n \subseteq Ids PROVE FALSE
    OBVIOUS
  <2>2. Cardinality(0..n) <= Cardinality(Ids)
    BY <1>2, <2>1, FS_Subset
  <2> QED BY <1>1, <1>2, <1>3, <2>2
<1>6. PICK a \in free : \A b \in free : a <= b
  <2>1. free \in SUBSET Nat /\ free # {}
    BY <1>1, <1>4
  <2> HIDE DEF free
  <2> QED BY <2>1, LeastNumber
<1>7. FreeId \in free
  BY <1>6 DEF FreeId, Min, n
<1> QED BY <1>1, <1>7

(* A migration of logs keeps a log a log, with its id or the free one.     *)
LEMMA LogStep ==
    ASSUME NEW m \in LogMigrations, NEW h \in LogContent, FreeId \in Nat,
           NEW g, g = Change(m, h)
    PROVE  /\ g \in LogContent
           /\ g \in LogFile => \/ h \in LogFile /\ g.id = h.id
                               \/ g.id = FreeId
           /\ \A ours, then : Done(m, g, then) /\ (g = h => Done(m, h, ours))
           /\ \A n, ours, then : n \notin RunnerMigrations /\ Done(n, h, ours) => Done(n, g, then)
<1>1. CASE m = "execution_info"
  <2>1. g = IF h = Missing THEN Missing ELSE ExecutionInfo(h)
    BY <1>1 DEF Change
  <2>2. CASE h = Missing
    BY <1>1, <2>1, <2>2, Kinds DEF LogContent, Done, RunnerMigrations
  <2>3. CASE h \in LogFile
    <3>1. g = h
      BY <2>1, <2>3, Kinds DEF ExecutionInfo
    <3> QED BY <1>1, <2>3, <3>1, Kinds DEF LogContent, Done, RunnerMigrations
  <2>4. CASE h \in {Broken, Headless}
    <3>1. g = [is |-> "log", id |-> FreeId, user_id |-> TRUE]
      BY <2>1, <2>4, Kinds DEF ExecutionInfo
    <3>2. g \in LogFile /\ g.id = FreeId /\ g.user_id
      BY <3>1 DEF LogFile
    <3> QED BY <1>1, <2>4, <3>2, Kinds DEF LogContent, Done, RunnerMigrations
  <2> QED BY <2>2, <2>3, <2>4 DEF LogContent
<1>2. CASE m = "user_id"
  <2>1. g = IF h \in {Missing, Broken} THEN h ELSE UserId(h)
    BY <1>2 DEF Change
  <2>2. CASE h \notin LogFile
    <3>1. g = h
      BY <2>1, <2>2, Kinds DEF UserId, LogContent
    <3> QED BY <1>2, <2>2, <3>1, Kinds DEF LogContent, Done, RunnerMigrations
  <2>3. CASE h \in LogFile
    <3>1. g = [h EXCEPT !.user_id = TRUE]
      BY <2>1, <2>3, Kinds DEF UserId
    <3>2. g \in LogFile /\ g.id = h.id /\ g.user_id
      BY <2>3, <3>1 DEF LogFile
    <3> QED BY <1>2, <2>3, <3>2, Kinds DEF LogContent, Done, RunnerMigrations
  <2> QED BY <2>2, <2>3
<1> QED BY <1>1, <1>2 DEF LogMigrations

-----------------------------------------------------------------------------
Distinct(s) == \A i, j \in 1..Len(s) : s[i] = s[j] => i = j

(* to_migrate, looked at up to one more registered migration.              *)
LEMMA ListGrows ==
    ASSUME NEW s \in Seq(AllMigrations), Distinct(s), NEW A, Range(s) = A \ Lines,
           NEW m \in AllMigrations \ A
    PROVE  /\ s \o Unrecorded(m) \in Seq(AllMigrations) /\ Distinct(s \o Unrecorded(m))
           /\ Range(s \o Unrecorded(m)) = (A \cup {m}) \ Lines
           /\ Len(s \o Unrecorded(m)) <= Len(s) + 1
<1>1. CASE m \in Lines
  <2>1. s \o Unrecorded(m) = s
    BY <1>1 DEF Unrecorded
  <2> QED BY <1>1, <2>1
<1>2. CASE m \notin Lines
  <2> DEFINE t == s \o <<m>>
  <2>1. /\ t \in Seq(AllMigrations) /\ Len(t) = Len(s) + 1 /\ t[Len(s) + 1] = m
        /\ \A i \in 1..Len(s) : t[i] = s[i]
    OBVIOUS
  <2>2. \A i \in 1..Len(s) : s[i] \in Range(s)
    BY DEF Range
  <2>3. \A i \in 1..Len(s) : s[i] # m
    BY <2>2
  <2>4. s \o Unrecorded(m) = t
    BY <1>2 DEF Unrecorded
  <2> HIDE DEF t
  <2>5. Distinct(t)
    BY <2>1, <2>3 DEF Distinct
  <2>6. Range(t) = Range(s) \cup {m}
    <3>1. Len(s) \in Nat /\ DOMAIN s = 1..Len(s) /\ DOMAIN t = 1..Len(s) + 1
      BY <2>1
    <3>2. ASSUME NEW x \in Range(t) PROVE x \in Range(s) \cup {m}
      <4>1. PICK i \in 1..Len(s) + 1 : x = t[i]
        BY <3>1, <3>2 DEF Range
      <4> QED BY <2>1, <2>2, <3>1, <4>1
    <3>3. ASSUME NEW x \in Range(s) PROVE x \in Range(t)
      <4>1. PICK i \in 1..Len(s) : x = s[i]
        BY <3>1, <3>3 DEF Range
      <4>2. i \in 1..Len(s) + 1 /\ t[i] = x
        BY <2>1, <3>1, <4>1
      <4> QED BY <3>1, <4>2 DEF Range
    <3>4. m \in Range(t)
      <4>1. Len(s) + 1 \in DOMAIN t
        BY <3>1
      <4> QED BY <2>1, <4>1 DEF Range
    <3> QED BY <3>2, <3>3, <3>4
  <2> QED BY <1>2, <2>1, <2>4, <2>5, <2>6
<1> QED BY <1>1, <1>2

(* to_migrate has the migrations that are not recorded, each once.         *)
LEMMA ListIsWhatIsLeft ==
    /\ ToMigrate \in Seq(AllMigrations) /\ Distinct(ToMigrate) /\ Len(ToMigrate) <= 7
    /\ Range(ToMigrate) = AllMigrations \ Lines
<1> DEFINE Listed(s, A) == s \in Seq(AllMigrations) /\ Distinct(s) /\ Range(s) = A \ Lines
           s1 == Unrecorded("execution_info")
           s2 == s1 \o Unrecorded("user_id")
           s3 == s2 \o Unrecorded("access_config")
           s4 == s3 \o Unrecorded("output_files")
           s5 == s4 \o Unrecorded("bash_formatting")
           s6 == s5 \o Unrecorded("repeat_param")
           s7 == s6 \o Unrecorded("ldap_resolver")
<1>0. ASSUME NEW s, NEW A, NEW m \in AllMigrations \ A, Listed(s, A)
      PROVE  /\ Listed(s \o Unrecorded(m), A \cup {m})
             /\ Len(s \o Unrecorded(m)) \in Nat /\ Len(s \o Unrecorded(m)) <= Len(s) + 1
  BY <1>0, ListGrows
<1>1. Listed(s1, {"execution_info"}) /\ Len(s1) \in Nat /\ Len(s1) <= 1
  <2>1. Listed(<<>>, {})
    <3>1. Range(<<>>) = {}
      BY DEF Range
    <3> QED BY <3>1 DEF Distinct
  <2>2. <<>> \o s1 = s1
    BY DEF Unrecorded
  <2>3. "execution_info" \in AllMigrations \ {} /\ {} \cup {"execution_info"} = {"execution_info"}
    BY DEF AllMigrations
  <2>4. Len(<<>>) = 0
    OBVIOUS
  <2>5. /\ Listed(<<>> \o s1, {} \cup {"execution_info"})
        /\ Len(<<>> \o s1) \in Nat /\ Len(<<>> \o s1) <= Len(<<>>) + 1
    BY ONLY <1>0, <2>1, <2>3
  <2> QED BY <2>2, <2>3, <2>4, <2>5
<1> HIDE DEF Listed, s1
<1>2. Listed(s2, {"execution_info", "user_id"}) /\ Len(s2) \in Nat /\ Len(s2) <= 2
  <2>1. "user_id" \in AllMigrations \ {"execution_info"}
    BY DEF AllMigrations
  <2>2. {"execution_info"} \cup {"user_id"} = {"execution_info", "user_id"}
    OBVIOUS
  <2>3. /\ Listed(s2, {"execution_info"} \cup {"user_id"})
        /\ Len(s2) \in Nat /\ Len(s2) <= Len(s1) + 1
    BY ONLY <1>0, <1>1, <2>1 DEF s2
  <2> QED BY <1>1, <2>2, <2>3
<1> HIDE DEF s2
<1>3. Listed(s3, {"execution_info", "user_id", "access_config"}) /\ Len(s3) \in Nat /\ Len(s3) <= 3
  <2>1. "access_config" \in AllMigrations \ {"execution_info", "user_id"}
    BY DEF AllMigrations
  <2>2. {"execution_info", "user_id"} \cup {"access_config"} = {"execution_info", "user_id", "access_config"}
    OBVIOUS
  <2>3. /\ Listed(s3, {"execution_info", "user_id"} \cup {"access_config"})
        /\ Len(s3) \in Nat /\ Len(s3) <= Len(s2) + 1
    BY ONLY <1>0, <1>2, <2>1 DEF s3
  <2> QED BY <1>2, <2>2, <2>3
<1> HIDE DEF s3
<1>4. Listed(s4, {"execution_info", "user_id", "access_config", "output_files"}) /\ Len(s4) \in Nat /\ Len(s4) <= 4
  <2>1. "output_files" \in AllMigrations \ {"execution_info", "user_id", "access_config"}
    BY DEF AllMigrations
  <2>2. {"execution_info", "user_id", "access_config"} \cup {"output_files"} = {"execution_info", "user_id", "access_config", "output_files"}
    OBVIOUS
  <2>3. /\ Listed(s4, {"execution_info", "user_id", "access_config"} \cup {"output_files"})
        /\ Len(s4) \in Nat /\ Len(s4) <= Len(s3) + 1
    BY ONLY <1>0, <1>3, <2>1 DEF s4
  <2> QED BY <1>3, <2>2, <2>3
<1> HIDE DEF s4
<1>5. Listed(s5, {"execution_info", "user_id", "access_config", "output_files", "bash_formatting"}) /\ Len(s5) \in Nat /\ Len(s5) <= 5
  <2>1. "bash_formatting" \in AllMigrations \ {"execution_info", "user_id", "access_config", "output_files"}
    BY DEF AllMigrations
  <2>2. {"execution_info", "user_id", "access_config", "output_files"} \cup {"bash_formatting"} = {"execution_info", "user_id", "access_config", "output_files", "bash_formatting"}
    OBVIOUS
  <2>3. /\ Listed(s5, {"execution_info", "user_id", "access_config", "output_files"} \cup {"bash_formatting"})
        /\ Len(s5) \in Nat /\ Len(s5) <= Len(s4) + 1
    BY ONLY <1>0, <1>4, <2>1 DEF s5
  <2> QED BY <1>4, <2>2, <2>3
<1> HIDE DEF s5
<1>6. Listed(s6, {"execution_info", "user_id", "access_config", "output_files", "bash_formatting", "repeat_param"}) /\ Len(s6) \in Nat /\ Len(s6) <= 6
  <2>1. "repeat_param" \in AllMigrations \ {"execution_info", "user_id", "access_config", "output_files", "bash_formatting"}
    BY DEF AllMigrations
  <2>2. {"execution_info", "user_id", "access_config", "output_files", "bash_formatting"} \cup {"repeat_param"} = {"execution_info", "user_id", "access_config", "output_files", "bash_formatting", "repeat_param"}
    OBVIOUS
  <2>3. /\ Listed(s6, {"execution_info", "user_id", "access_config", "output_files", "bash_formatting"} \cup {"repeat_param"})
        /\ Len(s6) \in Nat /\ Len(s6) <= Len(s5) + 1
    BY ONLY <1>0, <1>5, <2>1 DEF s6
  <2> QED BY <1>5, <2>2, <2>3
<1> HIDE DEF s6
<1>7. Listed(s7, {"execution_info", "user_id", "access_config", "output_files", "bash_formatting", "repeat_param", "ldap_resolver"}) /\ Len(s7) \in Nat /\ Len(s7) <= 7
  <2>1. "ldap_resolver" \in AllMigrations \ {"execution_info", "user_id", "access_config", "output_files", "bash_formatting", "repeat_param"}
    BY DEF AllMigrations
  <2>2. {"execution_info", "user_id", "access_config", "output_files", "bash_formatting", "repeat_param"} \cup {"ldap_resolver"} = {"execution_info", "user_id", "access_config", "output_files", "bash_formatting", "repeat_param", "ldap_resolver"}
    OBVIOUS
  <2>3. /\ Listed(s7, {"execution_info", "user_id", "access_config", "output_files", "bash_formatting", "repeat_param"} \cup {"ldap_resolver"})
        /\ Len(s7) \in Nat /\ Len(s7) <= Len(s6) + 1
    BY ONLY <1>0, <1>6, <2>1 DEF s7
  <2> QED BY <1>6, <2>2, <2>3
<1> HIDE DEF s7
<1>8. ToMigrate = s7
  BY DEF ToMigrate, Registered, s1, s2, s3, s4, s5, s6, s7
<1> QED BY <1>7, <1>8 DEF Listed, AllMigrations

(* What is left when a migration is taken from the list.                   *)
LEMMA ListShrinks ==
    ASSUME NEW s \in Seq(AllMigrations), Distinct(s), NEW i \in 1..Len(s), NEW t, t = RemoveAt(s, i)
    PROVE  /\ t \in Seq(AllMigrations) /\ Distinct(t) /\ Len(t) = Len(s) - 1
           /\ Range(t) = Range(s) \ {s[i]}
<1>1. /\ t \in Seq(AllMigrations) /\ Len(t) = Len(s) - 1
      /\ \A j \in 1..Len(t) : t[j] = s[IF j < i THEN j ELSE j + 1]
  <2>1. t = SubSeq(s, 1, i - 1) \o SubSeq(s, i + 1, Len(s))
    BY DEF RemoveAt
  <2> DEFINE a == SubSeq(s, 1, i - 1)
             b == SubSeq(s, i + 1, Len(s))
  <2>2. /\ a \in Seq(AllMigrations) /\ Len(a) = i - 1 /\ \A j \in 1..i - 1 : a[j] = s[j]
        /\ b \in Seq(AllMigrations) /\ Len(b) = Len(s) - i /\ \A j \in 1..Len(s) - i : b[j] = s[i + j]
    OBVIOUS
  <2>3. t = a \o b
    BY <2>1
  <2> HIDE DEF a, b
  <2>4. /\ t \in Seq(AllMigrations) /\ Len(t) = Len(a) + Len(b)
        /\ \A j \in 1..Len(a) : t[j] = a[j]
        /\ \A j \in Len(a) + 1..Len(a) + Len(b) : t[j] = b[j - Len(a)]
    <3>1. a \in Seq(AllMigrations) /\ b \in Seq(AllMigrations)
      BY <2>2
    <3> QED BY ONLY <2>3, <3>1
  <2>5. Len(s) \in Nat /\ i \in Nat /\ i >= 1 /\ i <= Len(s)
    OBVIOUS
  <2>6. ASSUME NEW j \in 1..Len(t) PROVE t[j] = s[IF j < i THEN j ELSE j + 1]
    <3>1. CASE j < i
      BY <2>2, <2>4, <2>5, <3>1
    <3>2. CASE ~(j < i)
      <4>1. j \in Len(a) + 1..Len(a) + Len(b) /\ j - Len(a) \in 1..Len(s) - i
            /\ i + (j - Len(a)) = j + 1
        BY <2>2, <2>4, <2>5, <3>2
      <4>2. t[j] = b[j - Len(a)] /\ b[j - Len(a)] = s[i + (j - Len(a))]
        BY <2>2, <2>4, <4>1
      <4> QED BY <3>2, <4>1, <4>2
    <3> QED BY <3>1, <3>2
  <2> QED BY <2>2, <2>4, <2>5, <2>6
<1>2. Len(s) \in Nat /\ DOMAIN s = 1..Len(s) /\ DOMAIN t = 1..Len(t)
  BY <1>1
<1>3. Distinct(t)
  BY <1>1, <1>2 DEF Distinct
<1>4. ASSUME NEW x \in Range(t) PROVE x \in Range(s) \ {s[i]}
  <2>1. PICK j \in 1..Len(t) : x = t[j]
    BY <1>2, <1>4 DEF Range
  <2>2. PICK k \in 1..Len(s) : k # i /\ x = s[k]
    BY <1>1, <1>2, <2>1
  <2>3. x \in Range(s)
    BY <1>2, <2>2 DEF Range
  <2> QED BY <2>2, <2>3 DEF Distinct
<1>5. ASSUME NEW x \in Range(s) \ {s[i]} PROVE x \in Range(t)
  <2>1. PICK k \in 1..Len(s) : x = s[k]
    BY <1>2 DEF Range
  <2> DEFINE j == IF k < i THEN k ELSE k - 1
  <2>2. j \in 1..Len(t) /\ k = IF j < i THEN j ELSE j + 1
    BY <1>1, <1>2, <2>1
  <2>3. t[j] = x
    BY <1>1, <2>1, <2>2
  <2> QED BY <1>2, <2>2, <2>3 DEF Range
<1> QED BY <1>1, <1>3, <1>4, <1>5

-----------------------------------------------------------------------------
(* What a file holds once the write at work is done, the files left to     *)
(* the migration then, and the configs with the arguments of this version. *)
Writes(f) == server = "write" /\ f = work.content.file

Holds(f) == IF Writes(f) THEN work.content.fields ELSE disk[f]

Left == {f \in work.files : ~Writes(f)}

Ours == current \cup {f \in work.files : Writes(f) /\ work.m = "repeat_param"}

Applying == server \in {"apply", "write"}

(* A start applies what was not recorded, one migration after the other.   *)
ListSound ==
    /\ server \in {"down", "loop", "apply", "write", "record", "up", "failed"}
    /\ migrated \subseteq AllMigrations /\ Lines \subseteq AllMigrations
    /\ todo = [left |-> todo.left, i |-> todo.i, changes |-> todo.changes]
    /\ todo.left \in Seq(AllMigrations) /\ Distinct(todo.left)
    /\ Len(todo.left) <= 7 /\ todo.i \in 1..8
    /\ Range(todo.left) \cap migrated = {}
    /\ server # "down" => Range(todo.left) \cup migrated = AllMigrations
    /\ server = "up" => todo.left = <<>>
    /\ server = "down" => work = NoWork /\ todo = NoTodo /\ migrated = {}
    /\ Applying => todo.i <= Len(todo.left) /\ work.m = todo.left[todo.i]

(* The migration at work writes files of those it reads. That of the       *)
(* arguments knows which of them it should not have met.                   *)
WorkSound ==
    /\ work = [m |-> work.m, files |-> work.files, content |-> work.content]
    /\ work.files \subseteq Files
    /\ DOMAIN disk = Files /\ DOMAIN intended = Runners
    /\ Applying => work.files \subseteq Reads(work.m)
    /\ server = "write" => work.content.file \in work.files /\ disk[work.content.file] = Broken
    /\ Applying /\ work.m = "repeat_param" => Left \cap current \subseteq confused

ConfigsMeant ==
    \A f \in Runners :
        /\ Holds(f) \in {Missing, Broken} \cup RunnerFile
        /\ Holds(f) \in RunnerFile => Meant(Holds(f), intended[f], f \in Ours, f \in confused)

LogsNumbered ==
    /\ \A l \in Logs : Holds(l) \in LogContent
    /\ \A k, l \in Logs :
          k # l /\ Holds(k) \in LogFile /\ Holds(l) \in LogFile => Holds(k).id # Holds(l).id

(* What is recorded or applied is done in every file it is about.          *)
RecordedDone == \A m \in Lines \cup migrated : \A f \in Reads(m) : Done(m, Holds(f), f \in Ours)

(* What is being applied is done in the files that are not left to it.     *)
WorkDone == Applying => \A f \in Reads(work.m) \ Left : Done(work.m, Holds(f), f \in Ours)

UpgradeInv == ListSound /\ WorkSound /\ ConfigsMeant /\ LogsNumbered /\ RecordedDone /\ WorkDone

(* What a migration reads are files of one kind.                           *)
LEMMA ReadsFiles ==
    ASSUME NEW m
    PROVE  /\ Reads(m) \subseteq Files
           /\ m \in RunnerMigrations => Reads(m) = Runners
           /\ m \in LogMigrations => Reads(m) = Logs
           /\ m \in AllMigrations => \/ m \in RunnerMigrations \/ m \in LogMigrations
                                     \/ Reads(m) = {Conf} /\ m \notin RunnerMigrations \cup LogMigrations
BY DEF Reads, Files, RunnerMigrations, LogMigrations, AllMigrations

(* Every step keeps the list of what is left sound.                        *)
LEMMA ListStep ==
    ASSUME ListSound, WorkSound, [StartNext]_startVars
    PROVE  ListSound'
<1> USE DEF Applying
<1>1. CASE StartServer
  <2> DEFINE t == ToMigrate
  <2>1. /\ server' = IF t = <<>> THEN "up" ELSE "loop"
        /\ migrated' = Lines /\ todo' = [left |-> t, i |-> 1, changes |-> FALSE]
        /\ Lines' = Lines /\ Lines \subseteq AllMigrations
    BY <1>1 DEF StartServer, NoTodo, Lines, ListSound
  <2>2. /\ t \in Seq(AllMigrations) /\ Distinct(t) /\ Len(t) <= 7
        /\ Range(t) = AllMigrations \ Lines
    BY ListIsWhatIsLeft
  <2> HIDE DEF t
  <2>3. todo'.left = t /\ todo'.i = 1 /\ Distinct(todo'.left)
    BY <2>1, <2>2
  <2>4. Distinct(todo.left)'
    BY <2>3 DEF Distinct
  <2> QED BY <2>1, <2>2, <2>3, <2>4 DEF ListSound
<1>2. CASE NextPass
  <2>1. /\ todo' = [left |-> todo.left, i |-> 1, changes |-> FALSE]
        /\ server = "loop" /\ migrated' = migrated /\ Lines' = Lines
        /\ server' = IF todo.left = <<>> THEN "up" ELSE IF todo.changes THEN "loop" ELSE "failed"
    BY <1>2 DEF NextPass, Lines, ListSound
  <2>2. todo'.left = todo.left /\ todo'.i = 1
    BY <2>1
  <2>3. Distinct(todo.left)'
    BY <2>2 DEF ListSound, Distinct
  <2> QED BY <2>1, <2>2, <2>3 DEF ListSound
<1>3. CASE Begin
  <2>1. /\ server = "loop" /\ todo.i <= Len(todo.left) /\ migrated' = migrated /\ Lines' = Lines
        /\ todo'.left = todo.left
        /\ todo' = [left |-> todo'.left, i |-> todo'.i, changes |-> todo'.changes]
        /\ \/ todo' = todo /\ server' \in {"failed", "apply"} /\ work'.m = todo.left[todo.i]
           \/ server' = server /\ todo'.i = todo.i + 1
    BY <1>3 DEF Begin, Lines, ListSound, NoWork
  <2>2. todo'.i \in 1..8 /\ (server' = "apply" => todo'.i = todo.i)
    BY <2>1 DEF ListSound
  <2>3. Distinct(todo.left)'
    BY <2>1 DEF ListSound, Distinct
  <2> QED BY <2>1, <2>2, <2>3 DEF ListSound
<1>4. CASE OpenRecord
  <2> DEFINE t == RemoveAt(todo.left, todo.i)
  <2>1. /\ server = "apply" /\ server' = "record"
        /\ migrated' = migrated \cup {work.m}
        /\ todo' = [left |-> t, i |-> todo.i + 1, changes |-> TRUE]
        /\ recorded' = Broken
    BY <1>4 DEF OpenRecord
  <2>2. Lines' = {}
    BY <2>1 DEF Lines
  <2>3. todo.i \in 1..Len(todo.left) /\ work.m = todo.left[todo.i] /\ todo.i + 1 \in 1..8
    BY <2>1 DEF ListSound
  <2>4. /\ t \in Seq(AllMigrations) /\ Distinct(t) /\ Len(t) <= 7
        /\ Range(t) = Range(todo.left) \ {work.m}
    <3>1. /\ t \in Seq(AllMigrations) /\ Distinct(t) /\ Len(t) = Len(todo.left) - 1
          /\ Range(t) = Range(todo.left) \ {work.m}
      BY <2>3, ListShrinks DEF ListSound
    <3> QED BY <2>3, <3>1 DEF ListSound
  <2>5. work.m \in Range(todo.left) /\ work.m \in AllMigrations
    BY <2>3 DEF ListSound, Range
  <2> HIDE DEF t
  <2>6. todo'.left = t /\ todo'.i = todo.i + 1
    BY <2>1
  <2>7. Distinct(todo.left)'
    BY <2>4, <2>6 DEF Distinct
  <2> QED BY <2>1, <2>2, <2>3, <2>4, <2>5, <2>6, <2>7 DEF ListSound
<1>5. CASE WriteRecord
  <2>1. /\ server = "record" /\ server' = "loop" /\ UNCHANGED <<todo, migrated, work>>
        /\ recorded' = [is |-> "record", lines |-> migrated]
    BY <1>5 DEF WriteRecord
  <2>2. Lines' = migrated \/ Lines' = {}
    BY <2>1 DEF Lines
  <2>3. Distinct(todo.left)'
    BY <2>1 DEF ListSound, Distinct
  <2> QED BY <2>1, <2>2, <2>3 DEF ListSound
<1>6. CASE WriteFile
  <2>1. server = "write" /\ server' = "apply" /\ UNCHANGED <<todo, migrated, recorded>> /\ work'.m = work.m
    BY <1>6 DEF WriteFile, WorkSound
  <2>2. Distinct(todo.left)' /\ Lines' = Lines
    BY <2>1 DEF ListSound, Distinct, Lines
  <2> QED BY <2>1, <2>2 DEF ListSound
<1>7. CASE StopServer
  <2>1. server' = "down" /\ todo' = NoTodo /\ work' = NoWork /\ migrated' = {} /\ Lines' = Lines
    BY <1>7 DEF StopServer, Lines
  <2>2. /\ NoTodo.left = <<>> /\ NoTodo.i = 1 /\ Range(<<>>) = {}
        /\ NoTodo = [left |-> NoTodo.left, i |-> NoTodo.i, changes |-> NoTodo.changes]
    BY DEF NoTodo, Range
  <2>3. Distinct(todo.left)'
    BY <2>1, <2>2 DEF Distinct
  <2> QED BY <2>1, <2>2, <2>3 DEF ListSound
<1>8. CASE LoseTemp
  <2>1. Lines' = {} /\ UNCHANGED <<server, todo, migrated, work>>
    BY <1>8 DEF LoseTemp, Lines
  <2>2. Distinct(todo.left)'
    BY <2>1 DEF ListSound, Distinct
  <2> QED BY <2>1, <2>2 DEF ListSound
<1>9. ASSUME NEW f \in Files, OpenFile(f) PROVE ListSound'
  <2>1. server = "apply" /\ server' = "write" /\ UNCHANGED <<todo, migrated, recorded>> /\ work'.m = work.m
    BY <1>9 DEF OpenFile, WorkSound
  <2>2. Distinct(todo.left)' /\ Lines' = Lines
    BY <2>1 DEF ListSound, Distinct, Lines
  <2> QED BY <2>1, <2>2 DEF ListSound
<1>10. CASE UNCHANGED <<server, todo, migrated, work, recorded>>
  BY <1>10 DEF ListSound, Distinct, Lines
<1>11. ASSUME NEW f \in Runners, NEW r \in NewRunners, SaveRunner(f, r) PROVE ListSound'
  BY <1>10, <1>11 DEF SaveRunner
<1> QED BY <1>1, <1>2, <1>3, <1>4, <1>5, <1>6, <1>7, <1>8, <1>9, <1>10, <1>11
        DEF StartNext, StartStep, startVars

(* Every step keeps the work of a migration sound.                         *)
LEMMA WorkStep ==
    ASSUME ListSound, WorkSound, [StartNext]_startVars
    PROVE  WorkSound'
<1> USE DEF Applying
<1> DEFINE Shape(w) == w = [m |-> w.m, files |-> w.files, content |-> w.content]
<1>1. ASSUME UNCHANGED <<disk, intended, work, current, confused>>,
             server' = server \/ server' \notin {"apply", "write"}
      PROVE  WorkSound'
  BY <1>1 DEF WorkSound, Left, Writes
<1>2. CASE StartServer \/ NextPass \/ WriteRecord \/ LoseTemp
  BY <1>1, <1>2 DEF StartServer, NextPass, WriteRecord, LoseTemp
<1>3. CASE Begin
  <2>1. UNCHANGED <<disk, intended, current>>
    BY <1>3 DEF Begin
  <2> DEFINE m == todo.left[todo.i]
             c == Changed(m)
  <2>2. c \subseteq Reads(m) /\ Reads(m) \subseteq Files
    BY ReadsFiles DEF Changed
  <2>3. \/ UNCHANGED <<work, confused>> /\ server' = server
        \/ /\ work' = [m |-> m, files |-> c, content |-> Missing] /\ server' \in {"failed", "apply"}
           /\ confused' = IF m = "repeat_param" THEN confused \cup current ELSE confused
    BY <1>3 DEF Begin, NoWork
  <2> HIDE DEF m, c
  <2>4. CASE UNCHANGED <<work, confused>> /\ server' = server
    BY <1>1, <2>1, <2>4
  <2>5. CASE /\ work' = [m |-> m, files |-> c, content |-> Missing] /\ server' \in {"failed", "apply"}
             /\ confused' = IF m = "repeat_param" THEN confused \cup current ELSE confused
    <3>1. work'.m = m /\ work'.files = c /\ Shape(work')
      BY <2>5
    <3> QED BY <2>1, <2>2, <2>5, <3>1 DEF WorkSound, Left
  <2> QED BY <2>3, <2>4, <2>5
<1>4. ASSUME NEW f \in Files, OpenFile(f) PROVE WorkSound'
  <2>1. /\ server = "apply" /\ f \in work.files /\ server' = "write"
        /\ UNCHANGED <<intended, current, confused>>
    BY <1>4 DEF OpenFile
  <2>2. PICK g : work' = [m |-> work.m, files |-> work.files, content |-> [file |-> f, fields |-> g]]
    BY <1>4 DEF OpenFile, WorkSound
  <2>3. work'.m = work.m /\ work'.files = work.files /\ work'.content.file = f /\ Shape(work')
    BY <2>2
  <2>4. DOMAIN disk' = Files /\ disk'[f] = Broken
    BY <1>4 DEF OpenFile, WorkSound
  <2>5. Left' \subseteq Left
    BY <2>1, <2>3 DEF Left, Writes
  <2> QED BY <2>1, <2>3, <2>4, <2>5 DEF WorkSound
<1>5. CASE WriteFile
  <2> DEFINE f == work.content.file
  <2>1. /\ server = "write" /\ server' = "apply" /\ UNCHANGED <<intended, confused>>
        /\ current' = IF work.m = "repeat_param" THEN current \cup {f} ELSE current
        /\ work' = [m |-> work.m, files |-> work.files \ {f}, content |-> Missing]
        /\ DOMAIN disk' = Files
    BY <1>5 DEF WriteFile, WorkSound
  <2> HIDE DEF f
  <2>2. work'.m = work.m /\ work'.files = work.files \ {f} /\ Shape(work')
    BY <2>1
  <2>3. Left' = work.files \ {f} /\ Left = work.files \ {f}
    BY <2>1, <2>2 DEF Left, Writes, f
  <2> QED BY <2>1, <2>2, <2>3 DEF WorkSound
<1>6. CASE OpenRecord \/ StopServer
  <2>1. UNCHANGED <<disk, intended>> /\ work' = NoWork /\ server' \notin {"apply", "write"}
    BY <1>6 DEF OpenRecord, StopServer
  <2>2. Shape(NoWork) /\ NoWork.files = {}
    BY DEF NoWork
  <2> QED BY <2>1, <2>2 DEF WorkSound
<1>7. ASSUME NEW f \in Runners, NEW r \in NewRunners, SaveRunner(f, r) PROVE WorkSound'
  <2>1. /\ server = "up" /\ server' = "up" /\ work' = work
        /\ DOMAIN disk' = DOMAIN disk /\ DOMAIN intended' = DOMAIN intended
    BY <1>7 DEF SaveRunner
  <2> QED BY <2>1 DEF WorkSound
<1>8. CASE UNCHANGED startVars
  BY <1>1, <1>8 DEF startVars
<1> QED BY <1>2, <1>3, <1>4, <1>5, <1>6, <1>7, <1>8 DEF StartNext, StartStep

(* A step that leaves what the files hold leaves their meaning.            *)
LEMMA ContentsStay ==
    ASSUME ConfigsMeant, LogsNumbered, \A f \in Files : Holds(f)' = Holds(f), Ours' = Ours,
           intended' = intended, confused \subseteq confused'
    PROVE  ConfigsMeant' /\ LogsNumbered'
<1>1. Runners \subseteq Files /\ Logs \subseteq Files
  BY DEF Files
<1>2. ASSUME NEW f \in Runners
      PROVE  /\ Holds(f)' \in {Missing, Broken} \cup RunnerFile
             /\ Holds(f)' \in RunnerFile => Meant(Holds(f)', intended'[f], f \in Ours', f \in confused')
  <2>1. Holds(f)' = Holds(f)
    BY <1>1
  <2> QED BY <2>1 DEF ConfigsMeant, Meant, ArgumentsMeant
<1>3. ConfigsMeant'
  BY <1>2 DEF ConfigsMeant
<1>4. \A l \in Logs : Holds(l)' = Holds(l)
  BY <1>1
<1>5. LogsNumbered'
  BY <1>4 DEF LogsNumbered
<1> QED BY <1>3, <1>5

(* The step that begins to write a file: what it will hold is the changed  *)
(* content of now.                                                         *)
LEMMA OpenedHolds ==
    ASSUME WorkSound, NEW f \in Files, OpenFile(f)
    PROVE  /\ \A k \in Files : Holds(k) = disk[k] /\ (k # f => Holds(k)' = disk[k])
           /\ Holds(f)' = Change(work.m, disk[f])
           /\ Left = work.files /\ Left' = work.files \ {f} /\ Ours = current
           /\ Ours' = IF work.m = "repeat_param" THEN current \cup {f} ELSE current
           /\ f \in Reads(work.m) /\ work'.m = work.m
           /\ server = "apply" /\ server' = "write"
           /\ UNCHANGED <<intended, current, confused, migrated, recorded>>
<1>1. /\ server = "apply" /\ f \in work.files /\ server' = "write"
      /\ UNCHANGED <<intended, current, confused, migrated, recorded>>
      /\ disk' = [disk EXCEPT ![f] = Broken]
      /\ f \in Reads(work.m)
  BY DEF OpenFile, WorkSound, Applying
<1> DEFINE g == Change(work.m, disk[f])
<1>2. work' = [m |-> work.m, files |-> work.files, content |-> [file |-> f, fields |-> g]]
  BY DEF OpenFile, WorkSound
<1> HIDE DEF g
<1>3. /\ work'.m = work.m /\ work'.files = work.files
      /\ work'.content.file = f /\ work'.content.fields = g
  BY <1>2
<1>4. \A k \in Files : k # f => disk'[k] = disk[k]
  BY <1>1 DEF WorkSound
<1>5. Left = work.files /\ Left' = work.files \ {f} /\ Ours = current
  BY <1>1, <1>3 DEF Left, Ours, Writes
<1>6. Ours' = IF work.m = "repeat_param" THEN current \cup {f} ELSE current
  BY <1>1, <1>3 DEF Ours, Writes
<1>7. Holds(f)' = g /\ \A k \in Files : Holds(k) = disk[k] /\ (k # f => Holds(k)' = disk[k])
  BY <1>1, <1>3, <1>4 DEF Holds, Writes
<1> QED BY <1>1, <1>3, <1>5, <1>6, <1>7 DEF g

(* The steps of a start that leave what the files hold.                    *)
Quiet ==
    \/ StartServer \/ NextPass \/ Begin \/ WriteFile \/ OpenRecord \/ WriteRecord \/ LoseTemp
    \/ UNCHANGED startVars

(* A quiet step leaves what the files will hold, also when it completes    *)
(* the write of one.                                                       *)
LEMMA QuietHolds ==
    ASSUME ListSound, WorkSound, Quiet
    PROVE  /\ \A f \in Files : Holds(f)' = Holds(f)
           /\ Ours' = Ours /\ intended' = intended /\ confused \subseteq confused'
<1>1. ASSUME UNCHANGED <<disk, current>>, server # "write", server' # "write"
      PROVE  (\A f \in Files : Holds(f)' = Holds(f)) /\ Ours' = Ours
  BY <1>1 DEF Holds, Ours, Writes
<1>2. CASE StartServer \/ NextPass \/ OpenRecord \/ WriteRecord \/ LoseTemp
  <2>1. /\ UNCHANGED <<disk, current, intended, confused>>
        /\ server # "write" /\ server' # "write"
    BY <1>2 DEF StartServer, NextPass, OpenRecord, WriteRecord, LoseTemp
  <2> QED BY <1>1, <2>1
<1>3. CASE Begin
  <2>1. /\ UNCHANGED <<disk, current, intended>> /\ confused \subseteq confused'
        /\ server # "write" /\ server' # "write"
    BY <1>3 DEF Begin
  <2> QED BY <1>1, <2>1
<1>4. CASE WriteFile
  <2> DEFINE f == work.content.file
  <2>1. /\ server = "write" /\ server' = "apply" /\ UNCHANGED <<intended, confused>>
        /\ disk' = [disk EXCEPT ![f] = work.content.fields]
        /\ current' = IF work.m = "repeat_param" THEN current \cup {f} ELSE current
        /\ DOMAIN disk = Files /\ f \in work.files
    BY <1>4 DEF WriteFile, WorkSound
  <2> HIDE DEF f
  <2>2. \A k \in Files : disk'[k] = IF k = f THEN work.content.fields ELSE disk[k]
    BY <2>1
  <2>3. \A k \in Files : Holds(k)' = Holds(k)
    BY <2>1, <2>2 DEF Holds, Writes, f
  <2>4. Ours = current' /\ Ours' = current'
    BY <2>1 DEF Ours, Writes, f
  <2> QED BY <2>1, <2>3, <2>4
<1>5. CASE UNCHANGED startVars
  BY <1>5 DEF startVars, Holds, Ours, Writes
<1> QED BY <1>2, <1>3, <1>4, <1>5 DEF Quiet

(* A save changes one config, which then has the arguments of this version. *)
LEMMA SavedHolds ==
    ASSUME WorkSound, NEW f \in Runners, NEW r \in NewRunners, SaveRunner(f, r)
    PROVE  /\ \A k \in Files : Holds(k) = disk[k] /\ Holds(k)' = IF k = f THEN r ELSE disk[k]
           /\ Ours = current /\ Ours' = current \cup {f}
           /\ confused' = confused \ {f}
           /\ \A k \in Runners : intended'[k] = IF k = f THEN Meaning(r) ELSE intended[k]
           /\ server = "up" /\ server' = "up" /\ UNCHANGED <<migrated, recorded>>
<1>1. /\ server = "up" /\ server' = "up" /\ disk' = [disk EXCEPT ![f] = r]
      /\ intended' = [intended EXCEPT ![f] = Meaning(r)]
      /\ current' = current \cup {f} /\ confused' = confused \ {f}
      /\ UNCHANGED <<migrated, recorded>>
      /\ DOMAIN disk = Files /\ DOMAIN intended = Runners
  BY DEF SaveRunner, WorkSound
<1>2. \A k \in Files : disk'[k] = IF k = f THEN r ELSE disk[k]
  BY <1>1
<1>3. \A k \in Files : Holds(k) = disk[k] /\ Holds(k)' = disk'[k]
  BY <1>1 DEF Holds, Writes
<1>4. Ours = current /\ Ours' = current \cup {f}
  BY <1>1 DEF Ours, Writes
<1> QED BY <1>1, <1>2, <1>3, <1>4

(* A crash may break the one file that was being written.                  *)
LEMMA StoppedHolds ==
    ASSUME WorkSound, StopServer
    PROVE  /\ \A k \in Files : Holds(k)' = Broken \/ (Holds(k)' = Holds(k) /\ (k \in Ours <=> k \in Ours'))
           /\ server' = "down" /\ UNCHANGED <<intended, confused, recorded>> /\ migrated' = {}
<1>1. /\ server' = "down" /\ UNCHANGED <<disk, current, intended, confused, recorded>>
      /\ migrated' = {} /\ work' = NoWork
  BY DEF StopServer
<1>2. \A k \in Files : Holds(k)' = disk[k] /\ Ours' = current
  BY <1>1 DEF Holds, Ours, Writes
<1>3. \A k \in Files : ~Writes(k) => Holds(k) = disk[k] /\ (k \in Ours <=> k \in current)
  BY DEF Holds, Ours
<1>4. ASSUME NEW k \in Files
      PROVE  Holds(k)' = Broken \/ (Holds(k)' = Holds(k) /\ (k \in Ours <=> k \in Ours'))
  <2>1. CASE Writes(k)
    <3>1. disk[k] = Broken
      BY <2>1 DEF Writes, WorkSound
    <3>2. Holds(k)' = disk[k]
      BY <1>2
    <3> QED BY <3>1, <3>2
  <2>2. CASE ~Writes(k)
    BY <1>2, <1>3, <2>2
  <2> QED BY <2>1, <2>2
<1> QED BY <1>1, <1>4

(* A config that an administrator saves means what it means.               *)
LEMMA SavedMeant ==
    ASSUME NEW r \in NewRunners, NEW excused
    PROVE  r \in RunnerFile /\ Meant(r, Meaning(r), TRUE, excused)
<1>1. /\ r \in RunnerFile /\ r.output_files # "$$$" /\ r.bash_formatting = "none"
  BY NewAssumption
<1>2. /\ Meaning(r).output_files = (r.output_files # "$$$")
      /\ Meaning(r).output_format = IF r.output_format = "text" THEN "text" ELSE "terminal"
      /\ Meaning(r).same_arg = (r.same_arg_param = "true")
      /\ Meaning(r).argument_type = IF r.argument_type = "none" THEN "single_argument" ELSE r.argument_type
      /\ Meaning(r) = [output_files |-> Meaning(r).output_files, output_format |-> Meaning(r).output_format,
                       same_arg |-> Meaning(r).same_arg, argument_type |-> Meaning(r).argument_type]
  BY DEF Meaning
<1> QED BY <1>1, <1>2 DEF Meant, ArgumentsMeant

(* Every step keeps the meaning of configs and the numbers of logs.        *)
LEMMA ContentStep ==
    ASSUME ListSound, WorkSound, ConfigsMeant, LogsNumbered, [StartNext]_startVars
    PROVE  ConfigsMeant' /\ LogsNumbered'
<1>0. Runners \subseteq Files /\ Logs \subseteq Files /\ Runners \cap Logs = {}
  BY FilesAssumption DEF Files
<1>1. CASE Quiet
  BY <1>1, QuietHolds, ContentsStay
<1>2. ASSUME NEW f \in Files, OpenFile(f) PROVE ConfigsMeant' /\ LogsNumbered'
  <2> DEFINE m == work.m
             g == Change(m, disk[f])
  <2>1. /\ \A k \in Files : Holds(k) = disk[k] /\ (k # f => Holds(k)' = disk[k])
        /\ Holds(f)' = g /\ Left = work.files
        /\ Ours = current /\ Ours' = IF m = "repeat_param" THEN current \cup {f} ELSE current
        /\ f \in Reads(m) /\ f \in Left /\ server = "apply"
        /\ UNCHANGED <<intended, current, confused>>
    BY <1>2, OpenedHolds DEF OpenFile
  <2>2. m \in AllMigrations
    BY <2>1 DEF ListSound, Applying
  <2>3. ASSUME NEW k \in Runners
        PROVE  /\ Holds(k)' \in {Missing, Broken} \cup RunnerFile
               /\ Holds(k)' \in RunnerFile => Meant(Holds(k)', intended'[k], k \in Ours', k \in confused')
    <3>1. /\ disk[k] \in {Missing, Broken} \cup RunnerFile
          /\ disk[k] \in RunnerFile => Meant(disk[k], intended[k], k \in current, k \in confused)
      BY <1>0, <2>1 DEF ConfigsMeant
    <3>2. CASE k # f
      <4>1. Holds(k)' = disk[k] /\ (k \in Ours' <=> k \in current)
        BY <1>0, <2>1, <3>2
      <4> QED BY <2>1, <3>1, <4>1 DEF Meant, ArgumentsMeant
    <3>3. CASE k = f
      <4>1. m \in RunnerMigrations
        BY <1>0, <2>1, <2>2, <3>3, ReadsFiles, FilesAssumption
      <4>2. CASE disk[k] \in {Missing, Broken}
        <5>1. m # "execution_info"
          BY <4>1 DEF RunnerMigrations
        <5>2. g = disk[k]
          BY <3>3, <4>2, <5>1 DEF Change
        <5> QED BY <2>1, <3>3, <4>2, <5>2, Kinds
      <4>3. CASE disk[k] \in RunnerFile
        <5>1. m = "repeat_param" /\ k \in current => k \in confused
          BY <2>1, <3>3 DEF WorkSound, Applying
        <5>2. /\ g \in RunnerFile
              /\ Meant(g, intended[k], k \in current \/ m = "repeat_param", k \in confused)
          <6>1. PICK o \in BOOLEAN : o <=> k \in current
            OBVIOUS
          <6>2. PICK e \in BOOLEAN : e <=> k \in confused
            OBVIOUS
          <6> HIDE DEF m
          <6>3. /\ Meant(disk[k], intended[k], o, e) /\ disk[k] \in RunnerFile
                /\ m = "repeat_param" /\ o => e
            BY <3>1, <4>3, <5>1, <6>1, <6>2 DEF Meant, ArgumentsMeant
          <6>4. /\ Change(m, disk[k]) \in RunnerFile
                /\ Meant(Change(m, disk[k]), intended[k], o \/ m = "repeat_param", e)
            BY <4>1, <6>3, MeaningStays
          <6>5. PICK h : h = Change(m, disk[k])
            OBVIOUS
          <6>6. h \in RunnerFile /\ Meant(h, intended[k], k \in current \/ m = "repeat_param", k \in confused)
            BY <6>1, <6>2, <6>4, <6>5 DEF Meant, ArgumentsMeant
          <6> QED BY <3>3, <6>5, <6>6
        <5>3. k \in Ours' <=> (k \in current \/ m = "repeat_param")
          BY <2>1, <3>3
        <5>4. Holds(k)' = g
          BY <2>1, <3>3
        <5> HIDE DEF g
        <5> QED BY <2>1, <5>2, <5>3, <5>4 DEF Meant, ArgumentsMeant
      <4> QED BY <3>1, <4>2, <4>3
    <3> QED BY <3>2, <3>3
  <2>4. ConfigsMeant'
    BY <2>3 DEF ConfigsMeant
  <2>5. CASE f \notin Logs
    <3>1. \A l \in Logs : Holds(l)' = Holds(l)
      BY <1>0, <2>1, <2>5
    <3> QED BY <2>4, <3>1 DEF LogsNumbered
  <2>6. CASE f \in Logs
    <3>1. \A l \in Logs : disk[l] \in LogContent /\ (disk[l].is = "log" <=> disk[l] \in LogFile)
      BY <1>0, <2>1, Kinds DEF LogsNumbered, LogContent
    <3>2. FreeId \in Nat /\ FreeId \notin Ids
      <4>1. \A l \in Logs : disk[l].is = "log" => disk[l].id \in Nat
        BY <3>1 DEF LogFile
      <4> QED BY <4>1, FreeIdIsFree
    <3>3. m \in LogMigrations
      BY <1>0, <2>1, <2>2, <2>6, ReadsFiles, FilesAssumption
    <3>4. /\ g \in LogContent
          /\ g \in LogFile => (disk[f] \in LogFile /\ g.id = disk[f].id) \/ g.id = FreeId
      <4> HIDE DEF m
      <4> QED BY <2>6, <3>1, <3>2, <3>3, LogStep
    <3>5. \A l \in Logs : disk[l] \in LogFile => disk[l].id # FreeId
      BY <3>1, <3>2 DEF Ids
    <3>6. \A k, l \in Logs : k # l /\ disk[k] \in LogFile /\ disk[l] \in LogFile => disk[k].id # disk[l].id
      BY <1>0, <2>1 DEF LogsNumbered
    <3> HIDE DEF g
    <3>7. \A l \in Logs : Holds(l)' = IF l = f THEN g ELSE disk[l]
      BY <1>0, <2>1
    <3>8. LogsNumbered'
      BY <2>6, <3>1, <3>4, <3>5, <3>6, <3>7 DEF LogsNumbered
    <3> QED BY <2>4, <3>8
  <2> QED BY <2>5, <2>6
<1>3. CASE StopServer
  <2>1. /\ \A k \in Files : Holds(k)' = Broken \/ (Holds(k)' = Holds(k) /\ (k \in Ours <=> k \in Ours'))
        /\ UNCHANGED <<intended, confused>>
    BY <1>3, StoppedHolds
  <2>2. ASSUME NEW k \in Runners
        PROVE  /\ Holds(k)' \in {Missing, Broken} \cup RunnerFile
               /\ Holds(k)' \in RunnerFile => Meant(Holds(k)', intended'[k], k \in Ours', k \in confused')
    <3>1. CASE Holds(k)' = Broken
      BY <3>1, Kinds
    <3>2. CASE Holds(k)' = Holds(k) /\ (k \in Ours <=> k \in Ours')
      BY <2>1, <3>2 DEF ConfigsMeant, Meant, ArgumentsMeant
    <3> QED BY <1>0, <2>1, <3>1, <3>2
  <2>3. ConfigsMeant'
    BY <2>2 DEF ConfigsMeant
  <2>4. \A l \in Logs : Holds(l)' = Broken \/ Holds(l)' = Holds(l)
    BY <1>0, <2>1
  <2>5. Broken \in LogContent /\ Broken \notin LogFile
    BY Kinds DEF LogContent
  <2>6. LogsNumbered'
    BY <2>4, <2>5 DEF LogsNumbered
  <2> QED BY <2>3, <2>6
<1>4. ASSUME NEW f \in Runners, NEW r \in NewRunners, SaveRunner(f, r) PROVE ConfigsMeant' /\ LogsNumbered'
  <2>1. /\ \A k \in Files : Holds(k) = disk[k] /\ Holds(k)' = IF k = f THEN r ELSE disk[k]
        /\ Ours = current /\ Ours' = current \cup {f}
        /\ confused' = confused \ {f}
        /\ \A k \in Runners : intended'[k] = IF k = f THEN Meaning(r) ELSE intended[k]
    BY <1>4, SavedHolds
  <2>2. ASSUME NEW k \in Runners
        PROVE  /\ Holds(k)' \in {Missing, Broken} \cup RunnerFile
               /\ Holds(k)' \in RunnerFile => Meant(Holds(k)', intended'[k], k \in Ours', k \in confused')
    <3>1. CASE k = f
      <4>1. Holds(k)' = r /\ intended'[k] = Meaning(r) /\ k \in Ours'
        BY <1>0, <2>1, <3>1
      <4>2. r \in RunnerFile /\ Meant(r, Meaning(r), TRUE, k \in confused')
        BY SavedMeant
      <4> QED BY <4>1, <4>2 DEF Meant, ArgumentsMeant
    <3>2. CASE k # f
      <4>1. /\ Holds(k)' = Holds(k) /\ intended'[k] = intended[k]
            /\ (k \in Ours' <=> k \in Ours) /\ (k \in confused' <=> k \in confused)
        BY <1>0, <2>1, <3>2
      <4> QED BY <4>1 DEF ConfigsMeant, Meant, ArgumentsMeant
    <3> QED BY <3>1, <3>2
  <2>3. ConfigsMeant'
    BY <2>2 DEF ConfigsMeant
  <2>4. \A l \in Logs : Holds(l)' = Holds(l)
    BY <1>0, <2>1
  <2>5. LogsNumbered'
    BY <2>4 DEF LogsNumbered
  <2> QED BY <2>3, <2>5
<1> QED BY <1>1, <1>2, <1>3, <1>4 DEF StartNext, StartStep, Quiet

(* There is nothing to do in a broken file.                                *)
LEMMA BrokenIsDone == \A m, ours : Done(m, Broken, ours)
BY Kinds DEF Done

(* The content a migration is about to write is done with, and not undone. *)
LEMMA OpenedDone ==
    ASSUME ListSound, WorkSound, ConfigsMeant, LogsNumbered, NEW f \in Files, OpenFile(f)
    PROVE  /\ Done(work.m, Holds(f)', f \in Ours')
           /\ \A n \in AllMigrations :
                 f \in Reads(n) /\ Done(n, Holds(f), f \in Ours) => Done(n, Holds(f)', f \in Ours')
<1>1. PICK m \in AllMigrations : m = work.m
  BY DEF OpenFile, ListSound, Applying
<1>2. PICK h, g, h0 : h = disk[f] /\ g = Change(m, h) /\ h0 = Holds(f)
  OBVIOUS
<1>3. /\ h0 = h /\ Holds(f)' = g /\ f \in Reads(m)
      /\ f \in Ours' <=> (f \in Ours \/ m = "repeat_param")
  BY <1>1, <1>2, OpenedHolds
<1>4. PICK o \in BOOLEAN : o <=> f \in Ours
  OBVIOUS
<1>5. SUFFICES /\ Done(m, g, o \/ m = "repeat_param")
               /\ \A n \in AllMigrations :
                     f \in Reads(n) /\ Done(n, h, o) => Done(n, g, o \/ m = "repeat_param")
  <2>1. \A n \in AllMigrations : Done(n, Holds(f), f \in Ours) => Done(n, h, o)
    BY <1>2, <1>3, <1>4 DEF Done
  <2>2. \A n \in AllMigrations : Done(n, g, o \/ m = "repeat_param") => Done(n, Holds(f)', f \in Ours')
    BY <1>3, <1>4 DEF Done
  <2> QED BY <1>1, <2>1, <2>2
<1>6. CASE m \in RunnerMigrations
  <2>1. f \in Runners
    BY <1>3, <1>6, ReadsFiles
  <2>2. h \in {Missing, Broken} \cup RunnerFile
    BY <1>2, <1>3, <2>1 DEF ConfigsMeant
  <2>3. \A n \in AllMigrations : f \in Reads(n) => n \notin LogMigrations
    BY <2>1, ReadsFiles, FilesAssumption
  <2>4. CASE h \in {Missing, Broken}
    <3>1. g = h
      BY <1>2, <1>6, <2>4 DEF Change, RunnerMigrations
    <3> QED BY <1>6, <2>3, <2>4, <3>1, Kinds DEF Done, LogMigrations, RunnerMigrations
  <2>5. CASE h \in RunnerFile
    <3>1. Done(m, g, o \/ m = "repeat_param")
      BY <1>2, <1>6, <2>5, ConfigDone
    <3>2. \A n : Done(n, h, o) /\ n \notin LogMigrations => Done(n, g, o \/ m = "repeat_param")
      BY <1>2, <1>6, <2>5, ConfigStaysDone
    <3> QED BY <2>3, <3>1, <3>2
  <2> QED BY <2>2, <2>4, <2>5
<1>7. CASE m \in LogMigrations
  <2>1. f \in Logs
    BY <1>3, <1>7, ReadsFiles
  <2>2. \A n \in AllMigrations : f \in Reads(n) => n \notin RunnerMigrations
    BY <2>1, ReadsFiles, FilesAssumption
  <2>3. \A l \in Logs : disk[l] \in LogContent /\ (disk[l].is = "log" <=> disk[l] \in LogFile)
    <3>1. \A l \in Logs : Holds(l) = disk[l]
      BY OpenedHolds DEF Files
    <3> QED BY <3>1, Kinds DEF LogsNumbered, LogContent
  <2>4. FreeId \in Nat
    <3>1. \A l \in Logs : disk[l].is = "log" => disk[l].id \in Nat
      BY <2>3 DEF LogFile
    <3> QED BY <3>1, FreeIdIsFree
  <2>5. /\ \A then : Done(m, g, then)
        /\ \A n, then : n \notin RunnerMigrations /\ Done(n, h, o) => Done(n, g, then)
    BY <1>2, <1>7, <2>1, <2>3, <2>4, LogStep
  <2> QED BY <2>2, <2>5
<1>8. CASE m \notin RunnerMigrations \cup LogMigrations
  <2>1. f = Conf
    BY <1>3, <1>8, ReadsFiles
  <2>2. \A n \in AllMigrations : f \in Reads(n) => n \notin RunnerMigrations \cup LogMigrations
    BY <2>1, ReadsFiles, FilesAssumption
  <2>3. \A n : n \notin RunnerMigrations \cup LogMigrations => \A x, then : Done(n, x, then)
    BY DEF Done, RunnerMigrations, LogMigrations
  <2> QED BY <1>8, <2>2, <2>3
<1> QED BY <1>6, <1>7, <1>8

(* What a migration would not change is done.                              *)
LEMMA UnchangedDone ==
    ASSUME ConfigsMeant, LogsNumbered, server # "write",
           NEW m \in AllMigrations, NEW f \in Reads(m) \ Changed(m)
    PROVE  Done(m, Holds(f), f \in Ours)
<1>1. Holds(f) = disk[f] /\ Change(m, disk[f]) = disk[f]
  BY DEF Holds, Writes, Changed
<1>2. PICK h : h = disk[f]
  OBVIOUS
<1>3. Change(m, h) = h
  BY <1>1, <1>2
<1>4. PICK o \in BOOLEAN : o <=> f \in Ours
  OBVIOUS
<1>5. SUFFICES Done(m, h, o)
  BY <1>1, <1>2, <1>4 DEF Done
<1>6. CASE m \in RunnerMigrations
  <2>1. h \in {Missing, Broken} \cup RunnerFile
    BY <1>1, <1>2, <1>6, ReadsFiles DEF ConfigsMeant
  <2>2. CASE h \in RunnerFile
    BY <1>3, <1>6, <2>2, ConfigDone
  <2>3. CASE h \in {Missing, Broken}
    BY <1>6, <2>3, Kinds DEF Done, RunnerMigrations
  <2> QED BY <2>1, <2>2, <2>3
<1>7. CASE m \in LogMigrations
  <2>1. \A l \in Logs : disk[l] \in LogContent /\ (disk[l].is = "log" <=> disk[l] \in LogFile)
    <3>1. \A l \in Logs : Holds(l) = disk[l]
      BY DEF Holds, Writes
    <3> QED BY <3>1, Kinds DEF LogsNumbered, LogContent
  <2>2. FreeId \in Nat
    <3>1. \A l \in Logs : disk[l].is = "log" => disk[l].id \in Nat
      BY <2>1 DEF LogFile
    <3> QED BY <3>1, FreeIdIsFree
  <2>3. h \in LogContent
    BY <1>2, <1>7, <2>1, ReadsFiles
  <2> QED BY <1>3, <1>7, <2>2, <2>3, LogStep
<1>8. CASE m \notin RunnerMigrations \cup LogMigrations
  BY <1>8 DEF Done, RunnerMigrations, LogMigrations
<1> QED BY <1>6, <1>7, <1>8

(* What is done stays done while the files hold what they held.            *)
LEMMA RecordedStays ==
    ASSUME RecordedDone, \A f \in Files : Holds(f)' = Holds(f), Ours' = Ours,
           Lines' \cup migrated' \subseteq Lines \cup migrated
    PROVE  RecordedDone'
<1>1. ASSUME NEW m \in Lines' \cup migrated', NEW f \in Reads(m)
      PROVE  Done(m, Holds(f)', f \in Ours')
  <2>1. Holds(f)' = Holds(f)
    BY ReadsFiles
  <2>2. Done(m, Holds(f), f \in Ours)
    BY DEF RecordedDone
  <2> QED BY <2>1, <2>2 DEF Done
<1> QED BY <1>1 DEF RecordedDone, Reads

(* Every step keeps what is recorded, applied and being applied done.      *)
LEMMA DoneStep ==
    ASSUME UpgradeInv, [StartNext]_startVars, ListSound'
    PROVE  RecordedDone' /\ WorkDone'
<1> USE DEF UpgradeInv
<1>1. CASE \/ StartServer \/ NextPass \/ WriteRecord \/ LoseTemp
  <2>1. Lines' \cup migrated' \subseteq Lines \cup migrated
    BY <1>1 DEF StartServer, NextPass, WriteRecord, LoseTemp, Lines
  <2>2. server' \notin {"apply", "write"}
    BY <1>1 DEF StartServer, NextPass, WriteRecord, LoseTemp
  <2>3. WorkDone'
    BY <2>2 DEF WorkDone, Applying
  <2> QED BY <1>1, <2>1, <2>3, QuietHolds, RecordedStays DEF Quiet
<1>2. CASE Begin
  <2>1. /\ UNCHANGED <<disk, migrated, recorded>> /\ server = "loop" /\ server' # "write"
        /\ server' = "apply" => work' = [NoWork EXCEPT !.m = todo.left[todo.i], !.files = Changed(todo.left[todo.i])]
        /\ todo.i \in 1..Len(todo.left)
    BY <1>2 DEF Begin, ListSound
  <2>2. (\A f \in Files : Holds(f)' = Holds(f)) /\ Ours' = Ours
    BY <1>2, QuietHolds DEF Quiet
  <2>3. RecordedDone'
    <3>1. Lines' \cup migrated' \subseteq Lines \cup migrated
      BY <2>1 DEF Lines
    <3> QED BY <2>2, <3>1, RecordedStays
  <2>4. WorkDone'
    <3>1. CASE server' # "apply"
      BY <2>1, <3>1 DEF WorkDone, Applying
    <3>2. CASE server' = "apply"
      <4>1. PICK m \in AllMigrations : m = todo.left[todo.i]
        BY <2>1 DEF ListSound
      <4>2. PICK c : c = Changed(m)
        OBVIOUS
      <4>3. work' = [m |-> m, files |-> c, content |-> Missing]
        BY <2>1, <3>2, <4>1, <4>2 DEF NoWork
      <4>4. work'.m = m /\ Left' = c
        BY <3>2, <4>3 DEF Left, Writes
      <4>5. ASSUME NEW f \in Reads(m) \ c PROVE Done(m, Holds(f)', f \in Ours')
        <5>1. Done(m, Holds(f), f \in Ours)
          BY <2>1, <4>2, UnchangedDone
        <5>2. Holds(f)' = Holds(f)
          BY <2>2, ReadsFiles
        <5> QED BY <2>2, <5>1, <5>2 DEF Done
      <4> QED BY <4>4, <4>5 DEF WorkDone, Reads
    <3> QED BY <3>1, <3>2
  <2> QED BY <2>3, <2>4
<1>3. ASSUME NEW f \in Files, OpenFile(f) PROVE RecordedDone' /\ WorkDone'
  <2>1. PICK m \in AllMigrations : m = work.m
    BY <1>3 DEF OpenFile, ListSound, Applying
  <2>2. /\ \A k \in Files : k # f => Holds(k)' = Holds(k) /\ (k \in Ours' <=> k \in Ours)
        /\ f \in Reads(m) /\ Left = work.files /\ Left' = work.files \ {f}
        /\ work'.m = m /\ server = "apply" /\ Lines' = Lines /\ migrated' = migrated
    BY <1>3, <2>1, OpenedHolds DEF Lines
  <2>3. /\ Done(m, Holds(f)', f \in Ours')
        /\ \A n \in AllMigrations :
              f \in Reads(n) /\ Done(n, Holds(f), f \in Ours) => Done(n, Holds(f)', f \in Ours')
    BY <1>3, <2>1, OpenedDone
  <2>4. ASSUME NEW n \in AllMigrations, NEW k \in Reads(n), Done(n, Holds(k), k \in Ours)
        PROVE  Done(n, Holds(k)', k \in Ours')
    <3>1. CASE k = f
      BY <2>3, <2>4, <3>1
    <3>2. CASE k # f
      <4>1. Holds(k)' = Holds(k) /\ (k \in Ours' <=> k \in Ours)
        BY <2>2, <3>2, ReadsFiles
      <4> QED BY <2>4, <4>1 DEF Done
    <3> QED BY <3>1, <3>2
  <2>5. ASSUME NEW n \in Lines' \cup migrated', NEW k \in Reads(n)
        PROVE  Done(n, Holds(k)', k \in Ours')
    <3>1. n \in AllMigrations /\ Done(n, Holds(k), k \in Ours)
      BY <2>2 DEF ListSound, RecordedDone
    <3> QED BY <2>4, <3>1
  <2>6. ASSUME NEW k \in Reads(m) \ Left' PROVE Done(m, Holds(k)', k \in Ours')
    <3>1. CASE k = f
      BY <2>3, <3>1
    <3>2. CASE k # f
      <4>1. Done(m, Holds(k), k \in Ours)
        BY <2>1, <2>2, <2>6, <3>2 DEF WorkDone, Applying
      <4> QED BY <2>4, <4>1
    <3> QED BY <3>1, <3>2
  <2>7. RecordedDone'
    BY <2>5 DEF RecordedDone, Reads
  <2>8. WorkDone'
    BY <2>2, <2>6 DEF WorkDone, Reads
  <2> QED BY <2>7, <2>8
<1>4. CASE WriteFile
  <2>1. (\A f \in Files : Holds(f)' = Holds(f)) /\ Ours' = Ours
    BY <1>4, QuietHolds DEF Quiet
  <2>2. /\ server = "write" /\ server' = "apply" /\ UNCHANGED <<recorded, migrated>>
        /\ work' = [m |-> work.m, files |-> work.files \ {work.content.file}, content |-> Missing]
    BY <1>4 DEF WriteFile, WorkSound
  <2>3. work'.m = work.m /\ Left' = Left
    BY <2>2 DEF Left, Writes
  <2>4. RecordedDone'
    <3>1. Lines' \cup migrated' \subseteq Lines \cup migrated
      BY <2>2 DEF Lines
    <3> QED BY <2>1, <3>1, RecordedStays
  <2>5. PICK m : m = work.m
    OBVIOUS
  <2>6. ASSUME NEW f \in Reads(m) \ Left PROVE Done(m, Holds(f)', f \in Ours')
    <3>1. Done(m, Holds(f), f \in Ours)
      BY <2>2, <2>5 DEF WorkDone, Applying
    <3>2. Holds(f)' = Holds(f)
      BY <2>1, ReadsFiles
    <3> QED BY <2>1, <3>1, <3>2 DEF Done
  <2>7. WorkDone'
    BY <2>3, <2>5, <2>6 DEF WorkDone, Reads
  <2> QED BY <2>4, <2>7
<1>5. CASE OpenRecord
  <2>1. (\A f \in Files : Holds(f)' = Holds(f)) /\ Ours' = Ours
    BY <1>5, QuietHolds DEF Quiet
  <2>2. PICK m : m = work.m
    OBVIOUS
  <2>3. /\ server = "apply" /\ server' = "record" /\ work.files = {}
        /\ migrated' = migrated \cup {m} /\ recorded' = Broken
    BY <1>5, <2>2 DEF OpenRecord
  <2>4. Lines' = {} /\ Left = {}
    BY <2>3 DEF Lines, Left
  <2>5. ASSUME NEW n \in Lines' \cup migrated', NEW f \in Reads(n)
        PROVE  Done(n, Holds(f)', f \in Ours')
    <3>1. Done(n, Holds(f), f \in Ours)
      <4>1. CASE n = m
        BY <2>2, <2>3, <2>4, <4>1 DEF WorkDone, Applying
      <4>2. CASE n \in migrated
        BY <4>2 DEF RecordedDone
      <4> QED BY <2>3, <2>4, <4>1, <4>2
    <3>2. Holds(f)' = Holds(f)
      BY <2>1, ReadsFiles
    <3> QED BY <2>1, <3>1, <3>2 DEF Done
  <2>6. RecordedDone'
    BY <2>5 DEF RecordedDone, Reads
  <2> QED BY <2>3, <2>6 DEF WorkDone, Applying
<1>6. CASE StopServer
  <2>1. /\ \A k \in Files : Holds(k)' = Broken \/ (Holds(k)' = Holds(k) /\ (k \in Ours <=> k \in Ours'))
        /\ server' = "down" /\ recorded' = recorded /\ migrated' = {}
    BY <1>6, StoppedHolds
  <2>2. ASSUME NEW n \in Lines, NEW f \in Reads(n)
        PROVE  Done(n, Holds(f)', f \in Ours')
    <3>1. Done(n, Holds(f), f \in Ours) /\ f \in Files
      BY ReadsFiles DEF RecordedDone
    <3>2. CASE Holds(f)' = Broken
      BY <3>2, BrokenIsDone DEF Done
    <3>3. CASE Holds(f)' = Holds(f) /\ (f \in Ours <=> f \in Ours')
      BY <3>1, <3>3 DEF Done
    <3> QED BY <2>1, <3>1, <3>2, <3>3
  <2>3. Lines' = Lines
    BY <2>1 DEF Lines
  <2>4. RecordedDone'
    BY <2>1, <2>2, <2>3 DEF RecordedDone, Reads
  <2> QED BY <2>1, <2>4 DEF WorkDone, Applying
<1>7. ASSUME NEW f \in Runners, NEW r \in NewRunners, SaveRunner(f, r) PROVE RecordedDone' /\ WorkDone'
  <2>1. /\ \A k \in Files : Holds(k) = disk[k] /\ Holds(k)' = IF k = f THEN r ELSE disk[k]
        /\ Ours = current /\ Ours' = current \cup {f}
        /\ server' = "up" /\ UNCHANGED <<migrated, recorded>>
    BY <1>7, SavedHolds
  <2>2. ASSUME NEW n \in Lines \cup migrated, NEW k \in Reads(n)
        PROVE  Done(n, Holds(k)', k \in Ours')
    <3>1. Done(n, Holds(k), k \in Ours) /\ k \in Files /\ n \in AllMigrations
      BY ReadsFiles DEF RecordedDone, ListSound
    <3>2. CASE k # f
      <4>1. Holds(k)' = Holds(k) /\ (k \in Ours <=> k \in Ours')
        BY <2>1, <3>1, <3>2
      <4> QED BY <3>1, <4>1 DEF Done
    <3>3. CASE k = f
      <4>1. Holds(k)' = r /\ k \in Ours'
        BY <2>1, <3>1, <3>3
      <4>2. r \in RunnerFile /\ r.output_files # "$$$" /\ r.bash_formatting = "none"
        BY NewAssumption
      <4>3. n \notin LogMigrations
        BY <3>3, ReadsFiles, FilesAssumption
      <4> QED BY <4>1, <4>2, <4>3 DEF Done, LogMigrations
    <3> QED BY <3>2, <3>3
  <2>3. Lines' = Lines
    BY <2>1 DEF Lines
  <2>4. RecordedDone'
    BY <2>1, <2>2, <2>3 DEF RecordedDone, Reads
  <2> QED BY <2>1, <2>4 DEF WorkDone, Applying
<1>8. CASE UNCHANGED startVars
  <2>1. UNCHANGED <<disk, work, current, server, recorded, migrated>>
    BY <1>8 DEF startVars
  <2>2. /\ \A f \in Files : Holds(f)' = Holds(f)
        /\ Ours' = Ours /\ Left' = Left /\ Lines' = Lines
    BY <2>1 DEF Holds, Ours, Left, Lines, Writes
  <2>3. RecordedDone'
    BY <2>1, <2>2, RecordedStays
  <2>4. PICK m : m = work.m
    OBVIOUS
  <2>5. ASSUME Applying, NEW f \in Reads(m) \ Left PROVE Done(m, Holds(f)', f \in Ours')
    <3>1. Done(m, Holds(f), f \in Ours)
      BY <2>4, <2>5 DEF WorkDone
    <3>2. Holds(f)' = Holds(f)
      BY <2>2, ReadsFiles
    <3> QED BY <2>2, <3>1, <3>2 DEF Done
  <2>6. Applying' = Applying /\ work'.m = m
    BY <2>1, <2>4 DEF Applying
  <2>7. WorkDone'
    BY <2>2, <2>5, <2>6 DEF WorkDone, Reads
  <2> QED BY <2>3, <2>7
<1> QED BY <1>1, <1>2, <1>3, <1>4, <1>5, <1>6, <1>7, <1>8 DEF StartNext, StartStep

(* The files of the older version are where the invariant begins.          *)
LEMMA InitSound == ASSUME StartInit PROVE UpgradeInv
<1>1. /\ server = "down" /\ todo = NoTodo /\ migrated = {} /\ work = NoWork
      /\ current = {} /\ confused = {}
      /\ intended = [f \in Runners |-> IF disk[f] = Missing THEN Missing ELSE OldMeaning(disk[f])]
  BY DEF StartInit
<1>2. /\ \A f \in Files : Holds(f) = disk[f]
      /\ Ours = {} /\ ~Applying
  <2>1. NoWork.files = {}
    BY DEF NoWork
  <2> QED BY <1>1, <2>1 DEF Holds, Ours, Writes, Applying
<1>3. /\ DOMAIN disk = Files
      /\ \A f \in Runners :
            \/ disk[f] = Missing
            \/ disk[f] \in RunnerFile /\ disk[f].output_format = "none" /\ disk[f].argument_type = "none"
      /\ \A l \in Logs : disk[l] \in LogContent
      /\ \A k, l \in Logs :
            k # l /\ disk[k] \in LogFile /\ disk[l] \in LogFile => disk[k].id # disk[l].id
  <2>1. CASE disk \in OldDisks
    BY <2>1, OldAssumption, Kinds DEF LogContent
  <2>2. CASE disk = [f \in Files |-> Missing]
    BY <2>2, Kinds DEF LogContent, Files
  <2> QED BY <2>1, <2>2 DEF StartInit
<1>4. Lines = {} \/ (Lines = {"execution_info", "access_config"} /\ \A l \in Logs : disk[l] \in LogFile)
  <2>1. \A l \in Logs : disk[l].is = "log" => disk[l] \in LogFile
    BY <1>3, Kinds DEF LogContent
  <2>2. CASE recorded = Missing
    BY <2>2 DEF Lines
  <2>3. CASE recorded = [is |-> "record", lines |-> {"execution_info", "access_config"}] /\ recorded # Missing
    <3>1. recorded # Broken
      BY <2>3 DEF Broken
    <3>2. Lines = {"execution_info", "access_config"}
      BY <2>3, <3>1 DEF Lines
    <3>3. \A l \in Logs : disk[l].is = "log"
      BY <2>3 DEF StartInit
    <3> QED BY <2>1, <3>2, <3>3
  <2> QED BY <2>2, <2>3 DEF StartInit
<1>5. ListSound
  <2>1. /\ NoTodo.left = <<>> /\ NoTodo.i = 1 /\ Range(<<>>) = {}
        /\ NoTodo = [left |-> NoTodo.left, i |-> NoTodo.i, changes |-> NoTodo.changes]
    BY DEF NoTodo, Range
  <2>2. Distinct(todo.left) /\ Lines \subseteq AllMigrations
    BY <1>1, <1>4, <2>1 DEF Distinct, AllMigrations
  <2> QED BY <1>1, <1>2, <2>1, <2>2 DEF ListSound
<1>6. WorkSound
  <2>1. NoWork.files = {} /\ NoWork = [m |-> NoWork.m, files |-> NoWork.files, content |-> NoWork.content]
    BY DEF NoWork
  <2> QED BY <1>1, <1>2, <1>3, <2>1 DEF WorkSound
<1>7. ConfigsMeant
  <2>1. ASSUME NEW f \in Runners, disk[f] \in RunnerFile
        PROVE  Meant(disk[f], intended[f], FALSE, FALSE)
    <3>1. PICK h \in RunnerFile : h = disk[f]
      BY <2>1
    <3>2. h.output_format = "none" /\ h.argument_type = "none" /\ h # Missing
      BY <1>3, <2>1, <3>1, Kinds
    <3>3. intended[f] = OldMeaning(h)
      BY <1>1, <3>1, <3>2
    <3>4. Meant(h, OldMeaning(h), FALSE, FALSE)
      BY <3>2 DEF Meant, ArgumentsMeant, OldMeaning
    <3> QED BY <3>1, <3>3, <3>4
  <2>2. ASSUME NEW f \in Runners
        PROVE  /\ Holds(f) \in {Missing, Broken} \cup RunnerFile
               /\ Holds(f) \in RunnerFile => Meant(Holds(f), intended[f], f \in Ours, f \in confused)
    <3>1. Holds(f) = disk[f] /\ f \notin Ours /\ f \notin confused
      BY <1>1, <1>2 DEF Files
    <3>2. CASE disk[f] = Missing
      BY <3>1, <3>2, Kinds
    <3>3. CASE disk[f] \in RunnerFile
      <4>1. PICK h, meant : h = disk[f] /\ meant = intended[f]
        OBVIOUS
      <4>2. Meant(h, meant, FALSE, FALSE)
        BY <2>1, <3>3, <4>1
      <4>3. Meant(h, meant, f \in Ours, f \in confused)
        BY <3>1, <4>2 DEF Meant, ArgumentsMeant
      <4> QED BY <3>1, <3>3, <4>1, <4>3
    <3> QED BY <1>3, <3>2, <3>3
  <2> QED BY <2>2 DEF ConfigsMeant
<1>8. LogsNumbered
  <2>1. \A l \in Logs : Holds(l) = disk[l]
    BY <1>2 DEF Files
  <2> QED BY <1>3, <2>1 DEF LogsNumbered
<1>9. RecordedDone
  <2>1. ASSUME NEW m \in Lines \cup migrated, NEW f \in Reads(m)
        PROVE  Done(m, Holds(f), f \in Ours)
    <3>1. m \in {"execution_info", "access_config"} /\ \A l \in Logs : disk[l] \in LogFile
      BY <1>1, <1>4
    <3>2. CASE m = "execution_info"
      <4>1. f \in Logs
        BY <3>2, ReadsFiles DEF LogMigrations
      <4>2. Holds(f) \in LogFile
        BY <1>2, <3>1, <4>1 DEF Files
      <4> QED BY <3>2, <4>2 DEF Done
    <3>3. CASE m = "access_config"
      BY <3>3 DEF Done
    <3> QED BY <3>1, <3>2, <3>3
  <2> QED BY <2>1 DEF RecordedDone
<1> QED BY <1>2, <1>5, <1>6, <1>7, <1>8, <1>9 DEF UpgradeInv, WorkDone

(* What the invariant says of a server that is up.                         *)
LEMMA InvSound == ASSUME UpgradeInv PROVE UpgradeSound
<1> USE DEF UpgradeInv
<1>1. StartTypeOK
  <2>1. Range(Registered) = AllMigrations /\ Len(Registered) = 7
    BY DEF Range, Registered, AllMigrations
  <2> QED BY <2>1 DEF StartTypeOK, ListSound, WorkSound
<1>2. ASSUME server = "up"
      PROVE  /\ migrated = AllMigrations /\ Ours = current
             /\ \A f \in Files : Holds(f) = disk[f]
  <2>1. Range(todo.left) = {}
    BY <1>2 DEF ListSound, Range
  <2> QED BY <1>2, <2>1 DEF ListSound, Holds, Ours, Writes
<1>3. ASSUME server = "up", NEW f \in Runners, disk[f] \notin {Missing, Broken},
             NEW aspect \in DOMAIN intended[f]
      PROVE  \/ Meaning(disk[f])[aspect] = intended[f][aspect]
             \/ f \in confused /\ aspect \in {"same_arg", "argument_type"}
  <2>1. PICK h, meant : h = disk[f] /\ meant = intended[f]
    OBVIOUS
  <2>2. h \in RunnerFile /\ Meant(h, meant, f \in current, f \in confused)
    <3>1. Holds(f) = disk[f] /\ Ours = current
      BY <1>2, <1>3 DEF Files
    <3> QED BY <1>3, <2>1, <3>1 DEF ConfigsMeant, Meant, ArgumentsMeant
  <2>3. aspect \in {"output_files", "output_format", "same_arg", "argument_type"}
    <3>1. aspect \in DOMAIN meant
      BY <1>3, <2>1
    <3>2. meant = [output_files |-> meant.output_files, output_format |-> meant.output_format,
                   same_arg |-> meant.same_arg, argument_type |-> meant.argument_type]
      BY <2>2 DEF Meant
    <3> QED BY <3>1, <3>2
  <2>4. /\ h.output_files # "$$$" /\ h.bash_formatting = "none"
        /\ f \notin current =>
              /\ h.repeat_param = "none" /\ h.same_arg_param = "none" /\ h.multiple_arguments = "none"
    <3>1. \A m \in RunnerMigrations : Done(m, h, f \in current)
      <4>1. ASSUME NEW m \in RunnerMigrations PROVE Done(m, h, f \in current)
        <5>1. m \in AllMigrations /\ f \in Reads(m) /\ Holds(f) = h /\ Ours = current
          BY <1>2, <1>3, <2>1, ReadsFiles DEF Files, RunnerMigrations, AllMigrations
        <5>2. Done(m, Holds(f), f \in Ours)
          BY <1>2, <1>3, <5>1 DEF RecordedDone
        <5> QED BY <5>1, <5>2 DEF Done
      <4> QED BY <4>1
    <3>2. /\ Done("output_files", h, f \in current) /\ Done("bash_formatting", h, f \in current)
          /\ Done("repeat_param", h, f \in current)
      BY <3>1 DEF RunnerMigrations
    <3> QED BY <2>2, <3>2 DEF Done
  <2>5. /\ Meaning(h).output_files = (h.output_files # "$$$")
        /\ Meaning(h).output_format = IF h.output_format = "text" THEN "text" ELSE "terminal"
        /\ Meaning(h).same_arg = (h.same_arg_param = "true")
        /\ Meaning(h).argument_type = IF h.argument_type = "none" THEN "single_argument" ELSE h.argument_type
    BY DEF Meaning
  <2>6. CASE aspect = "output_files"
    <3>1. meant.output_files = TRUE
      BY <2>2 DEF Meant
    <3>2. Meaning(h).output_files = TRUE
      BY <2>4, <2>5
    <3> QED BY <2>1, <2>6, <3>1, <3>2
  <2>7. CASE aspect = "output_format"
    <3>1. Meaning(h).output_format = meant.output_format
      BY <2>2, <2>4, <2>5 DEF Meant
    <3> QED BY <2>1, <2>7, <3>1
  <2>8. CASE aspect \in {"same_arg", "argument_type"}
    <3>1. SUFFICES ASSUME f \notin confused PROVE Meaning(h)[aspect] = meant[aspect]
      BY <2>1, <2>8
    <3>2. ArgumentsMeant(h, meant, f \in current)
      BY <2>2, <3>1 DEF Meant, ArgumentsMeant
    <3>3. CASE f \in current
      <4>1. /\ meant.same_arg = (h.same_arg_param = "true")
            /\ meant.argument_type = IF h.argument_type = "none" THEN "single_argument" ELSE h.argument_type
        BY <3>2, <3>3 DEF ArgumentsMeant
      <4> QED BY <2>5, <2>8, <4>1
    <3>4. CASE f \notin current
      <4>1. /\ meant.same_arg = (h.repeat_param = "false") /\ meant.argument_type = "single_argument"
            /\ h.argument_type = "none"
        BY <2>2, <2>4, <3>2, <3>4 DEF ArgumentsMeant, Meant
      <4>2. meant.same_arg = FALSE /\ Meaning(h).same_arg = FALSE /\ Meaning(h).argument_type = "single_argument"
        BY <2>4, <2>5, <3>4, <4>1
      <4> QED BY <2>8, <4>1, <4>2
    <3> QED BY <3>3, <3>4
  <2> QED BY <2>3, <2>6, <2>7, <2>8
<1>4. MeaningKept
  BY <1>3 DEF MeaningKept
<1>5. LogsReady
  <2>1. SUFFICES ASSUME server = "up", NEW l \in Logs, disk[l] \notin {Missing, Broken}
                 PROVE  /\ disk[l].is = "log" /\ disk[l].user_id
                        /\ \A k \in Logs \ {l} : disk[k].is = "log" => disk[k].id # disk[l].id
    BY DEF LogsReady
  <2>2. \A k \in Logs : Holds(k) = disk[k] /\ disk[k] \in LogContent
    BY <1>2, <2>1 DEF Files, LogsNumbered
  <2>3. ASSUME NEW m \in LogMigrations PROVE Done(m, disk[l], l \in current)
    <3>1. m \in AllMigrations /\ l \in Reads(m) /\ Ours = current
      BY <1>2, <2>1, ReadsFiles DEF LogMigrations, AllMigrations
    <3>2. Done(m, Holds(l), l \in Ours)
      BY <1>2, <2>1, <3>1 DEF RecordedDone
    <3> QED BY <2>2, <3>1, <3>2 DEF Done
  <2>4. Done("execution_info", disk[l], l \in current) /\ Done("user_id", disk[l], l \in current)
    BY <2>3 DEF LogMigrations
  <2>5. disk[l] \in LogFile /\ disk[l].user_id
    BY <2>1, <2>4 DEF Done
  <2>6. \A k \in Logs \ {l} : disk[k].is = "log" => disk[k] \in LogFile
    BY <2>2, Kinds DEF LogContent
  <2> QED BY <2>2, <2>5, <2>6, Kinds DEF LogsNumbered
<1> QED BY <1>1, <1>4, <1>5 DEF UpgradeSound

(* However often the start is interrupted and the record of the migrations *)
(* lost, what it comes up with is sound: the configs mean what their       *)
(* authors meant, and the logs have users and numbers of their own.        *)
THEOREM UpgradesAreSound == StartSpec => []UpgradeSound
<1>1. StartInit => UpgradeInv
  BY InitSound
<1>2. UpgradeInv /\ [StartNext]_startVars => UpgradeInv'
  <2>1. SUFFICES ASSUME UpgradeInv, [StartNext]_startVars PROVE UpgradeInv'
    OBVIOUS
  <2>2. ListSound' /\ WorkSound'
    BY <2>1, ListStep, WorkStep DEF UpgradeInv
  <2>3. ConfigsMeant' /\ LogsNumbered'
    BY <2>1, ContentStep DEF UpgradeInv
  <2>4. RecordedDone' /\ WorkDone'
    BY <2>1, <2>2, DoneStep
  <2> QED BY <2>2, <2>3, <2>4 DEF UpgradeInv
<1>3. UpgradeInv => UpgradeSound
  BY InvSound
<1> QED BY <1>1, <1>2, <1>3, PTL DEF StartSpec

-----------------------------------------------------------------------------
(***************************************************************************)
(* UserGroups: the groups of a configuration.                              *)
(***************************************************************************)

Configurations == [GroupNames -> SUBSET (GroupNames \cup OtherGroups \cup People)]
Configured == groups \in Configurations

(* What a group has when it is flattened: the least set with its members   *)
(* and those of each group in it.                                          *)
Flat(g, S) == Closed(g, S) /\ \A T : Closed(g, T) => S \subseteq T

(* A function of finished results *)
IsResult(result) ==
    /\ DOMAIN result \subseteq GroupNames
    /\ \A g \in DOMAIN result : Flat(g, result[g])

(* What the loop knows in between.  Whoever is visited is in every closed  *)
(* set, and all there is to collect from it is collected or queued.        *)
Collecting(result, g, s) ==
    /\ s = [queue |-> s.queue, visited |-> s.visited, members |-> s.members]
    /\ s.queue \in Seq(GroupNames) /\ s.visited \subseteq GroupNames
    /\ g \in s.visited \cup Range(s.queue)
    /\ \A T : Closed(g, T) => s.members \subseteq T /\ s.visited \cup Range(s.queue) \subseteq T \cup {g}
    /\ \A h \in s.visited :
          IF h \in DOMAIN result THEN result[h] \subseteq s.members
          ELSE groups[h] \subseteq s.members /\ groups[h] \cap GroupNames \subseteq s.visited \cup Range(s.queue)
    /\ \A m \in s.members : \E h \in s.visited :
          m \in IF h \in DOMAIN result THEN result[h] ELSE groups[h]

(* How many turns there may still be. *)
Ahead(s) == Len(s.queue) + (Cardinality(GroupNames) - Cardinality(s.visited)) * Cardinality(GroupNames)

(* Taking the last one off a queue. *)
LEMMA LastTaken ==
    ASSUME NEW S, NEW q \in Seq(S), q # <<>>
    PROVE  /\ Front(q) \in Seq(S) /\ Last(q) \in S /\ Len(Front(q)) = Len(q) - 1
           /\ Range(q) = Range(Front(q)) \cup {Last(q)}
<1>1. PICK s \in Seq(S), x \in S : q = Append(s, x)
  BY SequenceEmptyOrAppend
<1>2. Len(q) = Len(s) + 1 /\ Len(s) \in Nat /\ Last(q) = x
  BY <1>1 DEF Last
<1>3. Front(q) = s
  <2>1. \A i \in 1..Len(s) : q[i] = s[i] /\ q[i] \in S
    BY <1>1
  <2>2. PICK n \in Int : n = Len(s)
    BY <1>2
  <2> DEFINE c == SubSeq(q, 1, n)
  <2>3. /\ c \in Seq(S) /\ Len(c) = IF 1 <= n THEN n - 1 + 1 ELSE 0
        /\ \A i \in 1..n - 1 + 1 : c[i] = q[1 + i - 1]
    <3>1. \A i \in 1..n : q[i] \in S
      BY <2>1, <2>2
    <3> QED BY <3>1, SubSeqProperties
  <2> HIDE DEF c
  <2>4. Len(c) = Len(s) /\ \A i \in 1..Len(s) : c[i] = s[i]
    BY <1>2, <2>1, <2>2, <2>3
  <2>5. c = s
    BY <2>3, <2>4, SeqEqual
  <2>6. Front(q) = SubSeq(q, 1, n)
    BY <1>2, <2>2 DEF Front
  <2> QED BY <2>5, <2>6 DEF c
<1>4. Range(q) = Range(s) \cup {x}
  <2>1. q = s \o <<x>> /\ <<x>> \in Seq(S)
    BY <1>1, AppendIsConcat
  <2>2. PICK y \in Seq(S) : y = <<x>> /\ Range(y) = {x}
    <3>1. Range(<<x>>) = {x}
      BY DEF Range
    <3> QED BY <2>1, <3>1
  <2>3. Range(s \o y) = Range(s) \cup Range(y)
    BY RangeConcatenation
  <2> QED BY <2>1, <2>2, <2>3
<1> QED BY <1>1, <1>2, <1>3, <1>4

(* A finite set as a sequence. *)
LEMMA SetAsSequence ==
    ASSUME NEW S, IsFiniteSet(S)
    PROVE  /\ SetToSeq(S) \in Seq(S) /\ Len(SetToSeq(S)) = Cardinality(S)
           /\ Range(SetToSeq(S)) = S
<1>1. PICK n \in Nat : n = Cardinality(S)
  BY FS_CardinalityType
<1>2. PICK b \in [1..n -> S] : IsInjective(b)
  BY <1>1, FS_CardinalityType DEF ExistsBijection, Bijection, Injection, IsInjective
<1>3. PICK f \in [1..n -> S] : f = SetToSeq(S) /\ IsInjective(f)
  BY <1>1, <1>2 DEF SetToSeq
<1>4. f \in Seq(S) /\ Len(f) = n
  BY <1>3
<1>5. Range(f) = S
  <2>1. f \in Injection(1..n, S)
    BY <1>3 DEF Injection, IsInjective
  <2>2. IsFiniteSet(1..n) /\ Cardinality(1..n) = Cardinality(S)
    BY <1>1, FS_Interval
  <2> QED BY <2>1, <2>2, FS_Injection DEF Surjection, Range
<1> QED BY <1>1, <1>3, <1>4, <1>5

(* What a step of the multiplication does.                                 *)
LEMMA OneLess ==
    ASSUME NEW a \in Nat, NEW n \in Nat
    PROVE  a * n \in Nat /\ (a # 0 => (a - 1) * n = a * n - n)
OBVIOUS

(* Going once more through the loop keeps what it knows, and there is less *)
(* ahead.                                                                  *)
LEMMA TurnKeeps ==
    ASSUME groups \in Configurations, NEW result, IsResult(result), NEW g \in GroupNames,
           NEW s, Collecting(result, g, s)
    PROVE  LET t == Turn(groups, result, s)
           IN  /\ Collecting(result, g, t)
               /\ IF s.queue = <<>> THEN t = s ELSE Ahead(t) < Ahead(s)
<1> DEFINE t == Turn(groups, result, s)
           c == Last(s.queue)
           rest == Front(s.queue)
           N == Cardinality(GroupNames)
           V == Cardinality(s.visited)
<1>1. CASE s.queue = <<>>
  BY <1>1 DEF Turn
<1>2. CASE s.queue # <<>>
  <2>1. /\ rest \in Seq(GroupNames) /\ c \in GroupNames /\ Len(rest) = Len(s.queue) - 1
        /\ Range(s.queue) = Range(rest) \cup {c} /\ Len(s.queue) \in Nat /\ Len(rest) \in Nat
    BY <1>2, LastTaken DEF Collecting
  <2>2. /\ N \in Nat /\ V \in Nat /\ V <= N /\ IsFiniteSet(s.visited)
        /\ c \notin s.visited => Cardinality(s.visited \cup {c}) = V + 1 /\ V + 1 <= N
    <3>1. IsFiniteSet(GroupNames) /\ s.visited \subseteq GroupNames
      BY GroupsAssumption DEF Collecting
    <3>2. s.visited \cup {c} \subseteq GroupNames
      BY <2>1, <3>1
    <3> QED BY <3>1, <3>2, FS_Subset, FS_CardinalityType, FS_AddElement
  <2>3. ASSUME NEW T, Closed(g, T)
        PROVE  /\ groups[c] \subseteq T
               /\ c \in DOMAIN result => result[c] \subseteq T
    <3>1. c \in T \cup {g}
      BY <2>1, <2>3 DEF Collecting
    <3>2. Closed(c, T)
      BY <2>1, <2>3, <3>1 DEF Closed
    <3> QED BY <3>2 DEF Closed, IsResult, Flat
  <2> HIDE DEF c, rest, N, V
  <2>4. CASE c \in s.visited
    <3>1. t = [queue |-> rest, visited |-> s.visited, members |-> s.members]
      BY <1>2, <2>4 DEF Turn, c, rest
    <3> HIDE DEF t
    <3>2. s.visited \cup Range(t.queue) = s.visited \cup Range(s.queue)
      BY <2>1, <2>4, <3>1
    <3>3. Collecting(result, g, t)
      BY <2>1, <3>1, <3>2 DEF Collecting
    <3>4. Ahead(t) = Len(rest) + (N - V) * N /\ Ahead(s) = Len(s.queue) + (N - V) * N
      BY <3>1 DEF Ahead, N, V
    <3>5. (N - V) * N \in Nat
      BY <2>2, OneLess
    <3> QED BY <1>2, <2>1, <3>3, <3>4, <3>5 DEF t
  <2>5. CASE c \notin s.visited /\ c \in DOMAIN result
    <3>1. t = [queue |-> rest, visited |-> s.visited \cup {c}, members |-> s.members \cup result[c]]
      BY <1>2, <2>5 DEF Turn, c, rest
    <3> HIDE DEF t
    <3>2. t.visited \cup Range(t.queue) = s.visited \cup Range(s.queue)
      BY <2>1, <3>1
    <3>3. Collecting(result, g, t)
      <4>1. \A T : Closed(g, T) => t.members \subseteq T /\ t.visited \cup Range(t.queue) \subseteq T \cup {g}
        BY <2>3, <2>5, <3>1, <3>2 DEF Collecting
      <4>2. \A h \in t.visited :
              IF h \in DOMAIN result THEN result[h] \subseteq t.members
              ELSE groups[h] \subseteq t.members /\ groups[h] \cap GroupNames \subseteq t.visited \cup Range(t.queue)
        BY <2>5, <3>1, <3>2 DEF Collecting
      <4>3. \A m \in t.members : \E h \in t.visited :
              m \in IF h \in DOMAIN result THEN result[h] ELSE groups[h]
        BY <2>5, <3>1 DEF Collecting
      <4>4. t.visited \subseteq GroupNames /\ t.queue \in Seq(GroupNames) /\ g \in t.visited \cup Range(t.queue)
        BY <2>1, <3>1, <3>2 DEF Collecting
      <4> QED BY <3>1, <4>1, <4>2, <4>3, <4>4 DEF Collecting
    <3>4. Ahead(t) = Len(rest) + (N - (V + 1)) * N /\ Ahead(s) = Len(s.queue) + (N - V) * N
      BY <2>2, <2>5, <3>1 DEF Ahead, N, V
    <3>5. PICK a \in Nat : a = N - V /\ a # 0
      BY <2>2, <2>5
    <3>6. PICK p \in Nat : p = a * N /\ (a - 1) * N = p - N
      BY <2>2, <3>5, OneLess
    <3>7. Ahead(t) = Len(rest) + (p - N) /\ Ahead(s) = Len(s.queue) + p
      <4>1. N - (V + 1) = a - 1 /\ N - V = a
        BY <2>2, <3>5
      <4> QED BY <3>4, <3>6, <4>1
    <3>8. Ahead(t) < Ahead(s)
      BY <2>1, <2>2, <3>7
    <3> QED BY <1>2, <3>3, <3>8 DEF t
  <2>6. CASE c \notin s.visited /\ c \notin DOMAIN result
    <3>0. PICK named : named = Nested(groups, c)
      OBVIOUS
    <3>1. t = [queue |-> rest \o SetToSeq(named), visited |-> s.visited \cup {c},
               members |-> s.members \cup groups[c]]
      BY <1>2, <2>6, <3>0 DEF Turn, c, rest
    <3>2. named = groups[c] \cap GroupNames
      BY <2>1, <3>0, GroupsAssumption DEF Nested, Configurations
    <3>3. /\ SetToSeq(named) \in Seq(GroupNames) /\ Len(SetToSeq(named)) \in Nat
          /\ Len(SetToSeq(named)) <= N /\ Range(SetToSeq(named)) = named
      <4>1. IsFiniteSet(named) /\ Cardinality(named) <= N
        BY <3>2, GroupsAssumption, FS_Subset DEF N
      <4>2. /\ SetToSeq(named) \in Seq(named) /\ Len(SetToSeq(named)) = Cardinality(named)
            /\ Range(SetToSeq(named)) = named
        BY <4>1, SetAsSequence
      <4>3. SetToSeq(named) \in Seq(GroupNames)
        BY <3>2, <4>2
      <4> QED BY <4>1, <4>2, <4>3
    <3>4. PICK more \in Seq(GroupNames) : more = SetToSeq(named)
      BY <3>3
    <3>5. PICK q \in Seq(GroupNames) : /\ q = rest \o more /\ Len(q) = Len(rest) + Len(more)
                                       /\ Range(q) = Range(rest) \cup named
      <4>1. rest \o more \in Seq(GroupNames) /\ Len(rest \o more) = Len(rest) + Len(more)
        BY <2>1, ConcatProperties
      <4>2. Range(rest \o more) = Range(rest) \cup named
        BY <2>1, <3>3, <3>4, RangeConcatenation
      <4> QED BY <4>1, <4>2
    <3>6. t = [queue |-> q, visited |-> s.visited \cup {c}, members |-> s.members \cup groups[c]]
      BY <3>1, <3>4, <3>5
    <3> HIDE DEF t
    <3>7. t.visited \cup Range(t.queue) = s.visited \cup Range(s.queue) \cup named
      BY <2>1, <3>5, <3>6
    <3>8. Collecting(result, g, t)
      <4>1. \A T : Closed(g, T) => t.members \subseteq T /\ t.visited \cup Range(t.queue) \subseteq T \cup {g}
        BY <2>3, <3>2, <3>6, <3>7 DEF Collecting
      <4>2. \A h \in t.visited :
              IF h \in DOMAIN result THEN result[h] \subseteq t.members
              ELSE groups[h] \subseteq t.members /\ groups[h] \cap GroupNames \subseteq t.visited \cup Range(t.queue)
        BY <2>6, <3>2, <3>6, <3>7 DEF Collecting
      <4>3. \A m \in t.members : \E h \in t.visited :
              m \in IF h \in DOMAIN result THEN result[h] ELSE groups[h]
        BY <2>6, <3>6 DEF Collecting
      <4>4. t.visited \subseteq GroupNames /\ t.queue \in Seq(GroupNames) /\ g \in t.visited \cup Range(t.queue)
        BY <2>1, <3>6, <3>7 DEF Collecting
      <4> QED BY <3>6, <4>1, <4>2, <4>3, <4>4 DEF Collecting
    <3>9. Ahead(t) = Len(q) + (N - (V + 1)) * N /\ Ahead(s) = Len(s.queue) + (N - V) * N
      BY <2>2, <2>6, <3>6 DEF Ahead, N, V
    <3>10. PICK a \in Nat : a = N - V /\ a # 0
      BY <2>2, <2>6
    <3>11. PICK p \in Nat : p = a * N /\ (a - 1) * N = p - N
      BY <2>2, <3>10, OneLess
    <3>12. Ahead(t) = Len(rest) + Len(more) + (p - N) /\ Ahead(s) = Len(s.queue) + p
      <4>1. N - (V + 1) = a - 1 /\ N - V = a
        BY <2>2, <3>10
      <4> QED BY <3>5, <3>9, <3>11, <4>1
    <3>13. Ahead(t) < Ahead(s)
      <4>1. Len(more) <= N /\ Len(more) \in Nat
        BY <3>3, <3>4
      <4> QED BY <2>1, <2>2, <3>12, <4>1
    <3> QED BY <1>2, <3>8, <3>13 DEF t
  <2> QED BY <2>4, <2>5, <2>6
<1> QED BY <1>1, <1>2

(* The loop, turn by turn, and the first n turns.                          *)
Start(g) == [queue |-> <<g>>, visited |-> {}, members |-> {}]
Loops(f, result, g, n) ==
    f = [k \in 0..n |-> IF k = 0 THEN Start(g) ELSE Turn(groups, result, f[k - 1])]

(* There is a function that does so up to any number.                      *)
LEMMA LoopsExist ==
    ASSUME NEW result, NEW g, NEW n \in Nat
    PROVE  \E f : Loops(f, result, g, n)
<1> DEFINE Bad == {k \in Nat : ~ \E f : Loops(f, result, g, k)}
<1> SUFFICES ASSUME Bad # {} PROVE FALSE
  OBVIOUS
<1>1. PICK l \in Bad : \A k \in Bad : l <= k
  BY LeastNumber
<1>2. CASE l = 0
  <2> DEFINE f == [k \in 0..0 |-> Start(g)]
  <2>1. Loops(f, result, g, 0)
    BY DEF Loops
  <2> QED BY <1>1, <1>2, <2>1
<1>3. CASE l # 0
  <2>1. l - 1 \in Nat /\ l - 1 \notin Bad
    BY <1>1, <1>3
  <2>2. PICK f : Loops(f, result, g, l - 1)
    BY <2>1
  <2> DEFINE h == [k \in 0..l |-> IF k < l THEN f[k] ELSE Turn(groups, result, f[l - 1])]
  <2>3. \A k \in 0..l - 1 : f[k] = IF k = 0 THEN Start(g) ELSE Turn(groups, result, f[k - 1])
    BY <2>1, <2>2 DEF Loops
  <2>4. ASSUME NEW k \in 0..l
        PROVE  h[k] = IF k = 0 THEN Start(g) ELSE Turn(groups, result, h[k - 1])
    <3>1. CASE k < l
      <4>1. k \in 0..l - 1 /\ (k # 0 => k - 1 \in 0..l /\ k - 1 < l)
        BY <1>1, <3>1
      <4> QED BY <2>3, <3>1, <4>1
    <3>2. CASE k = l
      <4>1. k # 0 /\ k - 1 \in 0..l /\ k - 1 < l
        BY <1>1, <1>3, <3>2
      <4> QED BY <3>2, <4>1
    <3> QED BY <1>1, <3>1, <3>2
  <2>5. Loops(h, result, g, l)
    <3>1. h = [k \in 0..l |-> h[k]]
      OBVIOUS
    <3> HIDE DEF h
    <3> QED BY <2>4, <3>1 DEF Loops
  <2> QED BY <1>1, <2>5
<1> QED BY <1>2, <1>3

(* The loop is over when the queue is empty, and has by then collected     *)
(* the members of the group and of those in it.                            *)
LEMMA CollectedIsFlat ==
    ASSUME groups \in Configurations, NEW result, IsResult(result), NEW g \in GroupNames,
           NEW s, Collecting(result, g, s), s.queue = <<>>
    PROVE  Flat(g, s.members)
<1>1. Range(s.queue) = {}
  BY DEF Range
<1>2. \A h \in s.visited : groups[h] \subseteq s.members
  BY DEF Collecting, IsResult, Flat, Closed
<1>3. groups[g] \subseteq s.members
  BY <1>1, <1>2 DEF Collecting
<1>4. ASSUME NEW m \in s.members \cap GroupNames
      PROVE  groups[m] \subseteq s.members
  <2>1. PICK h \in s.visited : m \in IF h \in DOMAIN result THEN result[h] ELSE groups[h]
    BY DEF Collecting
  <2>2. CASE h \in DOMAIN result
    <3>1. Closed(h, result[h]) /\ m \in result[h] /\ result[h] \subseteq s.members
      BY <2>1, <2>2 DEF Collecting, IsResult, Flat
    <3> QED BY <3>1 DEF Closed
  <2>3. CASE h \notin DOMAIN result
    <3>1. m \in s.visited
      BY <1>1, <2>1, <2>3 DEF Collecting
    <3> QED BY <1>2, <3>1
  <2> QED BY <2>2, <2>3
<1>5. \A T : Closed(g, T) => s.members \subseteq T
  BY DEF Collecting
<1> QED BY <1>3, <1>4, <1>5 DEF Flat, Closed

(* What holds at first and from each step to the next holds at all.        *)
LEMMA Upwards ==
    ASSUME NEW n \in Nat, NEW S, 0 \in S, \A k \in 1..n : k - 1 \in S => k \in S
    PROVE  \A k \in 0..n : k \in S
<1> DEFINE Bad == {k \in 0..n : k \notin S}
<1> SUFFICES ASSUME Bad # {} PROVE FALSE
  OBVIOUS
<1>1. PICK l \in Bad : \A k \in Bad : l <= k
  <2>1. Bad \in SUBSET Nat
    OBVIOUS
  <2> QED BY <2>1, LeastNumber
<1>2. l # 0 /\ l \in 1..n /\ l - 1 \in 0..n
  BY <1>1
<1>3. l - 1 \notin Bad
  BY <1>1, <1>2
<1> QED BY <1>1, <1>2, <1>3

(* So many turns are enough.                                               *)
LEMMA CollectIsFlat ==
    ASSUME groups \in Configurations, NEW result, IsResult(result), NEW g \in GroupNames
    PROVE  Flat(g, Collect(groups, result, g))
<1> DEFINE N == Cardinality(GroupNames)
<1>1. N \in Nat /\ DOMAIN groups = GroupNames
  BY GroupsAssumption, FS_CardinalityType DEF Configurations
<1>2. PICK n \in Nat : n = Turns(groups) /\ n = 1 + N * N
  BY <1>1, OneLess DEF Turns
<1>3. PICK f : Loops(f, result, g, n) /\ Collect(groups, result, g) = f[n].members
  <2>1. Collect(groups, result, g) = (CHOOSE f : Loops(f, result, g, Turns(groups)))[Turns(groups)].members
    BY DEF Collect, Loops, Start
  <2> QED BY <1>2, <2>1, LoopsExist
<1> DEFINE Kept(k) == Collecting(result, g, f[k]) /\ (f[k].queue = <<>> \/ Ahead(f[k]) <= n - k)
           Good == {k \in 0..n : Kept(k)}
<1>4. 0 \in Good
  <2>1. f[0] = Start(g)
    BY <1>3 DEF Loops
  <2>2. PICK q \in Seq(GroupNames) : q = <<g>> /\ Len(q) = 1 /\ Range(q) = {g}
    <3>1. <<g>> \in Seq(GroupNames) /\ Len(<<g>>) = 1
      OBVIOUS
    <3>2. Range(<<g>>) = {g}
      BY DEF Range
    <3> QED BY <3>1, <3>2
  <2>3. PICK s : s = [queue |-> q, visited |-> {}, members |-> {}] /\ f[0] = s
    BY <2>1, <2>2 DEF Start
  <2>4. Collecting(result, g, s)
    BY <2>2, <2>3 DEF Collecting
  <2>5. Ahead(s) = 1 + (N - 0) * N
    BY <2>2, <2>3, FS_EmptySet DEF Ahead
  <2>6. N - 0 = N
    BY <1>1
  <2>7. Ahead(s) = n
    BY <1>2, <2>5, <2>6
  <2> HIDE DEF N
  <2> QED BY <1>2, <2>3, <2>4, <2>7
<1>5. ASSUME NEW k \in 1..n, k - 1 \in Good
      PROVE  k \in Good
  <2>1. PICK s : s = f[k - 1]
    OBVIOUS
  <2>2. PICK t : t = Turn(groups, result, s) /\ t = f[k]
    BY <1>3, <2>1 DEF Loops
  <2>3. k - 1 \in 0..n /\ k \in 0..n /\ Collecting(result, g, s) /\ (s.queue = <<>> \/ Ahead(s) <= n - (k - 1))
    BY <1>5, <2>1
  <2>4. Collecting(result, g, t) /\ IF s.queue = <<>> THEN t = s ELSE Ahead(t) < Ahead(s)
    BY <2>2, <2>3, TurnKeeps
  <2>5. ASSUME NEW r, Collecting(result, g, r) PROVE Ahead(r) \in Int
    <3>1. IsFiniteSet(r.visited) /\ Cardinality(r.visited) \in Nat /\ Len(r.queue) \in Nat
      BY <2>5, GroupsAssumption, FS_Subset, FS_CardinalityType DEF Collecting
    <3> QED BY <1>1, <3>1 DEF Ahead
  <2>6. Ahead(s) \in Int /\ Ahead(t) \in Int
    BY <2>3, <2>4, <2>5
  <2>7. t.queue = <<>> \/ Ahead(t) <= n - k
    BY <2>3, <2>4, <2>6
  <2> QED BY <2>2, <2>3, <2>4, <2>7
<1>6. Kept(n)
  <2> HIDE DEF Kept, N
  <2>1. \A k \in 1..n : k - 1 \in Good => k \in Good
    BY <1>5
  <2> HIDE DEF Good
  <2>2. \A k \in 0..n : k \in Good
    BY <1>4, <2>1, Upwards
  <2> QED BY <1>2, <2>2 DEF Good
<1>7. f[n].queue = <<>>
  <2>1. PICK s : s = f[n]
    OBVIOUS
  <2>2. Collecting(result, g, s) /\ (s.queue = <<>> \/ Ahead(s) <= n - n)
    BY <1>6, <2>1
  <2>3. /\ Cardinality(s.visited) \in Nat /\ Cardinality(s.visited) <= N /\ s.queue \in Seq(GroupNames)
    BY <2>2, GroupsAssumption, FS_Subset, FS_CardinalityType DEF Collecting
  <2>4. PICK a \in Nat : a = N - Cardinality(s.visited)
    BY <1>1, <2>3
  <2>5. PICK p \in Nat : p = a * N
    BY <1>1, OneLess
  <2>6. Ahead(s) = Len(s.queue) + p
    BY <2>4, <2>5 DEF Ahead
  <2>7. CASE s.queue # <<>>
    <3>1. Len(s.queue) \in Nat /\ Len(s.queue) # 0
      BY <2>3, <2>7
    <3> QED BY <1>2, <2>2, <2>6, <3>1
  <2> QED BY <2>1, <2>7
<1> QED BY <1>3, <1>6, <1>7, CollectedIsFlat

(* The groups finished, one after another, and the first n of them.        *)
NextResult(result, order, k) ==
    [g \in {order[i] : i \in 1..k} |-> IF g = order[k] THEN Collect(groups, result, g) ELSE result[g]]
Finishes(f, order, n) == f = [k \in 0..n |-> IF k = 0 THEN <<>> ELSE NextResult(f[k - 1], order, k)]

(* There is a function that does so up to any number.                      *)
LEMMA FinishesExist ==
    ASSUME NEW order, NEW n \in Nat
    PROVE  \E f : Finishes(f, order, n)
<1> DEFINE Bad == {k \in Nat : ~ \E f : Finishes(f, order, k)}
<1> SUFFICES ASSUME Bad # {} PROVE FALSE
  OBVIOUS
<1>1. PICK l \in Bad : \A k \in Bad : l <= k
  BY LeastNumber
<1>2. CASE l = 0
  <2> DEFINE f == [k \in 0..0 |-> <<>>]
  <2>1. Finishes(f, order, 0)
    BY DEF Finishes
  <2> QED BY <1>1, <1>2, <2>1
<1>3. CASE l # 0
  <2>1. l - 1 \in Nat /\ l - 1 \notin Bad
    BY <1>1, <1>3
  <2>2. PICK f : Finishes(f, order, l - 1)
    BY <2>1
  <2> DEFINE h == [k \in 0..l |-> IF k < l THEN f[k] ELSE NextResult(f[l - 1], order, l)]
  <2>3. \A k \in 0..l - 1 : f[k] = IF k = 0 THEN <<>> ELSE NextResult(f[k - 1], order, k)
    BY <2>1, <2>2 DEF Finishes
  <2>4. ASSUME NEW k \in 0..l
        PROVE  h[k] = IF k = 0 THEN <<>> ELSE NextResult(h[k - 1], order, k)
    <3>1. CASE k < l
      <4>1. k \in 0..l - 1 /\ (k # 0 => k - 1 \in 0..l /\ k - 1 < l)
        BY <1>1, <3>1
      <4> QED BY <2>3, <3>1, <4>1
    <3>2. CASE k = l
      <4>1. k # 0 /\ k - 1 \in 0..l /\ k - 1 < l
        BY <1>1, <1>3, <3>2
      <4> QED BY <3>2, <4>1
    <3> QED BY <1>1, <3>1, <3>2
  <2>5. Finishes(h, order, l)
    <3>1. h = [k \in 0..l |-> h[k]]
      OBVIOUS
    <3> HIDE DEF h
    <3> QED BY <2>4, <3>1 DEF Finishes
  <2> QED BY <1>1, <2>5
<1> QED BY <1>2, <1>3

(* Every group is flattened, in whatever order.                            *)
LEMMA FlattenIsFlat ==
    ASSUME groups \in Configurations, NEW order \in Seq(GroupNames)
    PROVE  /\ DOMAIN Flatten(groups, order) = Range(order)
           /\ \A g \in Range(order) : Flat(g, Flatten(groups, order)[g])
<1>1. PICK n \in Nat : n = Len(order) /\ DOMAIN order = 1..n /\ \A i \in 1..n : order[i] \in GroupNames
  OBVIOUS
<1>2. PICK f : Finishes(f, order, n) /\ Flatten(groups, order) = f[n]
  <2>1. Flatten(groups, order) = (CHOOSE f : Finishes(f, order, Len(order)))[Len(order)]
    BY DEF Flatten, Finishes, NextResult
  <2> QED BY <1>1, <2>1, FinishesExist
<1> DEFINE Here(k) == {order[i] : i \in 1..k}
           Good == {k \in 0..n : DOMAIN f[k] = Here(k) /\ IsResult(f[k])}
<1>3. 0 \in Good
  <2>1. f[0] = <<>>
    BY <1>2 DEF Finishes
  <2>2. Here(0) = {}
    OBVIOUS
  <2>3. DOMAIN <<>> = {}
    OBVIOUS
  <2>4. IsResult(<<>>)
    BY <2>3 DEF IsResult
  <2> QED BY <1>1, <2>1, <2>2, <2>3, <2>4
<1>4. ASSUME NEW k \in 1..n, k - 1 \in Good
      PROVE  k \in Good
  <2>1. PICK r : r = f[k - 1] /\ DOMAIN r = Here(k - 1) /\ IsResult(r)
    BY <1>4
  <2>2. f[k] = NextResult(r, order, k)
    BY <1>2, <2>1 DEF Finishes
  <2>3. PICK d : d = order[k] /\ d \in GroupNames
    BY <1>1
  <2>4. Here(k) = Here(k - 1) \cup {d}
    <3>1. 1..k = (1..k - 1) \cup {k}
      BY <1>1
    <3> QED BY <2>3, <3>1
  <2>5. f[k] = [g \in Here(k) |-> IF g = d THEN Collect(groups, r, g) ELSE r[g]]
    BY <2>2, <2>3 DEF NextResult
  <2> HIDE DEF Here
  <2>6. Flat(d, Collect(groups, r, d))
    BY <2>1, <2>3, CollectIsFlat
  <2>7. \A g \in Here(k) : Flat(g, f[k][g])
    BY <2>1, <2>4, <2>5, <2>6 DEF IsResult
  <2>8. IsResult(f[k])
    BY <2>1, <2>3, <2>4, <2>5, <2>7 DEF IsResult
  <2> QED BY <2>5, <2>8
<1>5. n \in Good
  <2> HIDE DEF Good
  <2>1. \A k \in 1..n : k - 1 \in Good => k \in Good
    BY <1>4
  <2>2. \A k \in 0..n : k \in Good
    BY <1>1, <1>3, <2>1, Upwards
  <2> QED BY <1>1, <2>2
<1>6. Here(n) = Range(order)
  BY <1>1 DEF Range
<1> HIDE DEF Here
<1> QED BY <1>2, <1>5, <1>6 DEF IsResult

(* The flat groups of a configuration.                                     *)
IsFlat(flat) == DOMAIN flat = GroupNames /\ \A g \in GroupNames : Flat(g, flat[g])

(* A group in a group brings all that it has.                              *)
LEMMA NestedFlat ==
    ASSUME NEW flat, IsFlat(flat), NEW g \in GroupNames, NEW h \in GroupNames, h \in groups[g] \cup flat[g]
    PROVE  flat[h] \subseteq flat[g]
<1>1. h \in flat[g]
  BY DEF IsFlat, Flat, Closed
<1>2. Closed(h, flat[g])
  BY <1>1 DEF IsFlat, Flat, Closed
<1> QED BY <1>2 DEF IsFlat, Flat

(* The groups that the flat ones say somebody is in are the right ones.    *)
LEMMA FlatGroupsOfUser ==
    ASSUME groups \in Configurations, NEW flat, IsFlat(flat), NEW user,
           NEW provided \in SUBSET (GroupNames \cup OtherGroups)
    PROVE  GroupsOfUser(flat, user, provided)
<1> DEFINE Is(m) == m.kind # "group" /\ Normal(m) = Normal(user)
           In(g) == \E m \in flat[g] : Is(m) \/ m \in provided
           all == CombinedGroups(flat, user, provided)
<1>1. all = provided \cup {g \in GroupNames : In(g)}
  <2>1. \A m \in provided : m.kind = "group"
    BY GroupsAssumption
  <2>2. \A g \in GroupNames :
          (\/ \E m \in flat[g] : m.kind # "group" /\ Normal(m) = Normal(user)
           \/ provided \cap {m \in flat[g] : m.kind = "group"} # {}) <=> In(g)
    BY <2>1
  <2>3. ConfiguredGroups(flat, user, provided) = {g \in GroupNames : In(g)}
    BY <2>2 DEF ConfiguredGroups, IsFlat
  <2> QED BY <2>3 DEF CombinedGroups
<1> HIDE DEF all, Is
<1>2. ASSUME NEW g \in GroupNames, NEW m \in groups[g], m \in all \/ Is(m)
      PROVE  g \in all
  <2>1. groups[g] \subseteq flat[g]
    BY DEF IsFlat, Flat, Closed
  <2>2. CASE Is(m) \/ m \in provided
    BY <1>1, <2>1, <2>2
  <2>3. CASE m \in GroupNames /\ In(m)
    <3>1. flat[m] \subseteq flat[g]
      BY <2>3, NestedFlat
    <3> QED BY <1>1, <2>3, <3>1
  <2> QED BY <1>1, <1>2, <2>2, <2>3
<1>3. Upward(user, provided, all)
  BY <1>1, <1>2 DEF Upward, Is
<1>4. ASSUME NEW S \in SUBSET all, Upward(user, provided, S)
      PROVE  S = all
  <2>1. SUFFICES ASSUME NEW g \in GroupNames, In(g), g \notin S PROVE FALSE
    BY <1>1, <1>4 DEF Upward
  <2> DEFINE T == {m \in flat[g] : ~Is(m) /\ m \notin S}
  <2>2. \A h \in GroupNames : h \notin S => \A m \in groups[h] : ~Is(m) /\ m \notin S
    BY <1>4 DEF Upward, Is
  <2>3. Closed(g, T)
    <3>1. Closed(g, flat[g])
      BY DEF IsFlat, Flat
    <3> QED BY <2>1, <2>2, <3>1 DEF Closed
  <2>4. flat[g] \subseteq T
    BY <2>3 DEF IsFlat, Flat
  <2>5. provided \subseteq S
    BY <1>4 DEF Upward
  <2> QED BY <2>1, <2>4, <2>5
<1> QED BY <1>3, <1>4 DEF GroupsOfUser, all

(* For any groups, however they name each other, and whoever the           *)
(* authenticator adds: _flatten_groups ends with all members and no others, *)
(* and get_groups finds all groups of a user and no others.                *)
THEOREM GroupsAreComplete == GroupsSpec => []GroupsComplete
<1>1. Configured => GroupsComplete
  <2>1. SUFFICES ASSUME groups \in Configurations PROVE GroupsComplete
    BY DEF Configured
  <2>2. PICK order \in Seq(GroupNames) : order = GroupOrder /\ Range(order) = GroupNames
    BY GroupsAssumption, SetAsSequence DEF GroupOrder
  <2>3. PICK flat : flat = Flatten(groups, order)
    OBVIOUS
  <2>4. IsFlat(flat)
    BY <2>1, <2>2, <2>3, FlattenIsFlat DEF IsFlat
  <2>5. MembersComplete(flat)
    BY <2>4 DEF MembersComplete, IsFlat, Flat
  <2>6. \A user \in People, provided \in SUBSET (GroupNames \cup OtherGroups) :
          GroupsOfUser(flat, user, provided)
    BY <2>1, <2>4, FlatGroupsOfUser
  <2> QED BY <2>2, <2>3, <2>5, <2>6 DEF GroupsComplete
<1>2. GroupsInit => Configured
  BY DEF GroupsInit, Configured, Configurations
<1>3. Configured /\ [Regroup]_groups => Configured'
  BY DEF Regroup, MemberSets, Configured, Configurations
<1> QED BY <1>1, <1>2, <1>3, PTL DEF GroupsSpec
=============================================================================
