------------------------------ MODULE GiteaImport ------------------------------
(***************************************************************************)
(* Import from Gitea (scripts/import_from_gitea.py): the files of a        *)
(* repository are copied to the server, and those that it does not have    *)
(* any more are removed. A file of state remembers which files came from   *)
(* which repository. An import is a run of a script: it can be killed, and *)
(* two can run at one time.                                                *)
(*                                                                         *)
(* The two folders of a repository, scripts and runners, are taken alike,  *)
(* one after the other; the model has one folder.                          *)
(***************************************************************************)
EXTENDS Integers

CONSTANTS
    Sources,     \* repositories
    ScriptFiles, \* names of files
    ByHand,      \* the files somebody put on the server
    Imports,     \* processes that import
    MaxPushes,   \* bound: changes of the repositories
    MaxImports,  \* bound
    MaxStops     \* bound: imports that are killed

\* What the model calls the other owners of a file is not a repository.
ASSUME SourcesAssumption == "hand" \notin Sources /\ "nobody" \notin Sources

VARIABLES
    upstream,    \* [Sources -> SUBSET ScriptFiles]
    folder,      \* who put a file on the server: "hand", a source or "nobody"
    tracked,     \* gitea_import_state.json: [Sources -> SUBSET ScriptFiles]
    import,      \* what each process is at
    changes, imports, stops,
    placed,      \* not in the code: the files a source has ever copied
    disturbed    \* not in the code: an import was killed, or two overlapped

importVars == <<upstream, folder, tracked, import, changes, imports, stops, placed, disturbed>>

NoImport == [pc |-> "idle"]

ImportInit ==
    /\ upstream \in [Sources -> SUBSET ScriptFiles]
    /\ folder = [f \in ScriptFiles |-> IF f \in ByHand THEN "hand" ELSE "nobody"]
    /\ tracked = [s \in Sources |-> {}]
    /\ import = [p \in Imports |-> NoImport]
    /\ changes = 0 /\ imports = 0 /\ stops = 0
    /\ placed = [s \in Sources |-> {}]
    /\ disturbed = FALSE

At(p, step) == import' = [import EXCEPT ![p] = step]

(* git push *)
PushFiles(s, files) ==
    /\ changes < MaxPushes /\ files # upstream[s]
    /\ upstream' = [upstream EXCEPT ![s] = files]
    /\ changes' = changes + 1
    /\ UNCHANGED <<folder, tracked, import, imports, stops, placed, disturbed>>

(* load_state *)
StartImport(p, s, apply) ==
    /\ import[p] = NoImport /\ imports < MaxImports
    /\ imports' = imports + 1
    /\ At(p, [pc |-> "clone", source |-> s, apply |-> apply, state |-> tracked])
    /\ disturbed' = (disturbed \/ \E q \in Imports : import[q] # NoImport)
    /\ UNCHANGED <<upstream, folder, tracked, changes, stops, placed>>

(* Mutant: whatever the repository does not have is stale. *)
StaleInFolder(run) == {f \in ScriptFiles : folder[f] # "nobody"}

(* previous_files *)
Previous(run) == run.state[run.source]

CloneFails(p) ==
    /\ import[p].pc = "clone"
    /\ At(p, NoImport)
    /\ UNCHANGED <<upstream, folder, tracked, changes, imports, stops, placed, disturbed>>

(* clone_repo; a dry run ends here *)
Clone(p) ==
    /\ import[p].pc = "clone"
    /\ LET run == import[p]  current == upstream[run.source] IN
       At(p, IF ~run.apply THEN NoImport
             ELSE [pc |-> "sync", source |-> run.source, state |-> run.state, current |-> current,
                   copies |-> current, stale |-> Previous(run) \ current])
    /\ UNCHANGED <<upstream, folder, tracked, changes, imports, stops, placed, disturbed>>

(* sync_category: the files of the repository, then the stale ones *)
CopyFile(p, f) ==
    /\ import[p].pc = "sync" /\ f \in import[p].copies
    /\ folder' = [folder EXCEPT ![f] = import[p].source]
    /\ placed' = [placed EXCEPT ![import[p].source] = @ \cup {f}]
    /\ At(p, [import[p] EXCEPT !.copies = @ \ {f}])
    /\ UNCHANGED <<upstream, tracked, changes, imports, stops, disturbed>>

RemoveFile(p, f) ==
    /\ import[p].pc = "sync" /\ import[p].copies = {} /\ f \in import[p].stale
    /\ folder' = [folder EXCEPT ![f] = "nobody"]
    /\ At(p, [import[p] EXCEPT !.stale = @ \ {f}])
    /\ UNCHANGED <<upstream, tracked, changes, imports, stops, placed, disturbed>>

(* Mutant: only the files that are new are remembered. *)
SaveNewFiles(p) ==
    LET run == import[p] IN
    /\ run.pc = "sync" /\ run.copies = {} /\ run.stale = {}
    /\ tracked' = [run.state EXCEPT ![run.source] = run.current \ @]
    /\ At(p, NoImport)
    /\ UNCHANGED <<upstream, folder, changes, imports, stops, placed, disturbed>>

(* save_state replaces the whole file by the one the import began with but *)
(* for its own source.                                                     *)
SaveState(p) ==
    LET run == import[p] IN
    /\ run.pc = "sync" /\ run.copies = {} /\ run.stale = {}
    /\ tracked' = [run.state EXCEPT ![run.source] = run.current]
    /\ At(p, NoImport)
    /\ UNCHANGED <<upstream, folder, changes, imports, stops, placed, disturbed>>

KillImport(p) ==
    /\ import[p] # NoImport /\ stops < MaxStops
    /\ At(p, NoImport)
    /\ stops' = stops + 1
    /\ disturbed' = (disturbed \/ import[p].pc = "sync")
    /\ UNCHANGED <<upstream, folder, tracked, changes, imports, placed>>

ImportNext ==
    \/ \E s \in Sources, files \in SUBSET ScriptFiles : PushFiles(s, files)
    \/ \E p \in Imports :
          \/ \E s \in Sources, apply \in BOOLEAN : StartImport(p, s, apply)
          \/ CloneFails(p) \/ Clone(p) \/ SaveState(p) \/ KillImport(p)
          \/ \E f \in ScriptFiles : CopyFile(p, f) \/ RemoveFile(p, f)

ImportSpec == ImportInit /\ [][ImportNext]_importVars

-----------------------------------------------------------------------------
(* Only files that this very source has put on the server are ever         *)
(* removed, whatever imports were killed or overlapped.                    *)
OnlyOwnRemoved ==
    [][\A f \in ScriptFiles :
          folder[f] # "nobody" /\ folder'[f] = "nobody" =>
              \E p \in Imports : import[p] # NoImport /\ f \in placed[import[p].source]]_importVars

(* Every file that came from a source is remembered as its file, so that   *)
(* an import removes it when the source does: unless an import was killed  *)
(* while it copied, or two imports overlapped.                             *)
Remembered ==
    ~disturbed /\ (\A p \in Imports : import[p] = NoImport) =>
        \A s \in Sources : {f \in ScriptFiles : folder[f] = s} \subseteq tracked[s]
================================================================================
