----------------------------- MODULE SecretsStore -----------------------------
(***************************************************************************)
(* The secrets of the bundled scripts (scripts/shared/secrets_store.py):   *)
(* one file of values, which runs of Secrets Manager read and replace as a *)
(* whole, and one of placeholders, where a script that misses a secret     *)
(* leaves its name. Every run is a process of its own; there is no lock.   *)
(*                                                                         *)
(* A secret stands for a product and a key. A file is replaced by renaming *)
(* a temporary one: all managers use one temporary file, by its name; each *)
(* script has its own.                                                     *)
(***************************************************************************)
EXTENDS Integers, Sequences

CONSTANTS
    Secrets,    \* product and key
    Defaults,   \* those of conf/secrets_defaults.json
    Managers,   \* processes that run Secrets Manager
    Scripts,    \* processes that ask for a secret
    Wanted,     \* [Scripts -> Secrets]: the secret a script asks for
    Values,     \* bound: values
    Notes,      \* bound: descriptions, "" for none
    MaxRuns,    \* bound: runs of Secrets Manager
    MaxKills    \* bound: runs that are killed

\* The mark of a file that cannot be parsed is not a secret, and a script asks
\* for one.
ASSUME SecretsAssumption == "torn" \notin Secrets /\ Wanted \in [Scripts -> Secrets]

VARIABLES
    inodes,     \* contents of the files that were ever opened as temporary
    store,      \* the inode of secrets.json, 0 if there is none
    tmp,        \* the inode of secrets.json.tmp, 0 if there is none
    discovered, \* secrets_discovered.json: [Secrets -> who asked]
    manager,    \* what each manager is at
    script,     \* what each script is at
    runs, kills,
    intended,   \* not in the code: what the runs would lead to one by one
    raced       \* not in the code: two managers have run at one time

secretsVars == <<inodes, store, tmp, discovered, manager, script, runs, kills, intended, raced>>

Unset == [value |-> "", note |-> ""]

NoSecrets == [s \in Secrets |-> Unset]

Torn == [torn |-> TRUE]

Idle == [pc |-> "idle"]

SecretsInit ==
    /\ inodes = <<>> /\ store = 0 /\ tmp = 0
    /\ discovered = [s \in Secrets |-> {}]
    /\ manager = [m \in Managers |-> Idle]
    /\ script = [p \in Scripts |-> Idle]
    /\ runs = 0 /\ kills = 0
    /\ intended = NoSecrets /\ raced = FALSE

-----------------------------------------------------------------------------
(* load_store: a file that cannot be parsed counts as an empty one. *)
Loaded == IF store = 0 \/ inodes[store] = Torn THEN NoSecrets ELSE inodes[store]

Has(secrets, s) == secrets[s] # Unset

Asked == {s \in Secrets : discovered[s] # {}}

(* list_known_placeholders *)
Placeholders == {s \in Defaults \cup Asked : ~Has(Loaded, s)}

(* list_entries_metadata, with the placeholders the entries of the dropdown *)
Entries == {s \in Secrets : Has(Loaded, s)} \cup Placeholders

(* Mutant: an update without a description clears it. *)
WithNewNote(secrets, run) == [secrets EXCEPT ![run.secret] = [value |-> run.value, note |-> run.note]]

(* set_secret *)
WithValue(secrets, run) ==
    [secrets EXCEPT ![run.secret] =
        [value |-> run.value, note |-> IF run.note = "" THEN @.note ELSE run.note]]

(* delete_secret *)
Without(secrets, s) == [secrets EXCEPT ![s] = Unset]

Busy == {m \in Managers : manager[m] # Idle}

AtManager(m, run) == manager' = [manager EXCEPT ![m] = run]

-----------------------------------------------------------------------------
(* A run of Secrets Manager, for an entry of the dropdown or a new one *)

StartRun(m, action, s, value, note) ==
    /\ manager[m] = Idle /\ runs < MaxRuns
    /\ action = "delete" => value = "" /\ note = ""
    /\ action = "set" => value # ""
    /\ AtManager(m, [pc |-> "load", action |-> action, secret |-> s, value |-> value, note |-> note,
                     new |-> NoSecrets, file |-> 0])
    /\ runs' = runs + 1
    /\ raced' = (raced \/ Busy # {})
    /\ UNCHANGED <<inodes, store, tmp, discovered, script, kills, intended>>

(* A run that deletes a secret that is not set looks for a placeholder. *)
LoadStore(m) ==
    /\ manager[m].pc = "load"
    /\ LET run == manager[m] IN
       IF run.action = "set"
       THEN AtManager(m, [run EXCEPT !.pc = "open", !.new = WithValue(Loaded, run)])
       ELSE IF Has(Loaded, run.secret)
       THEN AtManager(m, [run EXCEPT !.pc = "open", !.new = Without(Loaded, run.secret)])
       ELSE AtManager(m, [run EXCEPT !.pc = "placeholder"])
    /\ UNCHANGED <<inodes, store, tmp, discovered, script, runs, kills, intended, raced>>

(* Mutant: save_store writes into the file itself. *)
OpenStore(m) ==
    /\ manager[m].pc = "open"
    /\ inodes' = IF store = 0 THEN Append(inodes, Torn) ELSE [inodes EXCEPT ![store] = Torn]
    /\ store' = IF store = 0 THEN Len(inodes') ELSE store
    /\ tmp' = store'
    /\ AtManager(m, [manager[m] EXCEPT !.pc = "write", !.file = store'])
    /\ UNCHANGED <<discovered, script, runs, kills, intended, raced>>

(* save_store: open(tmp_path, 'w') makes the file or empties it. *)
OpenTmp(m) ==
    /\ manager[m].pc = "open"
    /\ inodes' = IF tmp = 0 THEN Append(inodes, Torn) ELSE [inodes EXCEPT ![tmp] = Torn]
    /\ tmp' = IF tmp = 0 THEN Len(inodes') ELSE tmp
    /\ AtManager(m, [manager[m] EXCEPT !.pc = "write", !.file = tmp'])
    /\ UNCHANGED <<store, discovered, script, runs, kills, intended, raced>>

(* What is written over a longer text leaves the rest of it. *)
WriteTmp(m) ==
    /\ manager[m].pc = "write"
    /\ LET f == manager[m].file IN
       \/ inodes' = [inodes EXCEPT ![f] = manager[m].new]
       \/ inodes[f] # Torn /\ inodes' = [inodes EXCEPT ![f] = Torn]
    /\ AtManager(m, [manager[m] EXCEPT !.pc = "replace"])
    /\ UNCHANGED <<store, tmp, discovered, script, runs, kills, intended, raced>>

(* os.replace, which fails if another run has moved the file away. *)
Replace(m) ==
    /\ manager[m].pc = "replace"
    /\ LET run == manager[m] IN
       IF tmp = 0 THEN UNCHANGED <<store, tmp, intended>>
       ELSE /\ store' = tmp /\ tmp' = 0
            /\ intended' = IF run.action = "set" THEN WithValue(intended, run)
                           ELSE Without(intended, run.secret)
    /\ AtManager(m, Idle)
    /\ UNCHANGED <<inodes, discovered, script, runs, kills, raced>>

(* remove_placeholder *)
ReadPlaceholder(m) ==
    /\ manager[m].pc = "placeholder"
    /\ LET run == manager[m] IN
       AtManager(m, IF discovered[run.secret] = {} THEN Idle
                    ELSE [run EXCEPT !.pc = "forget", !.new = [discovered EXCEPT ![run.secret] = {}]])
    /\ UNCHANGED <<inodes, store, tmp, discovered, script, runs, kills, intended, raced>>

RemovePlaceholder(m) ==
    /\ manager[m].pc = "forget"
    /\ discovered' = manager[m].new
    /\ AtManager(m, Idle)
    /\ UNCHANGED <<inodes, store, tmp, script, runs, kills, intended, raced>>

Kill(m) ==
    /\ manager[m] # Idle /\ kills < MaxKills
    /\ AtManager(m, Idle)
    /\ kills' = kills + 1
    /\ UNCHANGED <<inodes, store, tmp, discovered, script, runs, intended, raced>>

-----------------------------------------------------------------------------
(* A script that asks for a secret: get_secret and, if it is not set,      *)
(* register_placeholder                                                    *)

(* Mutant: the file has the placeholder of the last script alone. *)
SaveAlone(p) ==
    /\ script[p].pc = "save"
    /\ discovered' = [s \in Secrets |-> IF s = Wanted[p] THEN {p} ELSE {}]
    /\ script' = [script EXCEPT ![p] = Idle]
    /\ UNCHANGED <<inodes, store, tmp, manager, runs, kills, intended, raced>>

GetSecret(p) ==
    /\ script[p] = Idle
    /\ ~Has(Loaded, Wanted[p])
    /\ script' = [script EXCEPT ![p] = [pc |-> "missed"]]
    /\ UNCHANGED <<inodes, store, tmp, discovered, manager, runs, kills, intended, raced>>

(* It writes only what is new. *)
LoadDiscovered(p) ==
    /\ script[p].pc = "missed"
    /\ script' = [script EXCEPT ![p] =
         IF p \in discovered[Wanted[p]] THEN Idle
         ELSE [pc |-> "save", new |-> [discovered EXCEPT ![Wanted[p]] = @ \cup {p}]]]
    /\ UNCHANGED <<inodes, store, tmp, discovered, manager, runs, kills, intended, raced>>

SaveDiscovered(p) ==
    /\ script[p].pc = "save"
    /\ discovered' = script[p].new
    /\ script' = [script EXCEPT ![p] = Idle]
    /\ UNCHANGED <<inodes, store, tmp, manager, runs, kills, intended, raced>>

-----------------------------------------------------------------------------
ManagerStep(m) ==
    \/ LoadStore(m) \/ OpenTmp(m) \/ WriteTmp(m) \/ Replace(m)
    \/ ReadPlaceholder(m) \/ RemovePlaceholder(m)

ScriptRun(p) == GetSecret(p) \/ LoadDiscovered(p) \/ SaveDiscovered(p)

SecretsNext ==
    \/ \E m \in Managers :
          \/ \E action \in {"set", "delete"}, s \in Secrets, value \in Values \cup {""}, note \in Notes :
                StartRun(m, action, s, value, note)
          \/ ManagerStep(m) \/ Kill(m)
    \/ \E p \in Scripts : ScriptRun(p)

SecretsSpec == SecretsInit /\ [][SecretsNext]_secretsVars

-----------------------------------------------------------------------------
(* As long as no two runs of Secrets Manager overlapped, the file has what *)
(* all runs that ended lead to one after another, and it can be read: also *)
(* when runs were killed between any two steps.                            *)
RunsAddUp == ~raced => Loaded = intended /\ (store # 0 => inodes[store] # Torn)

(* An update of a value never wipes out a description, even when runs      *)
(* overlap, unless the store was taken for an empty one.                   *)
NoteSurvives ==
    [][\A m \in Managers :
          manager[m].pc = "load" /\ manager'[m].pc = "open" /\ manager[m].action = "set"
              => LET s == manager[m].secret IN
                 Loaded[s].note # "" => manager'[m].new[s].note # ""]_secretsVars

(* The secret that a script keeps asking for ends up among the entries an  *)
(* administrator can pick, although scripts overwrite each other's         *)
(* placeholders and a manager may remove one.                              *)
AskedIsListed == \A p \in Scripts : <>[](Wanted[p] \in Entries)
===============================================================================
