--------------------------- MODULE ExecutionHistory ---------------------------
(***************************************************************************)
(* The folder of execution logs and ExecutionLoggingService, which finds   *)
(* in it the history of executions.                                        *)
(*                                                                         *)
(* Requests are answered by the thread "io", which starts executions too;  *)
(* the thread "scheduler" starts those of the schedules, and "finisher"    *)
(* adds the exit code to the log of an execution that has ended. They      *)
(* share two caches without a lock. Somebody may delete old logs, and the  *)
(* server may crash. All executions start in one second: the date does not *)
(* tell their names apart.                                                 *)
(***************************************************************************)
EXTENDS Integers, FiniteSets, FiniteSetsExt, Functions

CONSTANTS
    Users,
    FullHistory,    \* users who may see the history of everybody
    Patterns,       \* sets of the variables "ID" and "USERNAME"
    MaxIds,         \* bound: executions, over all lives of the server
    MaxRequests,    \* bound
    MaxDeletes,     \* bound: logs deleted from outside
    MaxCrashes      \* bound

ASSUME HistoryAssumption == MaxIds \in Nat

VARIABLES
    pattern,    \* the variables in the pattern of log names
    files,      \* the folder: [names -> contents]
    visited,    \* _visited_files
    cache,      \* _ids_to_file_map
    nextId,     \* of the IdGenerator
    alive,      \* logged executions that have not ended
    at,         \* what each thread is at
    requests, deletes, crashes,
    due,        \* not in the code: executions the current list must have
    gone,       \* not in the code: names of logs deleted in this life
    shared      \* not in the code: names two executions of one life had

historyVars == <<pattern, files, visited, cache, nextId, alive, at,
                 requests, deletes, crashes, due, gone, shared>>
counters == <<requests, deletes, crashes>>

Threads == {"io", "scheduler", "finisher"}

Free == [pc |-> "free"]

(* LogNameCreator.create_filename *)
LogName(id, user) ==
    [id |-> IF "ID" \in pattern THEN id ELSE 0,
     user |-> IF "USERNAME" \in pattern THEN user ELSE "any"]

(* Mutant: a name that exists is not noticed. *)
PlainName(name) == <<name, 0>>

(* create_unique_filename *)
UniqueName(name) ==
    <<name, Min({n \in 0..Cardinality(DOMAIN files) : <<name, n>> \notin DOMAIN files})>>

(* A log whose header is not complete, or that is emptied to be rewritten *)
NoHeader == [id |-> 0]

(* _extract_history_entry, None for a log without the marker *)
Readable(f) == files[f] # NoHeader

Readables == {f \in DOMAIN files : Readable(f)}

(* _can_access_entry *)
CanAccess(user, content) == content.user = user \/ user \in FullHistory

(* Mutant: the ids go on from the number of the logs. *)
IdsByCount == Cardinality(Readables) + 1

(* IdGenerator *)
IdsFromHistory == Max({0} \cup {files[f].id : f \in Readables}) + 1

FoundFiles == [id \in {files[f].id : f \in Readables} |->
                  CHOOSE f \in Readables : files[f].id = id]

HistoryInit ==
    /\ pattern \in Patterns
    /\ files = <<>> /\ visited = {} /\ cache = <<>> /\ nextId = 1 /\ alive = {}
    /\ at = [t \in Threads |-> Free]
    /\ requests = 0 /\ deletes = 0 /\ crashes = 0
    /\ due = {} /\ gone = {} /\ shared = {}

(* dict[x] = v *)
With(f, x, v) == [y \in DOMAIN f \cup {x} |-> IF y = x THEN v ELSE f[y]]

(* The fields of two records *)
Join(r, q) == [x \in DOMAIN r \cup DOMAIN q |-> IF x \in DOMAIN r THEN r[x] ELSE q[x]]

(* What is found of an execution in its file *)
EntryOf(f) == Join([file |-> f], files[f])

Goes(t, step) == at' = [at EXCEPT ![t] = step]

-----------------------------------------------------------------------------
(* start_logging, by the thread that starts the script *)

(* The id is given, and the name chosen, in one step. *)
StartExecution(t, user, logged) ==
    /\ at[t] = Free /\ nextId <= MaxIds
    /\ nextId' = nextId + 1
    /\ LET f == UniqueName(LogName(nextId, user))
           again == f \in gone \/ \E o \in Threads : at[o].pc = "open" /\ at[o].file = f
       IN IF logged
          THEN /\ Goes(t, [pc |-> "open", id |-> nextId, user |-> user, file |-> f])
               /\ shared' = IF again THEN shared \cup {f} ELSE shared
          ELSE UNCHANGED <<at, shared>>
    /\ UNCHANGED <<pattern, files, visited, cache, alive, counters, due, gone>>

OpenLogFile(t) ==
    /\ at[t].pc = "open"
    /\ files' = With(files, at[t].file, NoHeader)
    /\ Goes(t, [at[t] EXCEPT !.pc = "header"])
    /\ UNCHANGED <<pattern, visited, cache, nextId, alive, counters, due, gone, shared>>

(* What is written to a deleted file is lost. *)
WriteHeader(t) ==
    /\ at[t].pc = "header"
    /\ files' = IF at[t].file \notin DOMAIN files THEN files
                ELSE [files EXCEPT ![at[t].file] = [id |-> at[t].id, user |-> at[t].user, code |-> 0]]
    /\ Goes(t, [at[t] EXCEPT !.pc = "register"])
    /\ UNCHANGED <<pattern, visited, cache, nextId, alive, counters, due, gone, shared>>

(* Mutant: the next look into the folder is to find the file. *)
MarkVisited(t) ==
    /\ at[t].pc = "register"
    /\ visited' = visited \cup {at[t].file}
    /\ alive' = alive \cup {at[t].id}
    /\ Goes(t, Free)
    /\ UNCHANGED <<pattern, files, cache, nextId, counters, due, gone, shared>>

RegisterLog(t) ==
    /\ at[t].pc = "register"
    /\ visited' = visited \cup {at[t].file}
    /\ cache' = With(cache, at[t].id, at[t].file)
    /\ alive' = alive \cup {at[t].id}
    /\ Goes(t, Free)
    /\ UNCHANGED <<pattern, files, nextId, counters, due, gone, shared>>

StartStep(t) == OpenLogFile(t) \/ WriteHeader(t) \/ RegisterLog(t)

-----------------------------------------------------------------------------
(* write_post_execution_info: the exit code of execution i is i here *)

(* A log without its header cannot be rewritten: the thread raises. *)
ReadToRewrite(id) ==
    /\ at["finisher"] = Free /\ id \in alive
    /\ alive' = alive \ {id}
    /\ LET f == IF id \in DOMAIN cache THEN cache[id] ELSE <<>> IN
       IF f \in Readables
       THEN Goes("finisher", [pc |-> "truncate", file |-> f,
                              new |-> [files[f] EXCEPT !.code = id]])
       ELSE UNCHANGED at
    /\ UNCHANGED <<pattern, files, visited, cache, nextId, counters, due, gone, shared>>

TruncateLog ==
    /\ at["finisher"].pc = "truncate"
    /\ LET run == at["finisher"] IN
       /\ files' = With(files, run.file, NoHeader)
       /\ due' = due \ {run.new.id}
       /\ Goes("finisher", [run EXCEPT !.pc = "write"])
    /\ UNCHANGED <<pattern, visited, cache, nextId, alive, counters, gone, shared>>

RewriteLog ==
    /\ at["finisher"].pc = "write"
    /\ LET run == at["finisher"] IN
       files' = IF run.file \in DOMAIN files THEN [files EXCEPT ![run.file] = run.new] ELSE files
    /\ Goes("finisher", Free)
    /\ UNCHANGED <<pattern, visited, cache, nextId, alive, counters, due, gone, shared>>

-----------------------------------------------------------------------------
(* _renew_files_cache, the first step of every query. Two of its loops, and *)
(* that of get_history_entries, go over the map: they raise when its size   *)
(* has changed since they began. A file that is gone when it is opened      *)
(* raises too. The request then fails.                                      *)

Renewing(request, next) ==
    Join(request, [pc |-> "obsolete", next |-> next, size |-> Cardinality(DOMAIN cache)])

SizeKept == Cardinality(DOMAIN cache) = at["io"].size

DropObsolete ==
    /\ at["io"].pc = "obsolete"
    /\ LET kept == {id \in DOMAIN cache : cache[id] \in DOMAIN files} IN
       IF SizeKept
       THEN /\ cache' = Restrict(cache, kept)
            /\ Goes("io", Join([at["io"] EXCEPT !.pc = "scan"], [todo |-> DOMAIN files \ visited]))
       ELSE Goes("io", Free) /\ UNCHANGED cache
    /\ UNCHANGED <<pattern, files, visited, nextId, alive, counters, due, gone, shared>>

ScanFile(f) ==
    /\ at["io"].pc = "scan" /\ f \in at["io"].todo
    /\ visited' = visited \cup {f}
    /\ LET fails == f \notin visited /\ f \notin DOMAIN files
           found == f \notin visited /\ f \in Readables
       IN /\ cache' = IF found THEN With(cache, files[f].id, f) ELSE cache
          /\ Goes("io", IF fails THEN Free ELSE [at["io"] EXCEPT !.todo = @ \ {f}])
    /\ UNCHANGED <<pattern, files, nextId, alive, counters, due, gone, shared>>

(* What follows depends on the query. *)
EndScan ==
    /\ at["io"].pc = "scan" /\ at["io"].todo = {}
    /\ LET run == at["io"] IN
       Goes("io", [run EXCEPT !.pc = run.next, !.size = Cardinality(DOMAIN cache),
                              !.todo = IF run.next = "list" THEN DOMAIN cache ELSE {}])
    /\ UNCHANGED <<pattern, files, visited, cache, nextId, alive, counters, due, gone, shared>>

Quietly == UNCHANGED <<pattern, files, visited, cache, nextId, alive, counters, gone, shared>>

-----------------------------------------------------------------------------
(* GetShortHistoryEntriesHandler, get_history_entries *)

AskForList(user) ==
    /\ at["io"] = Free /\ requests < MaxRequests
    /\ requests' = requests + 1
    /\ Goes("io", Renewing([user |-> user, entries |-> {}], "list"))
    /\ due' = {files[f].id : f \in {f \in Readables \ (shared \cup gone) :
                  CanAccess(user, files[f]) /\ \A t \in Threads : at[t].pc = "register" => at[t].file # f}}
    /\ UNCHANGED <<pattern, files, visited, cache, nextId, alive, deletes, crashes, gone, shared>>

ListEntry(id) ==
    /\ at["io"].pc = "list" /\ id \in at["io"].todo
    /\ LET run == at["io"]
           f == cache[id]
           shows == f \in Readables /\ CanAccess(run.user, files[f])
       IN Goes("io",
            IF ~SizeKept \/ f \notin DOMAIN files THEN Free
            ELSE [run EXCEPT !.todo = @ \ {id},
                             !.entries = IF shows THEN @ \cup {EntryOf(f)} ELSE @])
    /\ UNCHANGED due /\ Quietly

RespondList ==
    /\ at["io"].pc = "list" /\ at["io"].todo = {}
    /\ Goes("io", Free)
    /\ due' = {} /\ Quietly

-----------------------------------------------------------------------------
(* GetLongHistoryEntryHandler: find_history_entry and find_log *)

AskForLog(user, id) ==
    /\ at["io"] = Free /\ requests < MaxRequests
    /\ requests' = requests + 1
    /\ Goes("io", Renewing([user |-> user, id |-> id], "find"))
    /\ UNCHANGED <<pattern, files, visited, cache, nextId, alive, deletes, crashes, due, gone, shared>>

(* Mutant: whose execution it is is not asked. *)
FindAnyEntry ==
    /\ at["io"].pc = "find"
    /\ LET run == at["io"]
           f == IF run.id \in DOMAIN cache THEN cache[run.id] ELSE <<>>
       IN Goes("io", IF f \in Readables
                     THEN Renewing([user |-> run.user, id |-> run.id, entry |-> EntryOf(f)], "log")
                     ELSE Free)
    /\ UNCHANGED due /\ Quietly

(* An unknown id, a log without its header or somebody else's: no answer *)
FindEntry ==
    /\ at["io"].pc = "find"
    /\ LET run == at["io"]
           f == IF run.id \in DOMAIN cache THEN cache[run.id] ELSE <<>>
       IN Goes("io", IF f \in Readables /\ CanAccess(run.user, files[f])
                     THEN Renewing([user |-> run.user, id |-> run.id, entry |-> EntryOf(f)], "log")
                     ELSE Free)
    /\ UNCHANGED due /\ Quietly

(* The log may be gone by now; one without the marker raises. *)
FindLog ==
    /\ at["io"].pc = "log"
    /\ LET run == at["io"]
           known == run.id \in DOMAIN cache
           f == IF known THEN cache[run.id] ELSE <<>>
       IN Goes("io", IF known /\ f \notin Readables THEN Free
                     ELSE [pc |-> "answer", user |-> run.user, id |-> run.id, entry |-> run.entry,
                           log |-> IF known THEN EntryOf(f) ELSE NoHeader])
    /\ UNCHANGED due /\ Quietly

RespondLog ==
    /\ at["io"].pc = "answer"
    /\ Goes("io", Free)
    /\ UNCHANGED due /\ Quietly

RequestStep ==
    \/ DropObsolete \/ EndScan \/ RespondList \/ FindEntry \/ FindLog \/ RespondLog
    \/ \E f \in DOMAIN files \cup visited \cup gone : ScanFile(f)
    \/ \E id \in DOMAIN cache : ListEntry(id)

-----------------------------------------------------------------------------
DeleteLog(f) ==
    /\ deletes < MaxDeletes
    /\ deletes' = deletes + 1
    /\ files' = Restrict(files, DOMAIN files \ {f})
    /\ due' = due \ {files[f].id}
    /\ gone' = gone \cup {f}
    /\ UNCHANGED <<pattern, visited, cache, nextId, alive, at, requests, crashes, shared>>

(* The next server reads the folder before it does anything else. *)
Restart ==
    /\ crashes < MaxCrashes
    /\ crashes' = crashes + 1
    /\ visited' = DOMAIN files
    /\ cache' = FoundFiles
    /\ nextId' = IdsFromHistory
    /\ alive' = {} /\ at' = [t \in Threads |-> Free]
    /\ due' = {} /\ gone' = {}
    /\ UNCHANGED <<pattern, files, requests, deletes, shared>>

HistoryNext ==
    \/ \E t \in {"io", "scheduler"} :
          StartStep(t) \/ \E user \in Users, logged \in BOOLEAN : StartExecution(t, user, logged)
    \/ \E id \in alive : ReadToRewrite(id)
    \/ TruncateLog \/ RewriteLog
    \/ \E user \in Users : AskForList(user) \/ \E id \in 1..MaxIds : AskForLog(user, id)
    \/ RequestStep
    \/ \E f \in DOMAIN files : DeleteLog(f)
    \/ Restart

HistorySpec == HistoryInit /\ [][HistoryNext]_historyVars

-----------------------------------------------------------------------------
(* No id is on two logs, over restarts, crashes at any step and deletions. *)
IdsUnique == \A f, g \in Readables : files[f].id = files[g].id => f = g

(* What a user is shown of an execution, in a list or alone, is the user's *)
(* to see, and the log is that of the execution asked for: as long as no   *)
(* two executions had a file of one name.                                  *)
AnswersAreTheirs ==
    LET run == at["io"] IN
    /\ run.pc = "list" => \A e \in run.entries : CanAccess(run.user, e)
    /\ run.pc = "answer" =>
          \A part \in {run.entry, run.log} \ {NoHeader} :
              part.file \notin shared => part.id = run.id /\ CanAccess(run.user, part)

(* A list that is answered has every execution that the user may see and   *)
(* whose log was complete when the request came and ever since, whatever   *)
(* the other threads were at: unless its name was that of a log deleted in *)
(* this life, which the server may have visited already.                   *)
NothingMissing ==
    at["io"].pc = "list" /\ at["io"].todo = {} => due \subseteq {e.id : e \in at["io"].entries}

(* An exit code gets into the log of its own execution.                    *)
CodesAreTheirs == \A f \in Readables \ shared : files[f].code \in {0, files[f].id}

(* An id leads to the log of its execution, for those who ask and for what *)
(* is written at its end.                                                  *)
LogsAreTheirs == IdsUnique /\ AnswersAreTheirs /\ CodesAreTheirs
===============================================================================
