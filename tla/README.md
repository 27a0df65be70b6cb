# A TLA+ model of script-server

script-server is a Tornado server that shows command line scripts as web pages,
runs them for its users, streams their output to the browser, writes it to log
files, and runs scripts on a schedule. This directory holds a formal model of
it: TLA+ modules translated from the source, TLC configurations that check them
on small instances, and proofs that TLAPS checks for every value of the
constants. Paths below are those of the repository (`src/` is the Python
server, `web-src/src/` the Vue frontend, `scripts/` the scripts that come with
the image); file names without a folder are those of the server.

- [The system](#the-system): inventory, and what makes each part correct
- [The modules](#the-modules): which module stands for which code
- [The runs](#the-runs): what is checked, the bounds, the fairness
- [The proofs](#the-proofs)
- [What the code does against its own word](#what-the-code-does-against-its-own-word)
- [Not modelled](#not-modelled)
- [The plan](#the-plan)

## The system

Four kinds of threads meet in the server: the **IOLoop thread**, which runs
every HTTP and websocket handler, one at a time between two awaits; the one
**scheduler thread**, which starts scheduled scripts; per execution, a **reader
thread** (`ProcessWrapper.pipe_process_output`), a **notify thread**
(`notify_finished`) and a **flush thread** (`_TimeBufferedPipe.flush_buffer`);
per open page a **worker**, which loads its script and sets its values; and small
timers (OAuth refresh and dump, cleaning of folders). The bundled scripts are
**processes** that share files. There are hardly any locks. Most of what can go
wrong is an order of their steps, or a crash between two of them.

| Component | State | Operations, and with whom it interacts | Hard behaviour | What makes it correct |
| --- | --- | --- | --- | --- |
| Execution service, executor (`execution/execution_service.py`, `executor.py`) | `_executors`, `_execution_infos`, `_active_executor_ids`; the listeners of the service | start (IOLoop or scheduler), stop, kill, cleanup, add_finish_listener; builds the command; calls the process wrapper, the features | two threads change the collections; listeners run in any of four threads | an active id has its executor and info; every listener registered in time is called once, after the end; cleanup only after the end; the script gets what was accepted, and no secret is shown |
| Process wrappers (`process_base.py`, `process_popen.py`, `process_pty.py`) | the process, its output stream, `finish_listeners` | start, stop, kill, write; reader and notify threads | check then append without a lock; the pseudo terminal is polled; children hold the pipe | the stream closes after the process and always in the end; no output lost; characters whole |
| Observable streams (`react/observable.py`) | observers, chunks, `closed` | push, close, dispose, subscribe, read_until_closed | a subscriber joins while the producer pushes; two threads close | each chunk once, in order, and then one end |
| Execution logging and history (`execution/logging.py`) | one log file per execution, the writer's `closed` and callback; the caches of visited files and of ids | logging from the start of an execution; exit code appended at its end; lists and entries of the history | the end of the process and that of the stream come in any order, in two threads, and the file is rewritten; two threads share the caches; logs are deleted by hand | the output stays, the exit code gets in; ids are unique; a list has all the user may see, and nothing else |
| Finish features (`features/*.py`) | files to download per execution | listeners on start and finish of executions, reading the whole output | wait for the output to be closed, in whatever thread calls them | a failure is alerted; the IOLoop never waits for ever |
| Scheduling (`scheduling/*.py`) | jobs, one file each; the `sched` queue; the id generator | create (IOLoop), execute and reschedule (scheduler thread), restore (start), delete (outside) | two threads and the disk; crash between run and save; failing scripts | a job is in flight once, none is forgotten, none runs after its end or twice for an occurrence |
| Schedule arithmetic (`schedule_config.py`) | none | `get_next_time` | lengths of months, lists of weekdays, a first guess that must not overshoot | it returns the first occurrence that is not in the past |
| Web handlers and sockets (`web/server.py`) | the open sockets | one request or event at a time; call all of the above | sockets opened after the end | the output socket is closed when the execution has ended |
| Script page: socket, config model and stores (`web/script_config_socket.py`, `model/script_config.py`, `model/parameter_config.py`, `scriptConfig.js`, `scriptSetup.js`) | the parameters and values of one page, on both sides, and a version | values, reloads, connections lost and opened again; a worker thread per page | values that choose options and included files of others; a reload while a value is being set; events about an older state | both sides agree when nothing is in flight; the included file is the one the values choose; nothing waits for ever |
| Config service (`config/config_service.py`) | JSON files and script files | create, change, remove, load | two files saved one after the other, each truncated first; other threads load | one script for a name, changed by its administrators only; a config comes after its script |
| Migrations (`migrations/migrate.py`) | the files of an older version, `temp/migrations.txt` | seven rewritings at every start | interrupted at any step, or the record lost | a config means what its author meant; the server comes up |
| OAuth (`auth/auth_abstract_oauth.py`, `oauth_token_manager.py`, `tornado_auth.py`) | users, tokens, groups, a dump file, cookies | login, validate, refresh, logout, dump, restore | coroutines of one user interleave at their awaits | nobody is signed out without a reason; what the provider says gets through |
| Authorization (`auth/authorization.py`) | groups and lists of users | membership of nested groups | cyclic groups | a user is in a group iff there is a path |
| Streaming form reader (`web/streaming_form_reader.py`) | the parser's buffer | chunks of a body | separators and characters cut by chunks | the form read is the form sent |
| Bundled scripts: secrets (`scripts/shared/secrets_store.py`, `secrets_manager.py`) | two JSON files | set, remove, ask for a secret; each run a process | runs overlap or are killed | the store is what its runs add up to; what is asked for is listed |
| Bundled scripts: import from Gitea (`scripts/import_from_gitea.py`) | the imported files, a file of state | copy, remove what the source has dropped | imports overlap or are killed | an import removes the files its own source dropped, and no others |
| User files (`files/`) | folders per user | prepare, allow, clean | a timer that ends at the first error | folders in use stay |
| Password authenticators, providers, identification, communications, server configuration | cookies, files read at the start | one request | | (network input, digests, parsing) |
| Frontend executors (`scriptExecutor.js`, `scriptExecutionManager.js`) | one store module per execution, a websocket, timers | start, reconnect, stop, kill, cleanup | answers that come after a later state change | one module per execution; a finished execution is cleaned up |
| Frontend terminal, pages, admin application, build | lines, cursor | | | (rendering and forms) |

`PROJECT.json` lists each of them with its sources under "components", and under
"hazards" the forty places in this code where an order of steps, a fault or a
boundary bites most, each with the properties below that watch it. What else was
seen is told at [the end](#what-the-code-does-against-its-own-word).

## The modules

| Module | Models | Used by |
| --- | --- | --- |
| `ExecutionLifecycle` | `execution_service.py`, `executor.py`, `process_base.py`, the features' listeners, the handlers that start, stop, kill, clean up and watch an execution | `MCExecutionLifecycle`, `ExecutionLifecycle_proofs` |
| `ReplayStream` | `Observable`, `ReplayObservable`, `read_until_closed` | `MCOutput`, `Output_proofs` |
| `PtyReader` | `PtyProcessWrapper.pipe_process_output` for one script | `MCOutput`, `Output_proofs` |
| `ScheduleConfig`, `NextTimes` | `schedule_config.get_next_time` and its helpers; what "the next occurrence" means; a clock that asks for it | `MCStartRequest`, `MCScheduleService` |
| `ScheduleService` | `schedule_service.py`, `scheduler.py`, `scheduling_job.py`, `file_utils.write_file` | `MCScheduleService` (with the times of `ScheduleConfig`), `ScheduleService_proofs` |
| `ExecutionLog` | `ScriptOutputLogger`, `ExecutionLoggingController` and `write_post_execution_info` of `logging.py`, for one execution | `MCKeptFiles`, `KeptFiles_proofs` |
| `ExecutionHistory` | `ExecutionLoggingService`, `LogNameCreator`, `IdGenerator`, the history handlers, over a folder of logs | `MCKeptFiles`, `ExecutionHistory_proofs` |
| `OAuthSessions` | `auth_abstract_oauth.py`, `oauth_token_manager.py`, `oauth_token_response.py`, what `tornado_auth.py` and `web_auth_utils.py` do with their answers | a run of its own, `OAuthSessions_proofs` |
| `ScriptConfigModel` | `ConfigModel`, the list parameters, `ObservableDict` and `ObservableList`, the template of the included file | `ScriptConfigSocket` |
| `ScriptConfigSocket` | `script_config_socket.py` and the stores `scriptConfig.js`, `scriptSetup.js` | `MCScriptConfigSocket`, `MainPage_proofs` |
| `Authorization`, `UserGroups` | `authorization.py`; what it means to be in a group | `ConfigService`, `MCStartRequest`, `ConfigFolder_proofs` |
| `ScriptRegistry` | the abstract specification: scripts by name, with administrators | `ConfigService` (refinement) |
| `ConfigService` | `config_service.py`, `read_short`, `create_unique_filename`, `write_file`, the admin handlers | `MCConfigFolder`, `ConfigFolder_proofs` |
| `Migrations` | `migrate.py` and its call in `main.py` | `MCConfigFolder`, `ConfigFolder_proofs` |
| `FormReader` | `streaming_form_reader.py` | `MCStartRequest` |
| `ScriptArguments` | `normalize_user_value`, `validate_value`, `create_value_wrapper`, the value mapper; `build_command_args`, `_build_env_variables`, `send_stdin_parameters`, the masking, of `executor.py` | `MCStartRequest`, `KeptFiles_proofs` |
| `StdinListener` | `_ExpectedTextListener` of `executor.py` | `MCStartRequest`, `KeptFiles_proofs` |
| `SecretsStore` | `secrets_store.py`, `secrets_manager.py` | `MCKeptFiles`, `KeptFiles_proofs` |
| `GiteaImport` | `import_from_gitea.py` | `MCKeptFiles`, `KeptFiles_proofs` |
| `TabExecutors` | `scriptExecutor.js`, `scriptExecutionManager.js`, the buttons and the watcher of `script-view.vue`, `ExecutionInstanceTabs.vue`; the handlers of `server.py` that they ask | `MCStartRequest`, `MainPage_proofs` |

### ExecutionLifecycle

A thread is `Main` (the IOLoop), `Sched`, or an execution id, which stands for
the notify thread of that execution. A thread has a base operation `op[t]` and
above it at most one listener `frame[t]`: `ProcessWrapper.add_finish_listener`
*runs* the listener in the caller's thread if the process is over already, which
is how an HTTP handler comes to wait for the output of a script.

| Model | Code |
| --- | --- |
| `proc`, `code` | `process.poll()`, the return code |
| `child` | a grandchild that still holds the output pipe |
| `executors`, `infos`, `active` | `_executors`, `_execution_infos`, `_active_executor_ids` |
| `listeners`, `next`, `notified` | `finish_listeners`, the position of the `for` of `notify_finished`, its end |
| `srcClosed`, `rawClosed`, `drained`, `failed` | `output_stream.closed`, `raw_output_stream.closed`, the reader is over, or ended by an exception |
| `early`, `fired`, `logged`, `effects` | history variables: what had been registered when the script ended, what was called, what it achieved |
| `StartProcess` ... `AddAutoCleanup` | `start_script` line by line: the process, the three assignments, the start listeners, the post finish handling, the scheduler's auto cleanup |
| `StopScript`, `Terminate`, `AddKillChildren`, `KillScript`, `Sigkill` | `stop_script`, `kill_script`, `process_base.stop` and `kill` |
| `CleanupExecution`, `RemoveActive` | `cleanup_execution`: dispose of the output, then remove the id |
| `StartRaises` | `ScriptExecutor.start` raises when the process runs: no collection gets to know the execution |
| `ReaderEnds`, `ReaderFails` | the end of `pipe_process_output`, and its `except` branch, which kills the process's group and closes the stream without waiting for the end |
| `CheckFinished`, `AppendListener` | the check and the append of `add_finish_listener`, two steps |
| `NotifyNext`, `NotifyEnd` | one turn of `notify_finished` and its end |
| `RunDownload` ... `EndCleanup` | the listeners themselves, waits included |

### ReplayStream

One step per access to shared state: `push` (append to the chunks, then one step per
observer), `close` (check and set the flag and wake the readers, under the lock, then
one step per observer, then `del observers[:]`), `dispose` (close and clear),
`subscribe` (replay chunk by chunk, then check the flag, then append), `wait_close`.
`log` is what each observer was called with. Who pushes and closes is a constant, since
the class is used in two ways: the output stream of a process has two producers (the
reader, and the IOLoop that echoes input) and a cleaner, the raw and protected pipes
have one flush thread.

### ScheduleConfig

Instants are minutes. `NextTime` has the same first guess
(`InitialMultiplier`), the same loop with its limit (`MaxIterations`, after which
the code raises; no bound here comes near it) and the same
arithmetic of months and weekdays as the code. `IsNext` is written from the
meaning of a schedule alone: an occurrence, not in the past, with none between.

### ScheduleService

A job's file is written in two steps, as `write_file` does it (`open(.., 'w')`
truncates, `write` fills), the event of the queue holds id and due time, and
each of the two threads has a program counter: after taking an event the
scheduler thread looks for the file, starts the script, saves the count, and
schedules again whatever became of the `try`. A start may fail before anything runs
(`StartFails`), or raise when the script runs already (`StartRaises`): that execution
is not counted. `Crash` stops the server between any
two steps; `Restart` reads the files, works out the last id, and restores one
job after another. `DeleteFile` is the administrator's way to cancel a job.
`runs` is a history variable: the due times executed, per job.

### ExecutionLog

One execution: the main thread starts the logging and then adds the finish listener, by
an unlocked check and append (`Attach`, `AppendListener`); the flush thread pushes
chunks and closes the stream; the notify thread goes through the list of listeners once,
after the end of the process (`Notify`). Who runs the listener sets the close callback,
it or the flush thread may find that it has to call it, and the callback reads the file,
truncates it and writes it again with the exit code. A chunk is a number; the file is a
header flag, the chunks and the number of exit codes. Numbers, and so the order of the
output, are kept by every step. `missed` is a history variable: the notify thread went
through the list when the main thread stood between the check and the append.

### PtyReader

The script writes bytes to the terminal, of three kinds only (ASCII, a carriage
return, 127 and above, which is what the code tells apart); the reader's loop
reads, looks for more, looks at the end of the process, and cuts a character at
the end of a chunk into the buffer for the next round, step by step. `rounds` is what
`decode` was given, `refused` the rounds in which it raised, so that the chunk is dropped
(`process_pty.py:122`): never in utf-8, where `decode` replaces what it cannot read,
and in another encoding for a chunk with a byte from 127 on.

### ExecutionHistory

Three threads: `io` answers requests (a listing, an entry, a log) and starts
executions, `scheduler` starts executions, `finisher` adds exit codes. Each has a
program counter over the steps that touch the folder or one of the two caches
(`visited`, `cache`): the new id, the choice of a free name, the opening of the
file, the header, the registration; and, on the other side, the walk over the
cache, the walk over the folder file by file, and the reading of each entry. A
walk over the map while it changes size raises `RuntimeError` in the code: the
request fails and nothing is answered. A log name is the pattern's variables, so
that names can meet; all executions start in one second, so that the date tells
no names apart; choosing the id and the name is one step. `due`, `gone` and
`shared` are history variables: a list owes (`due`) the logs that were complete when it was
asked for, but for the names of logs deleted in this life of the server (`gone`), and
answers are compared with whose log it is but for names that two executions had
(`shared`).

### OAuthSessions

The code between two awaits is one action; requests (`req`), refreshes and checks
are at most `MaxWork` coroutines, each at one of its awaits. A token is the number
of the provider's response it came with. `states` are the `_UserState` objects,
which a coroutine may still hold when `users` has another one. The user has one or more
browsers, each with its own cookies, and may sign in while he is signed in, in any of
them: `authenticate` puts a state without a last visit and without groups in the place
of the one he has, and only then awaits the groups. The cookies of a
response reach the browser with it, and a websocket request cannot set any.
`excused` collects the reasons for which a session may end: the provider said no,
or failed, the user signed out or signed in once more, the tokens expired unused, the
server was restarted. An `AuthFailureError` of a refresh removes the user
(`NotRefreshed`); a provider that cannot be reached does not, but no refresh is
scheduled any more (`RefreshLost`, `NotReached`).

### ScriptConfigModel, ScriptConfigSocket

A value that is set runs a chain of observers: the values of dependent parameters,
the included file, the list of parameters, each with events to the page.
`ScriptConfigModel` computes the chain as a sequence of *frames*, the model after
each effect that others can see; `ScriptConfigSocket` applies one frame per step in
the worker thread, so that the event loop interleaves with it. A parameter that was
removed stays an observer. Messages and events are queues; a lost connection drops
both and the socket's model, and the page sends its values again. The browser's
stores are `client`: what is shown, chosen, sent, remembered from an earlier visit and
waited for. A value may be chosen while there is no connection (it is not sent, then or
later, and is `astray`), the parameters that copy it follow (`Choose`), and a change of
the parameters fills the empty ones and those that had the default (`Settle`), the
included ones too. `_set_model` is one
step; parameters are lists; the template of the included file depends on one
parameter of the script's own file; forced values (of a link that asks for
them) and the preload script are left out.

### ConfigService, ScriptRegistry, Migrations

Each file operation is a step: the script file is truncated, written, the config
truncated, written (`OpenConfig`, `WriteConfig`); a crash may come in between, and
another thread's load reads the folder file by file in the order of the names.
`ScriptRegistry` knows no files: from each name to at most one script, which its
administrators change, remove or hide. `ConfigService!ImplementsRegistry` is the
refinement: the registry's script for a name is what the one config that can be read
and shows that name holds, its bin is the archive. A load and the writing of a
script file are stutters. `Migrations` keeps the fields of a file that a migration
looks at, and with each runner file what its author meant (`intended`), as a history
variable.

### ScriptArguments, FormReader, StdinListener, Authorization

Computations, as operators. A text is a sequence of atoms, so that a secret can be
told from the rest and a joined text taken apart; a body is a sequence of bytes of
the kinds the reader tells apart. Each is checked against a definition of its
meaning: a script that reads its command line with the knowledge of its options, the
form that was sent, the earliest output that contains the expected text, and
reachability.

### SecretsStore, GiteaImport

A process is at one of the steps between two system calls. A file that is replaced
by renaming is an *inode*: the name of the temporary file leads to one, which
another process may have opened as well, and renaming it moves whatever it holds.
`intended` is what the runs would lead to one by one, `raced` whether two ever
overlapped.

### TabExecutors

An executor of the frontend is an object: one for each execution that was active when
the page was loaded (`Loads`; `Doubles`, when the list already has an execution of this
tab) and one for each start (`Started`). The store reaches it by an id, as a module and
as an entry of the list: `tab.modules` and `tab.executors`; a start has the module
`temp` until it is answered. Answers (`StartAnswered`, `StatusAnswered`, `LoadConfig`,
...) and ends of sockets come in any order, one handler at a step. What Vue does after
a handler belongs to its step: the watcher of the status sees what the page showed
before (`shown`) and what it shows now, and sends the request for the cleanup. A
connection or an answer that is lost counts as a fault (`breaks`). Of the server there
is what the tab can tell: `srv`, whether an execution runs, and `active`. `mixed` is a
history variable: two starts, or a start and the first list, have overlapped;
`finishedHere` another one: what finished while the page showed it.

## The runs

`tlc -config X.cfg M` in this directory; every run ends within four minutes on two
cores. Where a run is about several parts that share no state, a variable `part` (or
`about`) is chosen in the initial state and a behaviour takes steps of that part only:
the states of the parts add up and do not multiply.

| Run | Instance | What it shows |
| --- | --- | --- |
| `lifecycle` | one execution started over HTTP on a terminal that meets one stop, cleanup and socket; or one started over HTTP with a pipe and a child that may survive it, stopped and cleaned up; or a scheduled one with a pipe and such a child, auto cleanup on, stopped and killed. The reader of the first two may fail | `FiredAfterFinish`, `FiredOnce`, `EarlyListenersFire`: listeners run after the end, once, and none that was there in time is left out. `EarlyListenersServed`: no listener blocks the following ones (`EarlyListenersNotified`) and failures are alerted (`FailureAlerted`), but where a child in the background holds the output open (`OutputHeld`). `MainResponsive`: whatever comes to run on it, the IOLoop comes back, unless a listener waits there for an output that a child holds (`MainHeld`). `Consistent`: what is active has its executor and info (`ActiveIsRegistered`), no stream ends before its process but that of a reader that failed (`StreamOutlivesProcess`). `OutputsEnd`: a kill ends the output (`KillEndsOutput`), and nothing becomes inactive with its output undisposed (`OnlyDisposedBecomeInactive`) |
| `output` | *pipe*: one producer, three chunks, two readers; *process*: two producers, two chunks each, two closers, one reader; *terminal*: three texts of six bytes, two encodings | `OutputInOrder`: order and counts go wrong only at one seam between replay and live output (`OneSeam`), who has joined misses nothing more (`JoinedMissNothing`), nothing follows the end (`NothingAfterEnd`). `ClosedOnce`. `TerminalWhole`: no byte is lost or moved between the terminal and the decoding (`NothingLostInside`, `ClosedComplete`), no character is cut (`WholeCharacters`), and `decode` drops nothing in utf-8 (`LostUndecodable`). `OutputEnds`: who subscribes late gets exactly what there is (`LateSubscriberExact`), no wakeup of a reader is lost (`ReadersReturn`), the stream of a terminal ends after its script (`StreamCloses`) |
| `schedule_jobs` | two jobs of any of six kinds, four moments, one crash, one failing write or one start that raises when the script runs, failing scripts, deleted files | `JobsInPlace`: a job is in flight once at most (`QueuedOnce`). `RunsInOrder`: no occurrence is run twice, nor out of order. `SeriesKept`: a series ends when it should (`EndRespected`), and not before (`NotForgotten`). `DueIsTaken` |
| `oauth_sessions` | one user in two browsers, a page's and a websocket's request from either, moments 0 to 3, four tokens, sign-outs, one fault: the provider refuses or cannot be reached, a restart, or a second sign-in while he is signed in | `SessionKept` (`StaysSignedIn`), `RemovedForCause`: no session ends but for a reason. `ProviderHeard`: a deactivated user leaves (`DeactivatedLeaves`), and changed groups arrive (`GroupsCatchUp`) |
| `script_page` | a parameter that chooses the included file, one that depends on it, a constant, an included one in two versions, of which one copies a value and depends on another; a page with and without remembered values; two of picks, reloads and losses, with or without a connection | `PageAgrees`: when nothing is in flight the page shows the model's parameters (`PageShowsModel`) and the model has the page's values (`ValuesArrive`). `IncludedPresent`, `AwaitEnds` |
| `config_folder` | *serving*: two names that give one file name, two administrators with different rights, two saves, one crash, another thread's load; *starting*: two disks of an older version, three stops, one loss of the record | `ScriptsSound`: one config for a name (`UniqueNames`), none before its script (`ScriptReady`). `LoadFinds`: a load of a script that stays answers with that script, by its settings, or `corrupt` for a damaged file before it of its name. `ImplementsRegistry`. `UpgradeSound`: a migrated config means what its author meant (`MeaningKept`), the logs have ids of their own (`LogsReady`). `StartEnds` |
| `start_request` | *form*: bodies of two parts in chunks of every size; *stdin*: five prompts in every output of seven letters in every cut; *arguments*: every combination of a positional parameter and two options of some twenty kinds with every value; *groups*: up to two members each; *schedule*: all units, periods 1, 2 and 5, three starts; *tab*: an older execution, a start and one lost connection or answer, or two starts, with two scripts, one act of the user beside starts | `ChunksDoNotMatter`, for a form (`FormKept`) and for a prompt (`SentWhenAsked`). `ValuesReachScript`: the script reads what was chosen from its command line (`ReadBack`), a variable has one owner (`EnvOwned`), only values on offer are used (`AllowedOnly`). `AuditSafe`. `GroupsComplete`: a group is flattened to all its members and no others (`MembersComplete`), and a user is in the groups that follow (`GroupsOfUser`). `NextIsFirst`. `TabAgrees`: the tab calls nothing finished that runs (`FinishedIsOver`), has one executor for an execution (`OneExecutor`), and when nothing is under way it agrees with the server (`Settled`) |
| `kept_files` | *log*: one log of four chunks; *history*: two users, two executions on two threads, one request, deletion and crash; *secrets*: two managers and two scripts, two runs, one kill; *import*: two repositories, two files, two pushes, two imports, one kill | `LogKept`: no output is lost (`OutputKept`) and the code is in the file at rest (`CodeAtRest`), and gets there (`ExitCodeWritten`), unless the finish listener was lost (`missed`). `LogsAreTheirs`: ids are unique (`IdsUnique`), nobody is shown another's log or code (`AnswersAreTheirs`, `CodesAreTheirs`). `NothingMissing`. `RunsAddUp`; `SecretsKept`: a description survives the updates of its value (`NoteSurvives`), what is asked for is listed in the end (`SecretsListed`). `Remembered`, `OnlyOwnRemoved` |
| `schedule_month_skipped`, `schedule_broken_id`, `script_page_default`, `config_upgrade` | small instances of the above | a counterexample each, see below |

A name in brackets is a definition of its own, a conjunct of the property before it,
which also holds the module's type invariant where there is one.
Each passing run's properties have mutants in `PROJECT.json`, one for each of their
parts: a plausible bug of the mapped code (a check dropped, two steps swapped, a flag not
set) under which TLC finds that very property violated.

**What the properties leave out on purpose.** A property that is true of the code only
under a condition states the condition, and the hazards and the next section say what
happens outside of it: `EarlyListenersNotified` and `FailureAlerted` excuse a child that
holds the output, `FailureAlerted` also an execution that was cleaned up before;
`MainResponsive` a child that holds the output of a listener on the IOLoop thread
(`MainHeld`); `StreamOutlivesProcess` a reader that failed; `CodeAtRest` and
`ExitCodeWritten` a process that ended between the check and the append of
`add_finish_listener` (`missed`); `ClosedComplete` what the terminal held at the very
end; `LostUndecodable` chunks with bytes from 127 on in an encoding other than utf-8;
`EndRespected` one execution per crash, failed save or start that raised when the script
ran; `SessionKept` and `RemovedForCause` what comes after a further sign-in of the user,
as after a failure of the provider or a restart (`excused`); `LoadFinds` a damaged file
of the script's name listed before it; `StartEnds` a `conf.json` that a crash has cut,
and `UpgradeSound` configs that `repeat_param` has met twice (`confused`); `RunsAddUp`
and `Remembered` processes that did not overlap (and, for an import, were not killed);
`AnswersAreTheirs` and `CodesAreTheirs` log names that two executions of one life had;
`ReadBack` the number 0 and the constant list of a `single_argument` option;
`AllowedOnly` labels that are values themselves; `PageShowsModel` a change that went on
in a model which was replaced meanwhile, or while the answer with a model was on its
way, or of a parameter removed before (`overlap`: one flag for the rest of the
behaviour); `ValuesArrive` values that came for a parameter that was gone or no longer
allowed them, or for a model about to be replaced (`lost`), and those chosen without a
connection or overwritten by the answer to a reload (`astray`); `AuditSafe` a secret
that is printed in two chunks. `OneExecutor` and `Settled` excuse starts that overlap
with each other or with the first list of the page, and `Settled` an execution that the
page did not show when it finished, or whose request for the cleanup was lost.
`SecretsListed` holds in the end: a manager may remove the entry, but not for ever.

**Bounds.** *Lifecycle*: `Requests` has every request once per execution: a second stop
or kill does what the first did, and a second cleanup finds the execution inactive or
races it exactly as the scheduler's auto cleanup does. `Fallible` has a reader of each
kind that may fail. Executions share only the three collections, the threads `Main` and
`Sched`, and the order of their operations; TLC looks at one at a time (`MaxStarted`)
and the proofs at any set. *Output*: three chunks and two observers are what the replay
needs: before, at and after the seam, and one observer that shifts the list under
another; the texts have each kind of byte at the start, in the middle and at the end of
a read. *Schedule*: two ids are what ids and queue order need, four moments let a job of
period one come due, be late and end; one fault is enough for each crash window.
`NextTimes`' clock starts two steps before the start of the schedule, and its horizon
grows with the unit: a day of minutes and hours, two months of days and weeks over the
end of a leap February, eleven months of months, from the 15th, the 31st and the end of
February. *OAuth*: access tokens live two units and refresh tokens three, so that a
refresh, an expiry and a check of the groups fit into the clock; two calls in flight are
what an interleaving takes, and two browsers what sharing one state and one pending
token takes. The user signs in first in one of them (`First`; they are alike) at moment
0 or 2 (`SignIns`) and may sign in once more at 2, when the first token is about to be
refreshed, and things go wrong at moment 2 (`Troubles`), before the refresh, during and
after it; the proofs have any moments. When the run's tokens are used up (`MaxTokens`)
the provider refuses, which is a cause; a refresh due at the last moment is left.
*Script page*: the second of two picks meets the events of the first, a reload or a loss
meets either (`MaxOfAll`); the three histories are none, and one for each of the two
parameters that choose something. *Folder*: two copies of one file name and two saves,
the second of which meets what the first left, crashed or not; three stops put one into
each of two starts and their record. *Request*: seven letters hold a prompt of four and
a mismatch before it; two executions and one act are what it takes for an answer to come
after another executor was selected. *Kept files*: two executions are what a shared
name, a shared cache and a reused id take; two runs and two imports are what an overlap
takes.

**Fairness.** Weak fairness of the steps of a thread that is under way, and no
more. The operating system runs the server's threads, whose loops have no way out
but the modelled one.
*ExecutionLifecycle*: threads run and a SIGKILL is delivered; no script has to
end by itself, no child has to end, no client has to send a request, and no
script has to be started. *ReplayStream*: who has begun a call goes on with it;
nobody has to begin one. *ScheduleService*: time passes and the scheduler thread,
as `sched.run` in a loop, goes on; neither clients, crashes nor restarts are
assumed. *ExecutionLog*: threads run; neither the end of the process nor that of
the stream is assumed. *PtyReader*: the reader runs; the script need not end.
*OAuthSessions*: the event loop and the provider go on (of the refreshes one or
another, as the calls of the scheduler do) and time passes; and each browser
that is signed in keeps sending requests (strong fairness, since it sends none while one
is under way), without which nothing would ever be checked: this is of the user, and
only `ProviderHeard` rests on it. *ScriptConfigSocket*: the worker
and the event loop go on, messages of an open connection arrive, and a lost one is
opened again, as the frontend's reconnection does; nobody has to pick a value.
*Migrations*: a start goes on. *SecretsStore*: scripts that ask for a secret run again
and again; no manager has to run. The other modules have safety properties only.

**Deadlock** is not checked in these runs: scripts end, clients stop sending and
the bounds of clock and ids are reached, so that every instance may come to rest.
That nothing rests that should go on is what the liveness properties are for.

## The proofs

| Theorem | States | Assumes |
| --- | --- | --- |
| `ExecutionLifecycle_proofs!TypeCorrect` | `Spec => []TypeOK` | `ExecAssumption` (the sets of executions fit together) |
| `ListenersRunAfterFinish` | `[]FiredAfterFinish` | the same |
| `ListenersFireOnce` | `[]FiredOnce` | the same |
| `StreamClosesAfterProcess` | `[]StreamOutlivesProcess` | the same |
| `ActiveExecutionsAreRegistered` | `[]ActiveIsRegistered` | the same |
| `EarlyListenersAreCalled` | `[]EarlyListenersFire` | the same |
| `ExecutionsAreConsistent` | `[]Consistent` | the same |
| `InactiveIsDisposed` | `OnlyDisposedBecomeInactive` | the same |
| `Output_proofs!StreamTypeCorrect` | `[]TypeOK` | `StreamAssumption` (the roles are disjoint, the owner produces) |
| `ToldOnce` | `[]ClosedOnce` | the same |
| `OrderKept` | `[]OutputInOrder` | the same, and `OneDisposer` (see below) |
| `JoinedGetAll` | `[](JoinedMissNothing /\ NothingAfterEnd)` | as `ToldOnce` |
| `TerminalIsWhole` | `[]TerminalWhole` | `TextsAssumption`, `ReadAssumption` (some texts of bytes; a read is of one byte or more) |
| `ScheduleService_proofs!ServiceTypeCorrect` | `[]TypeOK` | `BoundsAssumption`, `SchedulesAssumption`, `NextDueAssumption` |
| `JobsAreQueuedOnce` | `[]QueuedOnce` | the same |
| `JobsStayInPlace` | `[]JobsInPlace` | the same |
| `NoOccurrenceTwice` | `[]RunsInOrder` | the same |
| `SeriesAreKept` | `[]SeriesKept` | the same |
| `CalendarKeepsItsWord` | what `NextDueAssumption` asks, of `NextTime` | `Sound` (a schedule of `read_schedule_config`, less than 5000 weekdays listed) |
| `NextTimeIsFirst` | `IsNext(s, at, NextTime(s, at))` at any moment | `Sound`, repeated, and not in months |
| `NextOccurrenceIsFirst` | `ScheduleSpec => []NextIsFirst` | `TimetablesAssumption`, and no months |
| `KeptFiles_proofs!LogIsKept` | `[]LogKept` | `MaxChunksAssumption` (a number) |
| `ExecutionHistory_proofs!LogsStayTheirs` | `[]LogsAreTheirs` | `HistoryAssumption` (a number) |
| `ListsMissNothing` | `[]NothingMissing` | the same |
| `ConfigFolder_proofs!FolderIsSound` | `[]ScriptsSound` | `FolderAssumption` |
| `LoadsFindTheirScript` | `[]LoadFinds` | the same |
| `FolderIsRegistry` | `ImplementsRegistry` | the same |
| `GroupsAreComplete` | `GroupsSpec => []GroupsComplete` | `GroupsAssumption` (the names of groups are finitely many, and told from users) |
| `UpgradesAreSound` | `[]UpgradeSound` | `FilesAssumption`, `OldAssumption`, `NewAssumption` |
| `OAuthSessions_proofs!SessionIsKept` | `[]SessionKept` | `LivesAssumption`, `RefreshAssumption` |
| `RemovalHasCause` | `RemovedForCause` | the same |
| `MainPage_proofs!TabsAgree` | `[]TabAgrees` | `TabAssumption` (the ids of older executions are the lower ones) |
| `IncludedIsPresent` | `[]IncludedPresent` | `DefsAssumption`, and `KeyStartsEmpty` (see below) |
| `KeptFiles_proofs!FilesRemembered` | `[]Remembered` | `SourcesAssumption` (no source has the name of the model's marks) |
| `RemovesOnlyOwn` | `OnlyOwnRemoved` | the same |
| `StoreAddsUp` | `[]RunsAddUp` | `SecretsAssumption` (the same for secrets) |
| `UpdateKeepsNote` | `NoteSurvives` | the same |
| `SentWhenItIsAsked` | `StdinSpec => []SentWhenAsked` | `StdinAssumption` (an expected text is not empty) |
| `EnvironmentIsOwned` | `EnvUnambiguous` of any parameters and values | nothing |
| `AcceptedIsAllowed` | `OnlyAllowed` of any parameters and accepted values | the places of a mapping are numbers |
| `AuditShowsNoSecret` | the words of the audit log are the mask's and those of parameters that are no secret | `ProperList` (a list is of texts, to be passed in one of the three ways) |

Each rests on an inductive invariant, a theorem of its own where it says something of
the code (`LogInvariant`, `InductiveInvariant`, `SessionInvariant`, `TabInvariant`,
`PageInvariant`, `ImportInvariant`, `SecretsInvariant`, `SeriesInvariant`). They hold
for any set of executions, threads, requests, names, users and processes, for any number
of chunks, jobs, moments, tokens and faults. TLC evaluates the assumptions in the runs.

**What is assumed, and why the code justifies it.**
`NextDueAssumption` is of the calendar: the next time of a repeatable schedule is not
in the past, a one-time schedule has one time, and a later question has no earlier
answer. `CalendarKeepsItsWord` proves this of `get_next_time` itself, for every unit,
months included, any period, start and weekdays; TLC evaluates it with the schedules of
its instance.
`FolderAssumption`: all configs are in the one folder in which the admin page creates
them, and a free name can be found. With folders below it the theorem would be
false: `update_config` compares file names without folders (see the next section).
`OldAssumption` is about the files of the older version: it wrote none of the fields
that replaced its own, and logs with a header have ids of their own. `NewAssumption`:
a config saved for this version has none of the older fields; the arguments are
excepted, as `same_arg_param` is a field of both. A file that is broken by a crash is not
claimed to mean anything, in the theorem as in the run.
`RefreshAssumption`: a refresh token does not expire before its access token. The
server schedules the refresh by the time of the access token alone
(`oauth_token_manager.py`), so that against a provider whose refresh tokens are the
shorter ones it comes too late: with the two lives exchanged TLC shows a user removed
for no other cause.

**Execution lifecycle.** `FiredAfterFinish` is not inductive: that a listener may run
rests on what its thread has seen before. `IInv` adds `ThreadInv` (who runs a listener
deals with a finished process, who removes an id has disposed of its stream, who
activates an id has stored its executor and info, a notify thread runs the listeners of
its own execution alone) and `NotifyLoop`: the notify thread has called the first
`next[e]` listeners, the one in its hands counting as called, and `early[e]` is not more
than there are listeners. Since listeners are only appended, "all in time have been
called" survives every registration, which the unlocked append might make one doubt. One
lemma per kind of step shows what it leaves alone. `FiredOnce` needs to know where a
listener can be: at any moment it is on its way to be added, in the list once, or
called, and never in two of these places, whichever thread carries it.

**Replay stream.** The lock guards the flag, not the lists: while one thread runs
the loop of `on_close` calls, a subscriber that has seen the stream open may still
append itself, and another that sees it closed is told directly. `CloseInv` says
that only one thread can ever be in the loop of `close` (`OneCloser`), that an
observer is at most once in the list (`JoinedOnce`), that one that has not joined
yet has not been told and is not in the list (`OutsideUntold`), and that the loop
has told none but those it has passed (`ToldInOrder`).

`OutputInOrder` is about what was called over a whole life of the stream, so its
invariant `OrderInv` ties the log of an observer to the lists as they are now. The list
holds each producer's pushes without a hole from some push on, and from the first on
until it is cleared (`ChunksInOrder`). Who replays has got exactly the chunks before its
place while the list is whole (`ReplayExact`); whether or not it is, what is still to
come is newer than what it has got and goes on from there, or there was no seam yet
(`ReplayGoesOn`), and no observer comes to its append with one (`NoSeamYet`). From then
on, an observer with a seam behind it has the push before the one due to it, and not
that one (`LiveGoesOn`): this is where missing some pushes may happen once and no second
time. `OwnerPushesReach` and `EndIsLast` say of a lone owner which push is still due to
whom, and that it has nothing to push any more when the flag is set. A step of the model
calls one observer at most, so the proof first says what one call does to the seams of a
log (`CallNoSeam`, `CallOneSeam`), and then follows each kind of step. The hypothesis
`OneDisposer` is needed: two threads that clear the list under one replay can give it
two seams. A cleanup over HTTP and the automatic one after a scheduled execution may be
two such threads (`execution_service.py:208`, `schedule_service.py:150`); then
`JoinedGetAll` is what remains.

**Schedule service.** `QueuedOnce` is inductive with `Halves` (both threads
are down together, and only the constructor has jobs left to restore) and `Fresh` (an id not
yet given is nowhere). `RunsInOrder` needs `RunsPlaced`: the due times of what is
executed are before the due time of what is queued or in hand, and before now for
what is about to be scheduled from now, which is where the assumption on the
calendar is used. `SeriesKept` adds what the file of a job says: its count lags
behind the executions by no more than one for each crash, failed save or start that
raised so far, and by
one more while the save is still to come (`Counted`); an event in the queue is within
the end of its series (`WithinEnd`); and a series that has ended stays so because a
later question to the calendar has no earlier answer.

**Calendar.** `get_next_time` guesses a first iteration and goes on from there. It is
enough to show of each unit that the times of the iterations grow, that one of them is
reached within the loop's limit (`Arrives`), that every iteration is an occurrence, and
that an occurrence which is not in the past is an iteration not before the guess:
`NextTimeFirst` puts these together. Of minutes, hours and days this is a matter of one
quotient. Of weeks it takes the place of an iteration in the schedule's weeks
(`Placed`), the number of weekdays before the start (`LeadingWeekdays`), and the weekday
and week of an instant some days later (`DaysLater`). Of months, `MonthOfTime` shows
that an iteration lies in the month it is counted to, whatever the cut of its day, and
`DaysGrow` that a month has 28 days or more: so the times grow and arrive. That is all
that holds of months. The guess takes each of them for 28 days, and an occurrence after
a year may lie before it, which is the counterexample of `schedule_month_skipped`.

**Execution log.** The rewriting of the file loses nothing because it begins only when
the logger is closed (`ClosedOnce` of this module) and there is one callback
(`OneListener`, which also says where the two threads are when the listener is lost): so
the copy that a thread holds has all of the output (`Whole`). That two threads may both
rewrite it is no harm, as each copy is whole; it costs a second exit code, hence
`FewCodes`. `CodeComes` says who is about to write it, whichever of the process and its
stream ends first.

**Terminal.** `PtyInv` follows each byte: what was given to `decode`, what the buffer holds
back, what the reader has in its hands and what waits in the terminal are together what
the script has written (`NothingLostInside`), and no chunk begins or ends within a
character (`ChunksWhole`), wherever a read cuts. What is joined of a sequence of chunks is
a fold, so the proof needs an induction over its length: it takes the least number
for which a fact would fail (`LeastNumber`, from the library's theorems on well-founded
orders, which take a set and not an operator).

**Execution history.** Nobody owns a log but by its name and its id, so the
invariant is about three functions that exist for every state and never change
what they say of a file that is there: the file of an id, the user whose execution it is,
and the id of a file. Every place that holds a name or an id agrees with them: the files,
the map, the threads that write, the request under way. A name that two executions had
has no owner, and that is where `shared` comes in. `VisitedKnown` says that a file which
will not be looked at again is in the map, or about to be put there by the thread
that wrote it, and `ListKnown` that what a list must have is in its entries or still
before it, in whichever of its loops. It took the proof to see that `NothingMissing`, as
it stood, was true only of the run's one request: a log deleted while its exit code
is being added comes back, and is not found again (see the next section).

**Config service.** A config that is being written is not readable, so that a
uniqueness of what can be read is not inductive: the name would be free for a moment.
`OneOwner` counts such a file as what it was before, `SaveAllowed` keeps what the
endpoint has checked true until the config is written (no other config took the
name, the user was one of its administrators, the script file is there), and
`LoadAhead` keeps what a load must answer in front of it, where no file but a damaged
one of the same name can come before (`FirstBefore`). The refinement maps each
step to an action of `ScriptRegistry` or to a stutter: only the writing of a config, a
removal and a crash are none, and a crash takes what was being written.

**Migrations.** A file that is being written is neither its old nor its new content,
so `UpgradeInv` speaks of what each file *will* hold when the write at work is done
(`Holds`), of the files then left to the migration (`Left`), and of the configs that then
have the arguments of this version (`Ours`). Seen so, only three steps change a
content: the beginning of a write, a save, and a crash, which breaks the one
file that was open. `ConfigsMeant` holds at any point between two migrations, not
only when the server is up: a config means what its author meant, in the older
way or in the new one, and by then a config that `repeat_param` should not have met is
among the excused (`WorkSound`). `RecordedDone` and `WorkDone` say that what is
recorded, applied or being applied has been done to each file it is about, and is
not undone by a later one. The rest is the list of the loop, from which the code
removes what it goes over (`ListSound`): each migration is in it or applied, never both.
The id of a log without a header is free because there are fewer ids than logs
and numbers up to their count (`FreeIdIsFree`).

**Groups.** `Flat` says what a group has in the end: the least set with its own
members and those of every group in the set. `Collecting` is the invariant of the `while`
loop: whatever was visited, queued or collected is in every such set, and what a
visited group has is collected, or queued if it is a group; a result finished earlier is
taken for `Flat` of its group and so stands for all behind it. Each turn lowers
`Ahead`, what is queued plus what unvisited groups may still queue, so that the
turns `Collect` allows are more than the loop takes (`CollectIsFlat`). `GroupsOfUser`
then follows from minimality twice, once from above and once from below.

**What a script is given.** While the value is not sent, what `_ExpectedTextListener`
keeps is an end of the output too short for the expected text, and every place before
that end is ruled out (`Out`): another letter stands there, or there was enough output
to see that the text does not begin there. A chunk can rule out more but makes nothing
possible again, since a place is only left by the loop once it is ruled out
(`StdinInv`). What the loop finds is proved from its end backwards; that it defines a
function at all, by writing the function down (`Ends`: the first place not ruled out).
For the environment, after each parameter a variable in the result has exactly one
claimant, and one that is neither there nor excluded has none (`Owned`). For the audit
log, `Arguments` makes nothing but the option and the texts it is given
(`ArgumentsMade`), whatever the way of passing them, and of a secret it is given nothing
but masks (`SecretIsMask`), the constants of the config included.

**OAuth sessions.** What might sign a user out is a coroutine that presents a token that
has been replaced meanwhile. `TokensCurrent` says that the newest token is the one that
the manager holds, that the provider accepts it, that one refresh of it is scheduled or
under way, and that it is in the cookie or pending. `CallsCovered` is about the calls
that hold an older one: whoever still carries a token that is of no use finds that a
check has just been made, or stands in the queue of the lock behind a check with a good
token. This is where the check made under the lock (`CheckLocked`) is needed: without it
TLC finds a user removed for nothing. All of this holds until there is a cause, and a
further sign-in is one: from then on two browsers hold tokens of which one is the
newest. There is a state object for each coroutine (`FreeStateIsFree`, by counting them,
one for each browser among them), so that no step of the model is cut off by the number
of objects.

**Frontend executors.** `Core` ties the two places in which the store registers an
executor to each other and to the executor's own id, and the id to the start it came
from; `Reached` is the heart of it: an executor that runs, or that the user looks at,
is the one registered under its id, and so gets the events of its socket. `Page` ties
what the page shows to the executor selected, and what finished under the user's eyes
to a request for the cleanup that is on its way. `mixed` excuses two starts that overlap
with each other or with the first list; the proof brought up one way more into it, an
executor that the user left while the list was being loaded, and that the list brings
back.

**Parameters of the page.** `Sound` says of a model that it remembers the file that the
value of `IncludeKey` chooses, and lists each parameter of the script and of that
file once, under its own name. No model is sound in the middle of a change, so
`PageInv` does not speak of the one on which the worker applies frames; it says that
what the change will leave is sound (`worker.result`), that a model loaded and not yet
installed is, and that a change begun on a model that has been replaced by then
no longer touches the one in place (`worker.gen`). That a change leaves a sound model
is the long part: the removals and additions of a file are folds over its list, followed
by induction over the length, and the observers that hear of a value on the way may
change options but not the list (`SameList`). A name that two files share is removed
and added again; one that the script itself has is left alone by both. A new model is
`Young` until it watches: it lists the script's parameters and includes nothing. This is
what `KeyStartsEmpty` is for: a default of `IncludeKey` would choose a file before
anybody listens, and `script_page_default` shows that its parameters then stay away. The
hypothesis leaves out what the code does wrong there and nothing else.

**Bundled scripts.** `OwnFiles` follows what an import believes to be its source's
files through the copy of the state it holds; it needs no assumption on overlaps, so
that nothing else is ever removed. `OneByOne` is what is true while imports do not
overlap, and gives `Remembered`. For the secrets, each run's copy of the store is what
the runs before it add up to, as long as they have not raced (`OneRun`), and the
temporary file is never the store itself (`TwoFiles`).

**Only model-checked.** All liveness (TLAPS has no fairness or ENABLED here):
`EarlyListenersServed`, `MainResponsive`, `OutputsEnd`, `OutputEnds`, `DueIsTaken`,
`ProviderHeard`, `AwaitEnds`, `StartEnds`, `ExitCodeWritten`, `SecretsListed`.
`NextIsFirst` of monthly schedules in their first eleven months. `FormKept`, because
`FormReader` is written with RECURSIVE operators. That a script reads its values back
(`ReadBack`), that the audit log has the shape of the command line where no secret is
empty, and that the output hides the secrets (`OutputMasked`): `ReplaceAllSubSeqs` and
`SelectSeq` are beyond the provers. And `PageAgrees`, of the page and the model over two
queues: it holds only of what the page may be reloaded with (`ReloadValues` of the run),
and rests on the whole content of both queues.

## What the code does against its own word

Four runs end in a counterexample, each against a line of the repository.

- `schedule_month_skipped`: the first guess of a monthly schedule takes a month
  for 28 days (`schedule_config.py:155`); about a year after the start it is ahead
  of the calendar and skips an occurrence.
- `schedule_broken_id`: `restore_jobs` promises the ids of broken configs as well
  but takes an id only after the file was parsed (`schedule_service.py:36`).
- `script_page_default`: a model listens to the choice of the included file only after
  its defaults were set (`script_config.py:100`): the parameters of the file that a
  default chooses never appear, and the next choice raises.
- `config_upgrade`: the record of migrations is in the temp folder, which the README does
  not list among the volumes; a new container applies every migration again and changes
  what a saved config means (`migrate.py:298`), against the README's "your edits survive".

More was seen while modelling and has no run of its own; the properties of the passing
runs leave it out, as said above.

- `add_finish_listener` (`process_base.py:103`) checks and then appends without a lock; a
  listener appended behind the last turn of the notify thread is never called. An output
  socket stays open; and if it was the listener of a short script's own logging
  (`execution_service.py:245`), its exit code is never written and its log stays that of
  an execution under way.
- A listener that is called on the IOLoop thread, because the script was over when it
  was added, waits there for the output without a timeout
  (`file_download_feature.py:132`, `fail_alerter_feature.py:34`): a script without a
  terminal that ends at once and leaves a child with its output open stops the server
  until the child ends.
- "output_stream is guaranteed to close not earlier than process exit"
  (`process_base.py:24`): not if the reader raises (`process_popen.py:91`,
  `process_pty.py:135`), which closes the stream at once.
- An execution that is cleaned up before its finish is told has no config any more, and its
  failure is not alerted (`fail_alerter_feature.py:23`).
- In an encoding other than utf-8 `decode` raises for bytes it cannot read
  (`encoding_utils.py`), and the reader of a terminal drops the whole chunk
  (`process_pty.py:126`).
- A start that raises when the script runs already (`executor.py:77`,
  `schedule_service.py:149`) is not counted: a job of `max_executions` runs once more.
- The reader of a terminal finds nothing to read, and only then looks whether the process
  has ended (`process_pty.py:111`); what was written in between is left. A character cut
  at the very end stays in its buffer.
- A *stop* whose target leaves a child that survives SIGTERM does not end the execution:
  `KillChildren` is queued behind a listener that waits for the pipe the child holds (a
  kill does, see `OutputsEnd`).
- An observer that joins the process's stream while a chunk is pushed may miss or repeat
  that chunk (hence `OneSeam`).
- A scheduled job deleted between the check of its file and the saving of its count is
  written back.
- After a restart with expired tokens the renewed token serves one request: its cookie is
  never set (`oauth_token_manager.py:91`).
- A user who signs in while he is signed in loses his other session at times: his state
  has no last visit until the groups are there (`auth_abstract_oauth.py:133`), so that a
  request in between is refused and signs him out; and of two browsers one gets the
  renewed token, the other's check ends with a 401 (`oauth_token_manager.py:56`,
  `auth_abstract_oauth.py:270`).
- When the provider cannot be reached, the scheduled refresh ends with the error and no
  other one is scheduled (`oauth_token_manager.py`): the user stays until the token is
  refused.
- The conversion of a model for the page is not kept apart from the worker's changes
  (`script_config_socket.py:225`): a parameter may be on the page twice, or with the
  options of the model before. A parameter that was removed with its included file goes on
  sending its changes, which the page takes for the one of that name
  (`script_config.py:236`). A value chosen without a connection stays on the page and is
  not sent after the reconnection (`scriptConfig.js:89`). A remembered value of a
  parameter that depends on another is cleared when the page is opened, as its options
  are not there yet.
- A damaged file is taken for a script named after the file, and hides a script of that name
  that is listed later (`config_service.py:317`-`337`): a load of it says it is corrupt.
- A `conf.json` cut by a crash in its migration (`migrate.py:373`) lets no start succeed.
- A character of two bytes or more that is cut by the border of two chunks of a form's value
  fails the request (`streaming_form_reader.py:35`).
- The masking of the output looks at one chunk at a time (`executor.py:122`): a secret in
  two chunks is shown.
- Saving a config of a subfolder overwrites the file of the same name in the folder above
  (`config_service.py:119`, `131`).
- A log name is chosen before the file is opened (`logging.py:155`): two executions started
  in one second by two threads may write one log. The map of ids is not told when a
  deleted log's name is used again.
- A log deleted while its exit code is being added comes back (`file_utils.py:94` opens it
  to write), complete. A list in between has dropped its id from the map
  (`logging.py:256-263`), and the file is visited: no later list has the execution, until
  the server starts again.
- Two runs of Secrets Manager at one time lose an update, or move a half-written store into
  place, which then reads as empty (`secrets_store.py:114-124`). Two imports from Gitea
  at one time lose one's state, and a killed one leaves its files behind.
- A tab with two starts under way has one module `temp` for both
  (`scriptExecutionManager.js:133`): when one is refused, the error is shown at the other
  (156), and the refused one may say "initializing" for ever. A start that is answered before
  the first list of active executions has two executors for one execution. A start whose
  answer is lost runs with no tab, until the page is loaded again.
  An executor that the user leaves while the list is being loaded comes back with it.
- A finished execution is cleaned up when the page comes to show its status. Chosen
  while another finished one is shown it changes nothing there (`script-view.vue:440`),
  and it stays active until something else cleans it up.
- The number 0 is accepted but not passed
  (`executor.py:206`), nor is the constant list of a `single_argument` option (209); a flag
  that is off deletes the variable another parameter had claimed (276).

## Not modelled

- **Network and passwords**: OAuth providers, LDAP, htpasswd, communications. One call
  each, with no state kept; what they answer is a choice in `OAuthSessions`.
- **Parsing and formatting**: server configuration, external model, utilities, types of
  parameters whose validation looks at text, files or addresses.
- **Frontend but the script page and its executors**: terminal, history, other pages,
  admin application. Of an executor, what its socket brings (output, files, prompts).
  A kill, which changes nothing in the tab.
- **User files**: folders are named by the time of a request and cleaned by their age.
- Data: texts, the content of files. Formatting and wording.
- Two executions at a time in the TLC runs of the lifecycle (the proofs have any
  number).
- A clock that is set back (`clock` only grows), and more than one IOLoop.
- `unsubscribe` of a stream: nothing in the server calls it to any effect.
- The time-buffered and mapped pipes between the process's stream and the raw and
  protected ones: here one closing step each.
- Errors of the terminal (EIO) in `PtyReader`: the server keeps the other end open (an
  exception of the reader is `ReaderFails` of `ExecutionLifecycle`). Errors of
  writing the log, which are logged and dropped. A crash of the server in `ExecutionLog`.
- In `ExecutionLog` joining the stream is one step: `ReplayStream` looks inside.
- Configs in subfolders, YAML, broken symbolic links.
- Several users in `OAuthSessions`: they share nothing but the dictionaries, by key.

The status and note of each component in `PROJECT.json` say the same part by part.

## The plan

| Modules | Shows | Left to prove |
| --- | --- | --- |
| `ExecutionLifecycle` | life of an execution over all its threads | |
| `ReplayStream`, `ExecutionLog`, `PtyReader` | the way of the output | |
| `ScheduleConfig`, `ScheduleService` | schedules and jobs | |
| `ConfigService`, `ScriptRegistry` | names and rights over files and crashes | |
| `SecretsStore`, `GiteaImport` | files shared by processes | |
| `ExecutionHistory`, `ScriptConfigSocket`, `Migrations` | caches, pages, starts | `PageAgrees` |
| `OAuthSessions` | sessions over the awaits of their coroutines | |
| `OutputPipeline`, not written: process stream, time buffer, mapped and replay pipes, dispose | each reader of the output gets it whole | order and completeness |
| `TabExecutors` | a tab and the server, answers in any order | |
