------------------------- MODULE ExecutionLifecycle -------------------------
(***************************************************************************)
(* The life of script executions in the server: ExecutionService on top of *)
(* ScriptExecutor and ProcessWrapper, with the threads that really touch   *)
(* an execution.                                                           *)
(*                                                                         *)
(*   Main    the Tornado IOLoop thread: HTTP start, stop, kill, cleanup    *)
(*           and the output websocket; one handler at a time               *)
(*   Sched   the thread of the Scheduler: starts the scheduled executions  *)
(*   e       (an execution id) the notify thread of that execution         *)
(*                                                                         *)
(* The reader thread and the flush thread of an execution have one step    *)
(* each here (closing their stream); PtyReader and ReplayStream look inside. *)
(*                                                                         *)
(* A thread has a base operation, op[t], and on top of it the listener it  *)
(* is adding or running, frame[t]: ProcessWrapper.add_finish_listener runs *)
(* the listener in the caller's thread when the process is over already.   *)
(***************************************************************************)
EXTENDS Integers, Sequences, FiniteSets

CONSTANTS
    Exec,          \* execution ids
    Scheduled,     \* those that the scheduler starts; HTTP starts the others
    Popen,         \* those that run without a terminal (POpenProcessWrapper)
    Forking,       \* those that may leave a child in the background
    OutputFiles,   \* those whose config has files to download after the end
    AutoCleanup,   \* scheduled ones with config.scheduling_auto_cleanup
    Fallible,      \* bound: those whose reader thread may end by an exception
    Requests,      \* bound: the <<request, execution>> pairs clients may send
    MaxStarted,    \* bound: executions started in one behaviour
    Main, Sched,   \* the two long-lived threads
    None           \* no execution

Request == {"stop", "kill", "cleanup", "socket"}

ASSUME ExecAssumption ==
    /\ Scheduled \subseteq Exec
    /\ Popen \subseteq Exec
    /\ Forking \subseteq Exec
    /\ OutputFiles \subseteq Exec
    /\ AutoCleanup \subseteq Scheduled
    /\ Requests \subseteq Request \X Exec
    /\ {Main, Sched, None} \cap Exec = {}
    /\ Main # Sched

ASSUME MaxStartedAssumption == MaxStarted \in Nat

(***************************************************************************)
(* Finish listeners, by who registers them: the download feature, the      *)
(* service itself (it calls the global finish listeners: logging, fail     *)
(* alerter, callbacks), the scheduler's auto cleanup, stop's KillChildren  *)
(* and the output websocket.                                               *)
(***************************************************************************)
Listener == {"download", "service", "cleanup", "killChildren", "socket"}

Thread == {Main, Sched} \cup Exec

OpPc == {"idle", "executor", "info", "activate", "started", "postFinish",
         "autoCleanup", "terminate", "killChildren", "sigkill", "remove"}

FramePc == {"idle", "check", "append", "run", "wait", "alert", "alertWait",
            "callback", "remove"}

VARIABLES
    proc,        \* none, running or finished: process.poll() is not None
    code,        \* the return code, 0 or 1 for any failure
    child,       \* executions with a live background child that holds stdout
    signalled,   \* executions the server sent SIGKILL to
    executors, infos, active,   \* keys of the service's three collections
    listeners,   \* ProcessWrapper.finish_listeners
    next,        \* how many of them the notify thread has taken
    notified,    \* executions whose notify thread is over
    early,       \* Len(listeners) at the moment the process was over
    op, frame,   \* what each thread is doing
    srcClosed,   \* process_wrapper.output_stream.closed
    rawClosed,   \* raw_output_stream.closed
    drained,     \* executions whose reader thread is over
    failed,      \* those whose reader thread ended by an exception
    requested,   \* the requests that clients have sent so far
    fired,       \* the listeners started, in order
    logged,      \* executions with an output logger
    effects      \* what the listeners have achieved: <<effect, execution>>

procVars    == <<proc, code, child, signalled>>
serviceVars == <<executors, infos, active>>
notifyVars  == <<listeners, next, notified, early>>
streamVars  == <<srcClosed, rawClosed, drained, failed>>
outVars     == <<requested, fired, logged, effects>>
vars == <<procVars, serviceVars, notifyVars, op, frame, streamVars, outVars>>

Idle == [pc |-> "idle", ex |-> None]
NoFrame == [pc |-> "idle", ex |-> None, l |-> "none"]

Free(t) == frame[t].pc = "idle"           \* no listener on top of the operation
IsFinished(e) == proc[e] = "finished"     \* ScriptExecutor.is_finished

Init ==
    /\ proc = [e \in Exec |-> "none"]
    /\ code = [e \in Exec |-> 0]
    /\ child = {} /\ signalled = {}
    /\ executors = {} /\ infos = {} /\ active = {}
    /\ listeners = [e \in Exec |-> <<>>]
    /\ next = [e \in Exec |-> 0]
    /\ notified = {}
    /\ early = [e \in Exec |-> 0]
    /\ op = [t \in {Main, Sched} |-> Idle]
    /\ frame = [t \in Thread |-> NoFrame]
    /\ srcClosed = {} /\ rawClosed = {} /\ drained = {} /\ failed = {}
    /\ requested = {} /\ logged = {} /\ effects = {}
    /\ fired = [e \in Exec |-> <<>>]

-----------------------------------------------------------------------------
(* Moving a thread on. *)

Goto(t, pc) == op' = [op EXCEPT ![t] = [pc |-> pc, ex |-> op[t].ex]]
Return(t)   == op' = [op EXCEPT ![t] = Idle]
Then(t, pc) ==
    frame' = [frame EXCEPT ![t] = [pc |-> pc, ex |-> frame[t].ex, l |-> frame[t].l]]
Done(t)     == frame' = [frame EXCEPT ![t] = NoFrame]

(* ScriptExecutor.add_finish_listener: the thread enters the method. *)
AddFinishListener(t, e, l) ==
    frame' = [frame EXCEPT ![t] = [pc |-> "check", ex |-> e, l |-> l]]

AtOp(t, pc) == op[t].pc = pc /\ Free(t)
AtFrame(t, l, pc) == frame[t].l = l /\ frame[t].pc = pc

-----------------------------------------------------------------------------
(* start_script: in Main for HTTP, in Sched for a scheduled job. *)

StarterOf(e) == IF e \in Scheduled THEN Sched ELSE Main

(* ScriptExecutor.start: the process, its reader, flush and notify threads. *)
StartProcess(e) ==
    LET t == StarterOf(e) IN
    /\ AtOp(t, "idle")
    /\ proc[e] = "none"
    /\ Cardinality({x \in Exec : proc[x] # "none"}) < MaxStarted
    /\ proc' = [proc EXCEPT ![e] = "running"]
    /\ child' \in {child, child \cup ({e} \cap Forking)}
    /\ op' = [op EXCEPT ![t] = [pc |-> "executor", ex |-> e]]
    /\ UNCHANGED <<code, signalled, serviceVars, notifyVars, frame, streamVars, outVars>>

(* Mutant: the id is active before its info is registered. *)
RegisterExecutorActive(t) ==
    /\ AtOp(t, "executor")
    /\ executors' = executors \cup {op[t].ex}
    /\ active' = active \cup {op[t].ex}
    /\ Goto(t, "info")
    /\ UNCHANGED <<procVars, infos, notifyVars, frame, streamVars, outVars>>

(* ScriptExecutor.start raises once the process runs: a value for its      *)
(* input meets a closed pipe. Nobody registers the execution.              *)
StartRaises(t) ==
    /\ AtOp(t, "executor")
    /\ Return(t)
    /\ UNCHANGED <<procVars, serviceVars, notifyVars, frame, streamVars, outVars>>

RegisterExecutor(t) ==
    /\ AtOp(t, "executor")
    /\ executors' = executors \cup {op[t].ex}
    /\ Goto(t, "info")
    /\ UNCHANGED <<procVars, infos, active, notifyVars, frame, streamVars, outVars>>

RegisterInfo(t) ==
    /\ AtOp(t, "info")
    /\ infos' = infos \cup {op[t].ex}
    /\ Goto(t, "activate")
    /\ UNCHANGED <<procVars, executors, active, notifyVars, frame, streamVars, outVars>>

Activate(t) ==
    /\ AtOp(t, "activate")
    /\ active' = active \cup {op[t].ex}
    /\ Goto(t, "started")
    /\ UNCHANGED <<procVars, executors, infos, notifyVars, frame, streamVars, outVars>>

(* _fire_execution_started: the log is opened, then the download feature   *)
(* adds its listener. Both ask for the config of an active execution, and  *)
(* do nothing if it was cleaned up in the meantime.                        *)
FireExecutionStarted(t) ==
    LET e == op[t].ex IN
    /\ AtOp(t, "started")
    /\ Goto(t, "postFinish")
    /\ logged' = IF e \in active THEN logged \cup {e} ELSE logged
    /\ IF e \in active \cap OutputFiles
       THEN AddFinishListener(t, e, "download")
       ELSE UNCHANGED frame
    /\ UNCHANGED <<procVars, serviceVars, notifyVars, streamVars, requested, fired, effects>>

(* _add_post_finish_handling, and the return of start_script. *)
AddPostFinishHandling(t) ==
    LET e == op[t].ex IN
    /\ AtOp(t, "postFinish")
    /\ AddFinishListener(t, e, "service")
    /\ IF e \in AutoCleanup THEN Goto(t, "autoCleanup") ELSE Return(t)
    /\ UNCHANGED <<procVars, serviceVars, notifyVars, streamVars, outVars>>

(* ScheduleService._execute_job, after start_script. *)
AddAutoCleanup(t) ==
    /\ AtOp(t, "autoCleanup")
    /\ AddFinishListener(t, op[t].ex, "cleanup")
    /\ Return(t)
    /\ UNCHANGED <<procVars, serviceVars, notifyVars, streamVars, outVars>>

-----------------------------------------------------------------------------
(* Requests of clients, each at most once for an execution. *)

Receive(r, e) ==
    /\ AtOp(Main, "idle")
    /\ <<r, e>> \in Requests \ requested
    /\ requested' = requested \cup {<<r, e>>}

(* stop_script and kill_script: validate_execution_id, then is_finished. *)
StopScript(e) ==
    /\ Receive("stop", e)
    /\ e \in active
    /\ ~IsFinished(e)
    /\ op' = [op EXCEPT ![Main] = [pc |-> "terminate", ex |-> e]]
    /\ UNCHANGED <<procVars, serviceVars, notifyVars, frame, streamVars, fired, logged, effects>>

KillScript(e) ==
    /\ Receive("kill", e)
    /\ e \in active
    /\ ~IsFinished(e)
    /\ op' = [op EXCEPT ![Main] = [pc |-> "sigkill", ex |-> e]]
    /\ UNCHANGED <<procVars, serviceVars, notifyVars, frame, streamVars, fired, logged, effects>>

(* getpgid and killpg(SIGTERM): a process that is over by now makes        *)
(* getpgid raise. Whether anyone obeys the signal is up to the script.     *)
Terminate ==
    LET e == op[Main].ex IN
    /\ AtOp(Main, "terminate")
    /\ IF IsFinished(e)
       THEN Return(Main) /\ UNCHANGED effects
       ELSE Goto(Main, "killChildren") /\ effects' = effects \cup {<<"stopped", e>>}
    /\ UNCHANGED <<procVars, serviceVars, notifyVars, frame, streamVars, requested, fired, logged>>

(* Mutant: stop waits for the process to obey SIGTERM. *)
AddKillChildrenWaiting ==
    /\ AtOp(Main, "killChildren")
    /\ IsFinished(op[Main].ex)
    /\ AddFinishListener(Main, op[Main].ex, "killChildren")
    /\ Return(Main)
    /\ UNCHANGED <<procVars, serviceVars, notifyVars, streamVars, outVars>>

AddKillChildren ==
    /\ AtOp(Main, "killChildren")
    /\ AddFinishListener(Main, op[Main].ex, "killChildren")
    /\ Return(Main)
    /\ UNCHANGED <<procVars, serviceVars, notifyVars, streamVars, outVars>>

(* Mutant: SIGKILL to the process and not to its group. *)
SigkillParentOnly ==
    LET e == op[Main].ex IN
    /\ AtOp(Main, "sigkill")
    /\ signalled' = IF IsFinished(e) THEN signalled ELSE signalled \cup {e}
    /\ Return(Main)
    /\ UNCHANGED <<proc, code, child, serviceVars, notifyVars, frame, streamVars, outVars>>

(* killpg(SIGKILL): no process of the group survives. *)
Sigkill ==
    LET e == op[Main].ex IN
    /\ AtOp(Main, "sigkill")
    /\ IF IsFinished(e)
       THEN UNCHANGED <<child, signalled>>
       ELSE child' = child \ {e} /\ signalled' = signalled \cup {e}
    /\ Return(Main)
    /\ UNCHANGED <<proc, code, serviceVars, notifyVars, frame, streamVars, outVars>>

(* ScriptExecutor.cleanup: the pipes defer their disposal until their      *)
(* source closes, the process output stream is closed at once.             *)
Dispose(e) == srcClosed' = srcClosed \cup {e}

(* Mutant: cleanup does not ask whether the execution is over. *)
CleanupRunning(e) ==
    /\ Receive("cleanup", e)
    /\ e \in active
    /\ Dispose(e)
    /\ op' = [op EXCEPT ![Main] = [pc |-> "remove", ex |-> e]]
    /\ UNCHANGED <<procVars, serviceVars, notifyVars, frame, rawClosed, drained, failed,
                   fired, logged, effects>>

(* Mutant: cleanup leaves the output streams open. *)
CleanupUndisposed(e) ==
    /\ Receive("cleanup", e)
    /\ e \in active
    /\ IsFinished(e)
    /\ op' = [op EXCEPT ![Main] = [pc |-> "remove", ex |-> e]]
    /\ UNCHANGED <<procVars, serviceVars, notifyVars, frame, streamVars,
                   fired, logged, effects>>

(* cleanup_execution of a request. One for an execution that is not over   *)
(* raises, one for an execution that is not active returns.                *)
CleanupExecution(e) ==
    /\ Receive("cleanup", e)
    /\ e \in active
    /\ IsFinished(e)
    /\ Dispose(e)
    /\ op' = [op EXCEPT ![Main] = [pc |-> "remove", ex |-> e]]
    /\ UNCHANGED <<procVars, serviceVars, notifyVars, frame, rawClosed, drained, failed,
                   fired, logged, effects>>

RemoveActive ==
    /\ AtOp(Main, "remove")
    /\ active' = active \ {op[Main].ex}
    /\ Return(Main)
    /\ UNCHANGED <<procVars, executors, infos, notifyVars, frame, streamVars, outVars>>

(* ScriptStreamSocket.open *)
OpenSocket(e) ==
    /\ Receive("socket", e)
    /\ e \in infos
    /\ AddFinishListener(Main, e, "socket")
    /\ UNCHANGED <<procVars, serviceVars, notifyVars, op, streamVars, fired, logged, effects>>

-----------------------------------------------------------------------------
(* Mutant: the listener is run at once, whatever the process does. *)
CheckNothing(t) ==
    /\ frame[t].pc = "check"
    /\ Then(t, "run")
    /\ UNCHANGED <<procVars, serviceVars, notifyVars, op, streamVars, outVars>>

(* Mutant: the listener is appended before the check, and run as well. *)
AppendThenCheck(t) ==
    LET e == frame[t].ex IN
    /\ frame[t].pc = "check"
    /\ listeners' = [listeners EXCEPT ![e] = Append(@, frame[t].l)]
    /\ IF IsFinished(e) THEN Then(t, "run") ELSE Done(t)
    /\ UNCHANGED <<procVars, serviceVars, next, notified, early, op, streamVars, outVars>>

(* ProcessWrapper.add_finish_listener, in any thread. *)
CheckFinished(t) ==
    /\ frame[t].pc = "check"
    /\ Then(t, IF IsFinished(frame[t].ex) THEN "run" ELSE "append")
    /\ UNCHANGED <<procVars, serviceVars, notifyVars, op, streamVars, outVars>>

AppendListener(t) ==
    LET e == frame[t].ex IN
    /\ frame[t].pc = "append"
    /\ listeners' = [listeners EXCEPT ![e] = Append(@, frame[t].l)]
    /\ Done(t)
    /\ UNCHANGED <<procVars, serviceVars, next, notified, early, op, streamVars, outVars>>

(* notify_finished: the loop over the live list. *)
NotifyNext(e) ==
    /\ IsFinished(e)
    /\ e \notin notified
    /\ Free(e)
    /\ next[e] < Len(listeners[e])
    /\ next' = [next EXCEPT ![e] = @ + 1]
    /\ frame' = [frame EXCEPT ![e] = [pc |-> "run", ex |-> e, l |-> listeners[e][next'[e]]]]
    /\ UNCHANGED <<procVars, serviceVars, listeners, notified, early, op, streamVars, outVars>>

(* Mutant: an exception in a listener ends the loop. *)
NotifyAborts(e) ==
    /\ IsFinished(e)
    /\ e \notin notified
    /\ Free(e)
    /\ next[e] \in {1, Len(listeners[e])}
    /\ notified' = notified \cup {e}
    /\ UNCHANGED <<procVars, serviceVars, listeners, next, early, op, frame, streamVars, outVars>>

NotifyEnd(e) ==
    /\ IsFinished(e)
    /\ e \notin notified
    /\ Free(e)
    /\ next[e] = Len(listeners[e])
    /\ notified' = notified \cup {e}
    /\ UNCHANGED <<procVars, serviceVars, listeners, next, early, op, frame, streamVars, outVars>>

-----------------------------------------------------------------------------
(* The bodies of the listeners, in the thread that calls them. *)

Fire(t) == fired' = [fired EXCEPT ![frame[t].ex] = Append(@, frame[t].l)]
Achieve(t, what) == effects' = effects \cup {<<what, frame[t].ex>>}

(* _ScriptHandler._execution_finished: read_until_closed, without timeout. *)
RunDownload(t) ==
    /\ AtFrame(t, "download", "run")
    /\ Fire(t) /\ Then(t, "wait")
    /\ UNCHANGED <<procVars, serviceVars, notifyVars, op, streamVars, requested, logged, effects>>

EndDownload(t) ==
    /\ AtFrame(t, "download", "wait")
    /\ frame[t].ex \in rawClosed
    /\ Achieve(t, "files") /\ Done(t)
    /\ UNCHANGED <<procVars, serviceVars, notifyVars, op, streamVars, requested, fired, logged>>

(* _fire_execution_finished: write_post_execution_info, the fail alerter,  *)
(* the finish callback; an exception in one does not stop the others.      *)
RunService(t) ==
    LET e == frame[t].ex IN
    /\ AtFrame(t, "service", "run")
    /\ Fire(t)
    /\ IF e \in logged THEN Achieve(t, "exitCode") ELSE UNCHANGED effects
    /\ Then(t, IF code[e] = 0 THEN "callback" ELSE "alert")
    /\ UNCHANGED <<procVars, serviceVars, notifyVars, op, streamVars, requested, logged>>

(* Mutant: the alerter gives up on an active execution. *)
StartNoAlert(t) ==
    /\ AtFrame(t, "service", "alert")
    /\ Then(t, IF frame[t].ex \in active THEN "callback" ELSE "alertWait")
    /\ UNCHANGED <<procVars, serviceVars, notifyVars, op, streamVars, outVars>>

(* FailAlerterFeature: get_config raises when the id is not active. *)
StartAlert(t) ==
    /\ AtFrame(t, "service", "alert")
    /\ Then(t, IF frame[t].ex \in active THEN "alertWait" ELSE "callback")
    /\ UNCHANGED <<procVars, serviceVars, notifyVars, op, streamVars, outVars>>

SendAlert(t) ==
    /\ AtFrame(t, "service", "alertWait")
    /\ frame[t].ex \in rawClosed
    /\ Achieve(t, "alert") /\ Then(t, "callback")
    /\ UNCHANGED <<procVars, serviceVars, notifyVars, op, streamVars, requested, fired, logged>>

(* ExecutionsCallbackFeature: get_config raises when the id is not active. *)
SendCallback(t) ==
    /\ AtFrame(t, "service", "callback")
    /\ IF frame[t].ex \in active THEN Achieve(t, "callback") ELSE UNCHANGED effects
    /\ Done(t)
    /\ UNCHANGED <<procVars, serviceVars, notifyVars, op, streamVars, requested, fired, logged>>

RunKillChildren(t) ==
    /\ AtFrame(t, "killChildren", "run")
    /\ Fire(t) /\ Done(t)
    /\ child' = child \ {frame[t].ex}
    /\ UNCHANGED <<proc, code, signalled, serviceVars, notifyVars, op, streamVars,
                   requested, logged, effects>>

(* The websocket's finished(): wait_close with a timeout, then close(1000). *)
RunSocket(t) ==
    /\ AtFrame(t, "socket", "run")
    /\ Fire(t) /\ Then(t, "wait")
    /\ UNCHANGED <<procVars, serviceVars, notifyVars, op, streamVars, requested, logged, effects>>

CloseSocket(t) ==
    /\ AtFrame(t, "socket", "wait")
    /\ Achieve(t, "socketClosed") /\ Done(t)
    /\ UNCHANGED <<procVars, serviceVars, notifyVars, op, streamVars, requested, fired, logged>>

(* cleanup_execution of the scheduler. *)
RunCleanup(t) ==
    LET e == frame[t].ex IN
    /\ AtFrame(t, "cleanup", "run")
    /\ Fire(t)
    /\ IF e \in active /\ IsFinished(e)
       THEN Dispose(e) /\ Then(t, "remove")
       ELSE Done(t) /\ UNCHANGED srcClosed
    /\ UNCHANGED <<procVars, serviceVars, notifyVars, op, rawClosed, drained, failed,
                   requested, logged, effects>>

EndCleanup(t) ==
    /\ AtFrame(t, "cleanup", "remove")
    /\ active' = active \ {frame[t].ex}
    /\ Done(t)
    /\ UNCHANGED <<procVars, executors, infos, notifyVars, op, streamVars, outVars>>

-----------------------------------------------------------------------------
(* The script itself, and the threads that move its output. *)

(* Mutant: the return code of a killed process is kept as it is, negative. *)
ExitNegative(e) ==
    /\ proc[e] = "running"
    /\ proc' = [proc EXCEPT ![e] = "finished"]
    /\ \E c \in {0, 1} : code' = [code EXCEPT ![e] = IF e \in signalled THEN c - 1 ELSE c]
    /\ early' = [early EXCEPT ![e] = Len(listeners[e])]
    /\ UNCHANGED <<child, signalled, serviceVars, listeners, next, notified, op, frame,
                   streamVars, outVars>>

(* poll() is not None from now on. The code may be 0 even after a SIGKILL, *)
(* which may find a process that has ended and has not been waited for.    *)
Exit(e) ==
    /\ proc[e] = "running"
    /\ proc' = [proc EXCEPT ![e] = "finished"]
    /\ \E c \in {0, 1} : code' = [code EXCEPT ![e] = c]
    /\ early' = [early EXCEPT ![e] = Len(listeners[e])]
    /\ UNCHANGED <<child, signalled, serviceVars, listeners, next, notified, op, frame,
                   streamVars, outVars>>

ChildExit(e) ==
    /\ e \in child
    /\ child' = child \ {e}
    /\ UNCHANGED <<proc, code, signalled, serviceVars, notifyVars, op, frame,
                   streamVars, outVars>>

(* pipe_process_output ends: without a terminal only once nobody holds the *)
(* other end of stdout, on a terminal when there is nothing left to read.  *)
ReaderEnds(e) ==
    /\ IsFinished(e)
    /\ e \notin drained
    /\ e \in Popen => e \notin child
    /\ drained' = drained \cup {e}
    /\ srcClosed' = srcClosed \cup {e}
    /\ UNCHANGED <<procVars, serviceVars, notifyVars, op, frame, rawClosed, failed, outVars>>

(* The except branch of pipe_process_output, whatever the process does at  *)
(* that moment: the group is killed, if that does not raise in its turn,   *)
(* and the stream is closed.                                               *)
ReaderFails(e) ==
    /\ e \in Fallible
    /\ proc[e] # "none"
    /\ e \notin drained
    /\ drained' = drained \cup {e}
    /\ failed' = failed \cup {e}
    /\ srcClosed' = srcClosed \cup {e}
    /\ \/ UNCHANGED <<child, signalled>>
       \/ /\ ~IsFinished(e)
          /\ child' = child \ {e}
          /\ signalled' = signalled \cup {e}
    /\ UNCHANGED <<proc, code, serviceVars, notifyVars, op, frame, rawClosed, outVars>>

(* _TimeBufferedPipe.flush_buffer closes itself and the replay pipes. *)
FlushEnds(e) ==
    /\ e \in srcClosed
    /\ e \notin rawClosed
    /\ rawClosed' = rawClosed \cup {e}
    /\ UNCHANGED <<procVars, serviceVars, notifyVars, op, frame, srcClosed, drained, failed,
                   outVars>>

-----------------------------------------------------------------------------
StartStep(t) ==
    \/ RegisterExecutor(t) \/ StartRaises(t) \/ RegisterInfo(t) \/ Activate(t)
    \/ FireExecutionStarted(t) \/ AddPostFinishHandling(t) \/ AddAutoCleanup(t)

MainStep == Terminate \/ AddKillChildren \/ Sigkill \/ RemoveActive

ListenerStep(t) ==
    \/ CheckFinished(t) \/ AppendListener(t)
    \/ RunDownload(t) \/ EndDownload(t)
    \/ RunService(t) \/ StartAlert(t) \/ SendAlert(t) \/ SendCallback(t)
    \/ RunKillChildren(t) \/ RunSocket(t) \/ CloseSocket(t)
    \/ RunCleanup(t) \/ EndCleanup(t)

NotifyStep(e) == NotifyNext(e) \/ NotifyEnd(e)

ClientStep(e) ==
    StopScript(e) \/ KillScript(e) \/ CleanupExecution(e) \/ OpenSocket(e)

Next ==
    \/ \E t \in {Main, Sched} : StartStep(t)
    \/ MainStep
    \/ \E t \in Thread : ListenerStep(t)
    \/ \E e \in Exec :
          \/ StartProcess(e) \/ ClientStep(e) \/ NotifyStep(e)
          \/ Exit(e) \/ ChildExit(e)
          \/ ReaderEnds(e) \/ ReaderFails(e) \/ FlushEnds(e)

Spec == Init /\ [][Next]_vars

(***************************************************************************)
(* The operating system runs every thread, and delivers SIGKILL. Nothing   *)
(* obliges a script to end, a child to end, or a client to send a request. *)
(***************************************************************************)
Fairness ==
    /\ \A t \in {Main, Sched} : WF_vars(StartStep(t))
    /\ WF_vars(MainStep)
    /\ \A t \in Thread : WF_vars(ListenerStep(t))
    /\ \A e \in Exec :
          /\ WF_vars(NotifyStep(e))
          /\ WF_vars(ReaderEnds(e))
          /\ WF_vars(FlushEnds(e))
          /\ WF_vars(e \in signalled /\ Exit(e))

FairSpec == Spec /\ Fairness
-----------------------------------------------------------------------------
(* Properties. *)

HasFired(e, l) == \E i \in 1..Len(fired[e]) : fired[e][i] = l
InTimeFor(e, l) == \E i \in 1..early[e] : listeners[e][i] = l

(* Every variable stays in its type: the one type invariant. *)
TypeOK ==
    /\ proc \in [Exec -> {"none", "running", "finished"}]
    /\ code \in [Exec -> {0, 1}]
    /\ child \subseteq Exec /\ signalled \subseteq Exec
    /\ executors \subseteq Exec /\ infos \subseteq Exec /\ active \subseteq Exec
    /\ listeners \in [Exec -> Seq(Listener)]
    /\ next \in [Exec -> Nat] /\ early \in [Exec -> Nat]
    /\ notified \subseteq Exec
    /\ op \in [{Main, Sched} -> [pc : OpPc, ex : Exec \cup {None}]]
    /\ frame \in [Thread -> [pc : FramePc, ex : Exec \cup {None},
                             l : Listener \cup {"none"}]]
    /\ srcClosed \subseteq Exec /\ rawClosed \subseteq Exec /\ drained \subseteq Exec
    /\ failed \subseteq drained
    /\ requested \subseteq Requests
    /\ logged \subseteq Exec
    /\ fired \in [Exec -> Seq(Listener)]
    /\ effects \subseteq {"stopped", "exitCode", "files", "alert", "callback",
                          "socketClosed"} \X Exec

(* No finish listener is called while the script still runs, whichever     *)
(* thread calls it: the notify thread or the one that registers it.        *)
FiredAfterFinish == \A e \in Exec : fired[e] # <<>> => IsFinished(e)

(* A registered finish listener is called at most once: never both at      *)
(* registration and by the notify thread.                                  *)
FiredOnce ==
    \A e \in Exec : \A i, j \in 1..Len(fired[e]) :
        fired[e][i] = fired[e][j] => i = j

(* "output_stream is guaranteed to close not earlier than process exit"    *)
(* (process_base.py:24), whoever closes it, the reader or a cleanup, but    *)
(* for a reader thread that ends by an exception: that one sends a SIGKILL *)
(* and closes the stream without waiting for the end.                      *)
StreamOutlivesProcess == \A e \in srcClosed : IsFinished(e) \/ e \in failed

(* get_active_executions looks up _execution_infos[id] for each active id, *)
(* and handlers look up its executor: both are there before it is active.  *)
ActiveIsRegistered == active \subseteq (executors \cap infos)

(* Both threads keep the collections consistent: types, what is active is  *)
(* registered, and a stream that is closed belongs to a process that ended *)
(* or to a reader thread that failed.                                      *)
Consistent == TypeOK /\ ActiveIsRegistered /\ StreamOutlivesProcess

(* The listeners appended before the end of the script are all called      *)
(* before the notify thread is over, listeners added meanwhile or not.     *)
EarlyListenersFire ==
    \A e \in notified : \A i \in 1..early[e] : HasFired(e, listeners[e][i])

(* An execution leaves the active ones only when its process is over and   *)
(* its output stream disposed of, whoever cleans it up.                    *)
OnlyDisposedBecomeInactive ==
    [][\A e \in active \ active' : IsFinished(e) /\ e \in srcClosed]_vars

(* A child of a script without a terminal holds the output open.           *)
OutputHeld(e) == e \in Popen \cap child

(* Once the process is over, every listener appended before that is called *)
(* in the end: no listener keeps the notify thread from the next ones, but *)
(* one that waits for an output that a child in the background holds open. *)
EarlyListenersNotified ==
    \A e \in Exec : \A i \in 1..Cardinality(Listener) :
        (IsFinished(e) /\ i <= early[e]) ~>
            ((i <= early[e] /\ HasFired(e, listeners[e][i])) \/ OutputHeld(e))

(* A failure of a script whose handling was in place before it ended is    *)
(* alerted, unless the execution was cleaned up before or a child holds    *)
(* its output open.                                                        *)
FailureAlerted ==
    \A e \in Exec :
        (IsFinished(e) /\ code[e] = 1 /\ InTimeFor(e, "service")) ~>
            (<<"alert", e>> \in effects \/ e \notin active \/ OutputHeld(e))

(* The listeners that were there in time are called in the end, the alert  *)
(* of a failure among them, but for an output that a child holds open.     *)
EarlyListenersServed == EarlyListenersNotified /\ FailureAlerted

(* A listener in the IOLoop thread, called there because the script was    *)
(* over when it was added, waits without a timeout for an output that a    *)
(* child of the script holds open (file_download_feature.py:132,           *)
(* fail_alerter_feature.py:34).                                            *)
MainHeld ==
    \E e \in Exec :
        /\ frame[Main].ex = e /\ OutputHeld(e)
        /\ AtFrame(Main, "download", "wait") \/ AtFrame(Main, "service", "alertWait")

(* The IOLoop comes back to serving requests again and again, and the one  *)
(* thing that keeps it is MainHeld: a script started over HTTP and without *)
(* a terminal, over before its listener is added, whose child in the       *)
(* background lives on. Then no request is answered until the child ends.  *)
MainResponsive == []<>((op[Main] = Idle /\ Free(Main)) \/ MainHeld)

(* A killed execution ends, and with it its output, even if the script had *)
(* left children in the background.                                        *)
KillEndsOutput == \A e \in Exec : (e \in signalled) ~> (e \in rawClosed)

(* The output of an execution comes to its end: by a kill, and before the  *)
(* execution becomes inactive.                                             *)
OutputsEnd == KillEndsOutput /\ OnlyDisposedBecomeInactive
=============================================================================
