----------------------------- MODULE ExecutionLog -----------------------------
(***************************************************************************)
(* The log file of one execution. ScriptOutputLogger writes the output to  *)
(* it as the stream gives it; when the execution is finished and the       *)
(* stream closed, the file is read and written anew with the exit code.    *)
(*                                                                         *)
(* "main" is the thread that starts the script and runs the start          *)
(* listeners, "flush" the thread that pushes the output, "notify" the one  *)
(* that tells the finish listeners. What a subscriber gets of the stream   *)
(* is ReplayStream's matter: here a subscription replays and joins in one. *)
(***************************************************************************)
EXTENDS Integers, Sequences

CONSTANT MaxChunks      \* bound: the chunks of the output

ASSUME MaxChunksAssumption == MaxChunks \in Nat

Thread == {"main", "flush", "notify"}

VARIABLES
    exited,         \* the process has ended
    pushed,         \* the number of chunks pushed to the stream
    streamClosed,
    subscribed,     \* the logger observes the stream
    handle,         \* log_file: "none", "open" or "closed"
    log,            \* the file: its header, its output, its exit_code lines
    loggerClosed,   \* ScriptOutputLogger.closed
    callback,       \* whether close_callback is set
    registered,     \* the service knows the logger and the file of the execution
    attached,       \* the finish listener is in the process's list
    missed,         \* not in the code: the list was passed just before it was in
    pc,
    copy            \* what each thread read from the file

vars == <<exited, pushed, streamClosed, subscribed, handle, log, loggerClosed,
          callback, registered, attached, missed, pc, copy>>
stream == <<exited, pushed, streamClosed, subscribed>>
logger == <<handle, loggerClosed, callback>>
finishing == <<attached, missed>>
service == <<registered, finishing>>

NoFile == [head |-> FALSE, out |-> <<>>, codes |-> 0]

Goto(t, label) == pc' = [pc EXCEPT ![t] = label]

Init ==
    /\ exited = FALSE /\ pushed = 0 /\ streamClosed = FALSE /\ subscribed = FALSE
    /\ handle = "none" /\ log = NoFile /\ loggerClosed = FALSE /\ callback = FALSE
    /\ registered = FALSE /\ attached = FALSE /\ missed = FALSE
    /\ pc = [t \in Thread |-> IF t = "main" THEN "open"
                             ELSE IF t = "flush" THEN "push" ELSE "wait"]
    /\ copy = [t \in Thread |-> NoFile]

-----------------------------------------------------------------------------
(* The process and its stream. *)

Exit ==
    /\ ~exited
    /\ exited' = TRUE
    /\ UNCHANGED <<pushed, streamClosed, subscribed, logger, log, service, pc, copy>>

(* on_next of the logger writes the chunk and flushes it. *)
Push ==
    /\ pc["flush"] = "push"
    /\ pushed < MaxChunks
    /\ pushed' = pushed + 1
    /\ log' = IF subscribed /\ handle = "open"
              THEN [log EXCEPT !.out = Append(@, pushed')]
              ELSE log
    /\ UNCHANGED <<exited, streamClosed, subscribed, logger, service, pc, copy>>

(* Not before the process has ended. *)
CloseStream ==
    /\ pc["flush"] = "push"
    /\ exited
    /\ streamClosed' = TRUE
    /\ Goto("flush", IF subscribed THEN "close" ELSE "done")
    /\ UNCHANGED <<exited, pushed, subscribed, logger, log, service, copy>>

-----------------------------------------------------------------------------
(* start_logging, and then the finish listener of the execution. *)

(* The file may not be created: the output is not logged then. *)
OpenLog ==
    /\ pc["main"] = "open"
    /\ \/ /\ handle' = "open"
          /\ log' = [log EXCEPT !.head = TRUE]
       \/ UNCHANGED <<handle, log>>
    /\ Goto("main", "subscribe")
    /\ UNCHANGED <<stream, loggerClosed, callback, service, copy>>

(* Mutant: the replay begins one chunk too early. *)
SubscribeFromZero ==
    /\ pc["main"] = "subscribe"
    /\ log' = IF handle = "open" THEN [log EXCEPT !.out = [n \in 1..pushed |-> n - 1]] ELSE log
    /\ subscribed' = ~streamClosed
    /\ Goto("main", IF streamClosed THEN "close" ELSE "register")
    /\ UNCHANGED <<exited, pushed, streamClosed, logger, service, copy>>

Subscribe ==
    /\ pc["main"] = "subscribe"
    /\ log' = IF handle = "open" THEN [log EXCEPT !.out = [n \in 1..pushed |-> n]] ELSE log
    /\ subscribed' = ~streamClosed
    /\ Goto("main", IF streamClosed THEN "close" ELSE "register")
    /\ UNCHANGED <<exited, pushed, streamClosed, logger, service, copy>>

Register ==
    /\ pc["main"] = "register"
    /\ registered' = TRUE
    /\ Goto("main", "attach")
    /\ UNCHANGED <<stream, logger, log, finishing, copy>>

(* Mutant: the listener is added without a look at the process. *)
AttachUnchecked ==
    /\ pc["main"] = "attach"
    /\ Goto("main", "append")
    /\ UNCHANGED <<stream, logger, log, service, copy>>

(* add_finish_listener calls the listener itself when the process has ended, *)
(* and otherwise puts it into the list. There is no lock between the two.    *)
Attach ==
    /\ pc["main"] = "attach"
    /\ Goto("main", IF exited THEN "finished" ELSE "append")
    /\ UNCHANGED <<stream, logger, log, service, copy>>

AppendListener ==
    /\ pc["main"] = "append"
    /\ attached' = TRUE
    /\ Goto("main", "done")
    /\ UNCHANGED <<stream, logger, log, registered, missed, copy>>

(* The thread started with the process goes through the list once, whether *)
(* the listener is in it by then or not.                                   *)
Notify ==
    /\ pc["notify"] = "wait"
    /\ exited
    /\ Goto("notify", IF attached THEN "finished" ELSE "done")
    /\ missed' = (~attached /\ pc["main"] = "append")
    /\ UNCHANGED <<stream, logger, log, registered, attached, copy>>

-----------------------------------------------------------------------------
(* write_post_execution_info and set_close_callback, by whoever runs the   *)
(* finish listener.                                                        *)

Finished(t) ==
    /\ pc[t] = "finished"
    /\ Goto(t, IF registered THEN "set" ELSE "done")
    /\ UNCHANGED <<stream, logger, log, service, copy>>

(* Mutant: the exit code is written without waiting for the output. *)
SetAndCall(t) ==
    /\ pc[t] = "set"
    /\ callback' = TRUE
    /\ Goto(t, "read")
    /\ UNCHANGED <<stream, handle, loggerClosed, log, service, copy>>

SetCallback(t) ==
    /\ pc[t] = "set"
    /\ callback' = TRUE
    /\ Goto(t, IF callback THEN "done" ELSE "check")
    /\ UNCHANGED <<stream, handle, loggerClosed, log, service, copy>>

(* Mutant: the logger calls the callback that is set when it closes. *)
CheckNothing(t) ==
    /\ pc[t] = "check"
    /\ Goto(t, "done")
    /\ UNCHANGED <<stream, logger, log, service, copy>>

CheckClosed(t) ==
    /\ pc[t] = "check"
    /\ Goto(t, IF loggerClosed THEN "read" ELSE "done")
    /\ UNCHANGED <<stream, logger, log, service, copy>>

-----------------------------------------------------------------------------
(* ScriptOutputLogger._close, by the thread that closes the stream or the  *)
(* one that subscribes to a closed one.                                    *)

Close(t) ==
    /\ pc[t] = "close"
    /\ handle' = IF handle = "open" THEN "closed" ELSE handle
    /\ loggerClosed' = TRUE
    /\ Goto(t, "closed")
    /\ UNCHANGED <<stream, callback, log, service, copy>>

CallCallback(t) ==
    /\ pc[t] = "closed"
    /\ Goto(t, IF callback THEN "read" ELSE IF t = "main" THEN "register" ELSE "done")
    /\ UNCHANGED <<stream, logger, log, service, copy>>

-----------------------------------------------------------------------------
(* _write_post_execution_info: the file is read, truncated and written. A  *)
(* thread that reads a truncated file does not find the marker and raises. *)

ReadFile(t) ==
    /\ pc[t] = "read"
    /\ copy' = [copy EXCEPT ![t] = log]
    /\ Goto(t, IF log.head THEN "truncate" ELSE "done")
    /\ UNCHANGED <<stream, logger, log, service>>

Truncate(t) ==
    /\ pc[t] = "truncate"
    /\ log' = NoFile
    /\ Goto(t, "write")
    /\ UNCHANGED <<stream, logger, service, copy>>

WriteFile(t) ==
    /\ pc[t] = "write"
    /\ log' = [copy[t] EXCEPT !.codes = @ + 1]
    /\ Goto(t, "done")
    /\ UNCHANGED <<stream, logger, service, copy>>

-----------------------------------------------------------------------------
MainStep == OpenLog \/ Subscribe \/ Register \/ Attach \/ AppendListener

Step(t) ==
    \/ Finished(t) \/ SetCallback(t) \/ CheckClosed(t)
    \/ Close(t) \/ CallCallback(t)
    \/ ReadFile(t) \/ Truncate(t) \/ WriteFile(t)

Next == Exit \/ Push \/ CloseStream \/ MainStep \/ Notify \/ \E t \in Thread : Step(t)

Spec == Init /\ [][Next]_vars

(* The threads run. Neither the end of the process nor that of its stream  *)
(* is assumed.                                                             *)
FairSpec ==
    /\ Spec
    /\ WF_vars(MainStep) /\ WF_vars(Notify)
    /\ \A t \in Thread : WF_vars(Step(t))

-----------------------------------------------------------------------------
Label == {"open", "subscribe", "register", "attach", "append", "push", "wait", "finished", "set",
          "check", "close", "closed", "read", "truncate", "write", "done"}

Content == [head : BOOLEAN, out : Seq(1..MaxChunks), codes : 0..2]

\* The log, the writer and the threads at it stay in their types, and no third
\* exit code is ever written.
TypeOK ==
    /\ {exited, streamClosed, subscribed, loggerClosed, callback, registered, attached,
        missed} \subseteq BOOLEAN
    /\ pushed \in 0..MaxChunks
    /\ handle \in {"none", "open", "closed"}
    /\ log \in Content
    /\ pc \in [Thread -> Label]
    /\ copy \in [Thread -> Content]

AllOutput == [n \in 1..pushed |-> n]
Logging == handle # "none" /\ (subscribed \/ loggerClosed)
Rewriting == \E t \in Thread : pc[t] = "write"

(* The rewriting of the file costs no output: but for the moment in which  *)
(* it is truncated, the file has all the output there was, though the      *)
(* finish of the process, the end of the output and the two threads that   *)
(* may rewrite the file come in any order.                                 *)
OutputKept == Logging /\ ~Rewriting => log.head /\ log.out = AllOutput

Quiet == \A t \in Thread : pc[t] = "done"

(* When everybody is done, the exit code is in the file. One case is out: a *)
(* script that ends between the check and the append of add_finish_listener *)
(* may lose the listener that writes the code, and then nobody does.        *)
CodeAtRest == Quiet /\ handle # "none" /\ ~missed => log.codes >= 1

(* The exit code gets into the file once the stream is closed, whether the *)
(* finish listener or the closing comes first (as                          *)
(* test_write_post_execution_info_before_log_closed has it for one order), *)
(* unless the listener was lost as above. A listener that is called too    *)
(* early, or added to a list that was passed long ago, is no excuse.       *)
ExitCodeWritten ==
    handle # "none" /\ streamClosed ~> missed \/ (log.codes >= 1 /\ ~Rewriting)

(* The log keeps its output through the rewriting and has its exit code    *)
(* when everybody is done.                                                 *)
LogKept == TypeOK /\ OutputKept /\ CodeAtRest
=============================================================================
