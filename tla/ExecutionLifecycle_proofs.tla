---------------------- MODULE ExecutionLifecycle_proofs ----------------------
(***************************************************************************)
(* Proofs about ExecutionLifecycle, for any set of executions.             *)
(***************************************************************************)
EXTENDS ExecutionLifecycle, SequenceTheorems, TLAPS

-----------------------------------------------------------------------------
(* The inductive invariant, in named parts. *)

(* A thread that is doing something does it to an execution. *)
ThreadsBusy ==
    /\ \A t \in {Main, Sched} : op[t].pc # "idle" => op[t].ex \in Exec
    /\ \A t \in Thread : frame[t].pc # "idle" =>
          frame[t].ex \in Exec /\ frame[t].l \in Listener

(* A listener is running only for an execution that is over. *)
RunningIsFinished ==
    \A t \in Thread : frame[t].pc \notin {"idle", "check", "append"} =>
        IsFinished(frame[t].ex)

(* How far start_script has come, for the ids that are not active yet. *)
Registering ==
    \A t \in {Main, Sched} :
        /\ op[t].pc \in {"info", "activate"} => op[t].ex \in executors
        /\ op[t].pc = "activate" => op[t].ex \in infos

(* Whoever is about to deactivate an execution has disposed of it. *)
RemovingIsDisposed ==
    /\ \A t \in {Main, Sched} : op[t].pc = "remove" =>
          IsFinished(op[t].ex) /\ op[t].ex \in srcClosed
    /\ \A t \in Thread : AtFrame(t, "cleanup", "remove") =>
          IsFinished(frame[t].ex) /\ frame[t].ex \in srcClosed

(* A notify thread only runs listeners of its own execution, and "remove"  *)
(* is a step of cleanup alone.                                             *)
NotifyThreads ==
    \A e \in Exec : frame[e].pc # "idle" =>
        /\ frame[e].ex = e
        /\ frame[e].pc \notin {"check", "append"}

(* The loop of notify_finished: it starts at the end of the process, stops *)
(* at the end of the list, and calls what it passes.                       *)
NotifyLoop ==
    \A e \in Exec :
        /\ ~IsFinished(e) => next[e] = 0 /\ e \notin notified /\ early[e] = 0
        /\ early[e] <= Len(listeners[e])
        /\ next[e] <= Len(listeners[e])
        /\ e \in notified => next[e] >= early[e] /\ frame[e].pc = "idle"
        /\ \A i \in 1..next[e] :
              \/ HasFired(e, listeners[e][i])
              \/ frame[e].pc = "run" /\ frame[e].l = listeners[e][i]

-----------------------------------------------------------------------------
(* What the steps of an action do to the threads. *)

USE ExecAssumption DEF Request, Listener, Thread, OpPc, FramePc, Idle, NoFrame

LEMMA TypeInit == Init => TypeOK /\ ThreadsBusy
BY DEF Init, TypeOK, ThreadsBusy

(* What the helpers of the actions do to the types of what they change. *)
LEMMA FrameTyped ==
    ASSUME TypeOK, NEW t \in Thread,
           \/ frame' = frame \/ Done(t)
           \/ \E pc \in FramePc : Then(t, pc)
           \/ \E e \in Exec, l \in Listener : AddFinishListener(t, e, l)
    PROVE  frame' \in [Thread -> [pc : FramePc, ex : Exec \cup {None},
                                  l : Listener \cup {"none"}]]
<1>1. CASE frame' = frame \/ Done(t)
  <2>1. frame \in [Thread -> [pc : FramePc, ex : Exec \cup {None}, l : Listener \cup {"none"}]]
    BY DEF TypeOK
  <2>2. NoFrame \in [pc : FramePc, ex : Exec \cup {None}, l : Listener \cup {"none"}]
    BY DEF NoFrame, FramePc
  <2> QED BY <1>1, <2>1, <2>2 DEF Done
<1>2. CASE \E pc \in FramePc : Then(t, pc)
  BY <1>2 DEF TypeOK, Then
<1>3. CASE \E e \in Exec, l \in Listener : AddFinishListener(t, e, l)
  BY <1>3 DEF TypeOK, AddFinishListener
<1> QED BY <1>1, <1>2, <1>3

LEMMA OpTyped ==
    ASSUME TypeOK, NEW t \in {Main, Sched}, op' = op \/ Return(t) \/ \E pc \in OpPc : Goto(t, pc)
    PROVE  op' \in [{Main, Sched} -> [pc : OpPc, ex : Exec \cup {None}]]
BY DEF TypeOK, Return, Goto

LEMMA FireTyped ==
    ASSUME TypeOK, NEW t \in Thread, frame[t].ex \in Exec, frame[t].l \in Listener, Fire(t)
    PROVE  fired' \in [Exec -> Seq(Listener)]
<1>1. fired[frame[t].ex] \in Seq(Listener)
  BY DEF TypeOK
<1>2. Append(fired[frame[t].ex], frame[t].l) \in Seq(Listener)
  BY <1>1, AppendProperties
<1> QED BY <1>2 DEF TypeOK, Fire

Effect == {"stopped", "exitCode", "files", "alert", "callback", "socketClosed"}

LEMMA AchieveTyped ==
    ASSUME TypeOK, NEW t \in Thread, frame[t].ex \in Exec, NEW w \in Effect,
           Achieve(t, w) \/ effects' = effects
    PROVE  effects' \subseteq Effect \X Exec
<1>1. effects \subseteq Effect \X Exec
  BY DEF TypeOK, Effect
<1>2. CASE Achieve(t, w)
  <2>1. <<w, frame[t].ex>> \in Effect \X Exec
    OBVIOUS
  <2> QED BY <1>1, <1>2, <2>1 DEF Achieve
<1> QED BY <1>1, <1>2

(* A step of a listener's body changes only what these helpers change. *)
LEMMA TypeListener ==
    ASSUME TypeOK, ThreadsBusy, NEW t \in Thread, ListenerStep(t)
    PROVE  TypeOK'
<1>1. frame[t].pc # "idle" => frame[t].ex \in Exec /\ frame[t].l \in Listener
  BY DEF ThreadsBusy
<1> USE DEF procVars, serviceVars, notifyVars, streamVars, outVars, AtFrame
<1>2. CASE CheckFinished(t)
  <2>1. frame' \in [Thread -> [pc : FramePc, ex : Exec \cup {None}, l : Listener \cup {"none"}]]
    BY <1>2, FrameTyped DEF CheckFinished
  <2> QED BY <1>2, <2>1 DEF CheckFinished, TypeOK
<1>3. CASE AppendListener(t)
  <2>1. frame' \in [Thread -> [pc : FramePc, ex : Exec \cup {None}, l : Listener \cup {"none"}]]
    BY <1>3, FrameTyped DEF AppendListener
  <2>2. listeners[frame[t].ex] \in Seq(Listener) /\ frame[t].l \in Listener
    BY <1>1, <1>3 DEF AppendListener, TypeOK
  <2>3. Append(listeners[frame[t].ex], frame[t].l) \in Seq(Listener)
    BY <2>2, AppendProperties
  <2>4. listeners' \in [Exec -> Seq(Listener)]
    BY <1>3, <2>3 DEF AppendListener, TypeOK
  <2> QED BY <1>3, <2>1, <2>4 DEF AppendListener, TypeOK
<1>4. CASE RunDownload(t)
  <2>1. frame' \in [Thread -> [pc : FramePc, ex : Exec \cup {None}, l : Listener \cup {"none"}]]
    BY <1>4, FrameTyped DEF RunDownload
  <2>2. fired' \in [Exec -> Seq(Listener)]
    BY <1>1, <1>4, FireTyped DEF RunDownload
  <2> QED BY <1>4, <2>1, <2>2 DEF RunDownload, TypeOK
<1>5. CASE EndDownload(t)
  <2>1. frame' \in [Thread -> [pc : FramePc, ex : Exec \cup {None}, l : Listener \cup {"none"}]]
    BY <1>5, FrameTyped DEF EndDownload
  <2>2. effects' \subseteq Effect \X Exec
    BY <1>1, <1>5, AchieveTyped DEF EndDownload, Effect
  <2> QED BY <1>5, <2>1, <2>2 DEF EndDownload, TypeOK, Effect
<1>6. CASE RunService(t)
  <2>1. frame' \in [Thread -> [pc : FramePc, ex : Exec \cup {None}, l : Listener \cup {"none"}]]
    BY <1>6, FrameTyped DEF RunService
  <2>2. fired' \in [Exec -> Seq(Listener)]
    BY <1>1, <1>6, FireTyped DEF RunService
  <2>3. effects' \subseteq Effect \X Exec
    BY <1>1, <1>6, AchieveTyped DEF RunService, Effect
  <2> QED BY <1>6, <2>1, <2>2, <2>3 DEF RunService, TypeOK, Effect
<1>7. CASE StartAlert(t)
  <2>1. frame' \in [Thread -> [pc : FramePc, ex : Exec \cup {None}, l : Listener \cup {"none"}]]
    BY <1>7, FrameTyped DEF StartAlert
  <2> QED BY <1>7, <2>1 DEF StartAlert, TypeOK
<1>8. CASE SendAlert(t)
  <2>1. frame' \in [Thread -> [pc : FramePc, ex : Exec \cup {None}, l : Listener \cup {"none"}]]
    BY <1>8, FrameTyped DEF SendAlert
  <2>2. effects' \subseteq Effect \X Exec
    BY <1>1, <1>8, AchieveTyped DEF SendAlert, Effect
  <2> QED BY <1>8, <2>1, <2>2 DEF SendAlert, TypeOK, Effect
<1>9. CASE SendCallback(t)
  <2>1. frame' \in [Thread -> [pc : FramePc, ex : Exec \cup {None}, l : Listener \cup {"none"}]]
    BY <1>9, FrameTyped DEF SendCallback
  <2>2. effects' \subseteq Effect \X Exec
    BY <1>1, <1>9, AchieveTyped DEF SendCallback, Effect
  <2> QED BY <1>9, <2>1, <2>2 DEF SendCallback, TypeOK, Effect
<1>10. CASE RunKillChildren(t)
  <2>1. frame' \in [Thread -> [pc : FramePc, ex : Exec \cup {None}, l : Listener \cup {"none"}]]
    BY <1>10, FrameTyped DEF RunKillChildren
  <2>2. fired' \in [Exec -> Seq(Listener)]
    BY <1>1, <1>10, FireTyped DEF RunKillChildren
  <2> QED BY <1>10, <2>1, <2>2 DEF RunKillChildren, TypeOK
<1>11. CASE RunSocket(t)
  <2>1. frame' \in [Thread -> [pc : FramePc, ex : Exec \cup {None}, l : Listener \cup {"none"}]]
    BY <1>11, FrameTyped DEF RunSocket
  <2>2. fired' \in [Exec -> Seq(Listener)]
    BY <1>1, <1>11, FireTyped DEF RunSocket
  <2> QED BY <1>11, <2>1, <2>2 DEF RunSocket, TypeOK
<1>12. CASE CloseSocket(t)
  <2>1. frame' \in [Thread -> [pc : FramePc, ex : Exec \cup {None}, l : Listener \cup {"none"}]]
    BY <1>12, FrameTyped DEF CloseSocket
  <2>2. effects' \subseteq Effect \X Exec
    BY <1>1, <1>12, AchieveTyped DEF CloseSocket, Effect
  <2> QED BY <1>12, <2>1, <2>2 DEF CloseSocket, TypeOK, Effect
<1>13. CASE RunCleanup(t)
  <2>1. frame' \in [Thread -> [pc : FramePc, ex : Exec \cup {None}, l : Listener \cup {"none"}]]
    BY <1>13, FrameTyped DEF RunCleanup
  <2>2. fired' \in [Exec -> Seq(Listener)]
    BY <1>1, <1>13, FireTyped DEF RunCleanup
  <2>3. srcClosed' \subseteq Exec
    BY <1>1, <1>13 DEF RunCleanup, TypeOK, Dispose
  <2> QED BY <1>13, <2>1, <2>2, <2>3 DEF RunCleanup, TypeOK
<1>14. CASE EndCleanup(t)
  <2>1. frame' \in [Thread -> [pc : FramePc, ex : Exec \cup {None}, l : Listener \cup {"none"}]]
    BY <1>14, FrameTyped DEF EndCleanup
  <2> QED BY <1>14, <2>1 DEF EndCleanup, TypeOK
<1> QED BY <1>2, <1>3, <1>4, <1>5, <1>6, <1>7, <1>8, <1>9, <1>10, <1>11, <1>12, <1>13, <1>14 DEF ListenerStep

(* Every action keeps the types. *)
LEMMA TypeNext ==
    ASSUME TypeOK, ThreadsBusy, [Next]_vars
    PROVE  TypeOK'
<1> USE DEF procVars, serviceVars, notifyVars, streamVars, outVars, AtOp, IsFinished
<1>1. ASSUME NEW t \in {Main, Sched}, StartStep(t) PROVE TypeOK'
  <2>1. op[t].pc # "idle" => op[t].ex \in Exec
    BY DEF ThreadsBusy
  <2>2. op' \in [{Main, Sched} -> [pc : OpPc, ex : Exec \cup {None}]]
    BY <1>1, OpTyped DEF StartStep, RegisterExecutor, StartRaises, RegisterInfo, Activate,
       FireExecutionStarted, AddPostFinishHandling, AddAutoCleanup
  <2>3. frame' \in [Thread -> [pc : FramePc, ex : Exec \cup {None}, l : Listener \cup {"none"}]]
    BY <1>1, <2>1, FrameTyped DEF StartStep, RegisterExecutor, StartRaises, RegisterInfo, Activate,
       FireExecutionStarted, AddPostFinishHandling, AddAutoCleanup
  <2>4. CASE RegisterExecutor(t)
    BY <2>1, <2>2, <2>4 DEF RegisterExecutor, TypeOK
  <2>10. CASE StartRaises(t)
    BY <2>2, <2>10 DEF StartRaises, TypeOK
  <2>5. CASE RegisterInfo(t)
    BY <2>1, <2>2, <2>5 DEF RegisterInfo, TypeOK
  <2>6. CASE Activate(t)
    BY <2>1, <2>2, <2>6 DEF Activate, TypeOK
  <2>7. CASE FireExecutionStarted(t)
    BY <2>1, <2>2, <2>3, <2>7 DEF FireExecutionStarted, TypeOK
  <2>8. CASE AddPostFinishHandling(t)
    BY <2>2, <2>3, <2>8 DEF AddPostFinishHandling, TypeOK
  <2>9. CASE AddAutoCleanup(t)
    BY <2>2, <2>3, <2>9 DEF AddAutoCleanup, TypeOK
  <2> QED BY <1>1, <2>4, <2>5, <2>6, <2>7, <2>8, <2>9, <2>10 DEF StartStep
<1>2. CASE MainStep
  <2>1. op[Main].pc # "idle" => op[Main].ex \in Exec
    BY DEF ThreadsBusy
  <2>2. op' \in [{Main, Sched} -> [pc : OpPc, ex : Exec \cup {None}]]
    BY <1>2, OpTyped DEF MainStep, Terminate, AddKillChildren, Sigkill, RemoveActive
  <2>3. CASE Terminate
    <3>1. effects' \subseteq effects \cup {<<"stopped", op[Main].ex>>}
      BY <2>3 DEF Terminate
    <3>2. effects' \subseteq Effect \X Exec
      BY <2>1, <2>3, <3>1 DEF Terminate, TypeOK, Effect
    <3> QED BY <2>2, <2>3, <3>2 DEF Terminate, TypeOK, Effect
  <2>4. CASE AddKillChildren
    <3>1. frame' \in [Thread -> [pc : FramePc, ex : Exec \cup {None}, l : Listener \cup {"none"}]]
      BY <2>1, <2>4, FrameTyped DEF AddKillChildren
    <3> QED BY <2>2, <2>4, <3>1 DEF AddKillChildren, TypeOK
  <2>5. CASE Sigkill
    <3>1. child' \subseteq Exec /\ signalled' \subseteq Exec
      BY <2>1, <2>5 DEF Sigkill, TypeOK
    <3> QED BY <2>2, <2>5, <3>1 DEF Sigkill, TypeOK
  <2>6. CASE RemoveActive
    BY <2>1, <2>2, <2>6 DEF RemoveActive, TypeOK
  <2> QED BY <1>2, <2>3, <2>4, <2>5, <2>6 DEF MainStep
<1>3. ASSUME NEW t \in Thread, ListenerStep(t) PROVE TypeOK'
  BY <1>3, TypeListener
<1>4. ASSUME NEW e \in Exec, StartProcess(e) PROVE TypeOK'
  BY <1>4 DEF StartProcess, StarterOf, TypeOK
<1>5. ASSUME NEW e \in Exec, ClientStep(e) PROVE TypeOK'
  <2>1. CASE StopScript(e)
    BY <2>1 DEF StopScript, Receive, TypeOK
  <2>2. CASE KillScript(e)
    BY <2>2 DEF KillScript, Receive, TypeOK
  <2>3. CASE CleanupExecution(e)
    BY <2>3 DEF CleanupExecution, Receive, Dispose, TypeOK
  <2>4. CASE OpenSocket(e)
    <3>1. frame' \in [Thread -> [pc : FramePc, ex : Exec \cup {None}, l : Listener \cup {"none"}]]
      BY <2>4, FrameTyped DEF OpenSocket
    <3> QED BY <2>4, <3>1 DEF OpenSocket, Receive, TypeOK
  <2> QED BY <1>5, <2>1, <2>2, <2>3, <2>4 DEF ClientStep
<1>6. ASSUME NEW e \in Exec, NotifyStep(e) PROVE TypeOK'
  <2>1. CASE NotifyNext(e)
    BY <2>1 DEF NotifyNext, TypeOK
  <2>2. CASE NotifyEnd(e)
    BY <2>2 DEF NotifyEnd, TypeOK
  <2> QED BY <1>6, <2>1, <2>2 DEF NotifyStep
<1>7. ASSUME NEW e \in Exec, Exit(e) \/ ChildExit(e) \/ ReaderEnds(e) \/ ReaderFails(e)
                             \/ FlushEnds(e)
      PROVE TypeOK'
  <2>1. CASE Exit(e)
    BY <2>1, LenProperties DEF Exit, TypeOK
  <2>2. CASE ChildExit(e)
    BY <2>2 DEF ChildExit, TypeOK
  <2>3. CASE ReaderEnds(e)
    BY <2>3 DEF ReaderEnds, TypeOK
  <2>4. CASE FlushEnds(e)
    BY <2>4 DEF FlushEnds, TypeOK
  <2>5. CASE ReaderFails(e)
    BY <2>5 DEF ReaderFails, TypeOK
  <2> QED BY <1>7, <2>1, <2>2, <2>3, <2>4, <2>5
<1>8. CASE UNCHANGED vars
  BY <1>8 DEF vars, TypeOK
<1> QED
  BY <1>1, <1>2, <1>3, <1>4, <1>5, <1>6, <1>7, <1>8 DEF Next

(* The threads keep to what they are entitled to do. *)
ThreadInv == ThreadsBusy /\ RunningIsFinished /\ NotifyThreads

(* A step within the body of a listener, and the end of a listener. *)
LEMMA ThenStep ==
    ASSUME TypeOK, ThreadInv, NEW t \in Thread, NEW pc \in FramePc,
           frame[t].pc \notin {"idle", "check", "append"},
           pc \notin {"idle", "check", "append"},
           Then(t, pc), UNCHANGED <<proc, op>>
    PROVE  ThreadInv'
BY DEF TypeOK, ThreadInv, ThreadsBusy, RunningIsFinished, NotifyThreads, Then, IsFinished

LEMMA DoneStep ==
    ASSUME TypeOK, ThreadInv, NEW t \in Thread, Done(t), UNCHANGED <<proc, op>>
    PROVE  ThreadInv'
BY DEF TypeOK, ThreadInv, ThreadsBusy, RunningIsFinished, NotifyThreads, Done, IsFinished

LEMMA ThreadNext ==
    ASSUME TypeOK, ThreadInv, [Next]_vars
    PROVE  ThreadInv'
<1> USE DEF procVars, serviceVars, notifyVars, streamVars, outVars, Goto, Return, Then, Done,
            AddFinishListener, AtOp, AtFrame, Free, IsFinished, Fire, Achieve, Dispose
<1> USE DEF TypeOK, ThreadInv, ThreadsBusy, RunningIsFinished, NotifyThreads
<1>1. ASSUME NEW t \in {Main, Sched}, StartStep(t) PROVE ThreadInv'
  <2>1. CASE RegisterExecutor(t)
    BY <2>1 DEF RegisterExecutor
  <2>7. CASE StartRaises(t)
    BY <2>7 DEF StartRaises
  <2>2. CASE RegisterInfo(t)
    BY <2>2 DEF RegisterInfo
  <2>3. CASE Activate(t)
    BY <2>3 DEF Activate
  <2>4. CASE FireExecutionStarted(t)
    <3>1. CASE op[t].ex \in active \cap OutputFiles
      BY <3>1, <2>4 DEF FireExecutionStarted
    <3>2. CASE op[t].ex \notin active \cap OutputFiles
      BY <3>2, <2>4 DEF FireExecutionStarted
    <3> QED BY <3>1, <3>2
  <2>5. CASE AddPostFinishHandling(t)
    BY <2>5 DEF AddPostFinishHandling
  <2>6. CASE AddAutoCleanup(t)
    BY <2>6 DEF AddAutoCleanup
  <2> QED BY <1>1, <2>1, <2>2, <2>3, <2>4, <2>5, <2>6, <2>7 DEF StartStep
<1>2. CASE MainStep
  <2>1. CASE Terminate
    BY <2>1 DEF Terminate
  <2>2. CASE AddKillChildren
    BY <2>2 DEF AddKillChildren
  <2>3. CASE Sigkill
    BY <2>3 DEF Sigkill
  <2>4. CASE RemoveActive
    BY <2>4 DEF RemoveActive
  <2> QED BY <1>2, <2>1, <2>2, <2>3, <2>4 DEF MainStep
<1>3. ASSUME NEW t \in Thread, ListenerStep(t) PROVE ThreadInv'
  <2>1. CASE CheckFinished(t)
    BY <2>1 DEF CheckFinished
  <2>2. CASE AppendListener(t)
    BY <2>2 DEF AppendListener
  <2>3. CASE RunDownload(t)
    BY <2>3 DEF RunDownload
  <2>4. CASE EndDownload(t)
    BY <2>4 DEF EndDownload
  <2>5. CASE RunService(t)
    BY <2>5 DEF RunService
  <2>6. CASE StartAlert(t)
    BY <2>6 DEF StartAlert
  <2>7. CASE SendAlert(t)
    BY <2>7 DEF SendAlert
  <2>8. CASE SendCallback(t)
    BY <2>8 DEF SendCallback
  <2>9. CASE RunKillChildren(t)
    BY <2>9 DEF RunKillChildren
  <2>10. CASE RunSocket(t)
    BY <2>10 DEF RunSocket
  <2>11. CASE CloseSocket(t)
    BY <2>11 DEF CloseSocket
  <2>12. CASE RunCleanup(t)
    <3>1. CASE frame[t].ex \in active /\ IsFinished(frame[t].ex)
      BY <3>1, <2>12, ThenStep DEF RunCleanup, FramePc
    <3>2. CASE ~(frame[t].ex \in active /\ IsFinished(frame[t].ex))
      BY <3>2, <2>12, DoneStep DEF RunCleanup
    <3> QED BY <3>1, <3>2
  <2>13. CASE EndCleanup(t)
    BY <2>13 DEF EndCleanup
  <2> QED BY <1>3, <2>1, <2>2, <2>3, <2>4, <2>5, <2>6, <2>7, <2>8, <2>9, <2>10, <2>11, <2>12, <2>13 DEF ListenerStep
<1>4. ASSUME NEW e \in Exec, StartProcess(e) PROVE ThreadInv'
  BY <1>4 DEF StartProcess, StarterOf
<1>5. ASSUME NEW e \in Exec, ClientStep(e) PROVE ThreadInv'
  <2>1. CASE StopScript(e)
    BY <2>1 DEF StopScript, Receive
  <2>2. CASE KillScript(e)
    BY <2>2 DEF KillScript, Receive
  <2>3. CASE CleanupExecution(e)
    BY <2>3 DEF CleanupExecution, Receive
  <2>4. CASE OpenSocket(e)
    BY <2>4 DEF OpenSocket, Receive
  <2> QED BY <1>5, <2>1, <2>2, <2>3, <2>4 DEF ClientStep
<1>6. ASSUME NEW e \in Exec, NotifyStep(e) PROVE ThreadInv'
  <2>1. CASE NotifyNext(e)
    BY <2>1 DEF NotifyNext
  <2>2. CASE NotifyEnd(e)
    BY <2>2 DEF NotifyEnd
  <2> QED BY <1>6, <2>1, <2>2 DEF NotifyStep
<1>7. ASSUME NEW e \in Exec, Exit(e) \/ ChildExit(e) \/ ReaderEnds(e) \/ ReaderFails(e)
                             \/ FlushEnds(e)
      PROVE  ThreadInv'
  <2>1. CASE Exit(e)
    BY <2>1 DEF Exit
  <2>2. CASE ChildExit(e)
    BY <2>2 DEF ChildExit
  <2>3. CASE ReaderEnds(e)
    BY <2>3 DEF ReaderEnds
  <2>4. CASE FlushEnds(e)
    BY <2>4 DEF FlushEnds
  <2>5. CASE ReaderFails(e)
    BY <2>5 DEF ReaderFails
  <2> QED BY <1>7, <2>1, <2>2, <2>3, <2>4, <2>5
<1>8. CASE UNCHANGED vars
  BY <1>8 DEF vars
<1> QED
  BY <1>1, <1>2, <1>3, <1>4, <1>5, <1>6, <1>7, <1>8 DEF Next

(* What is recorded about an execution fits the state of its process. *)
RecordInv ==
    /\ FiredAfterFinish /\ StreamOutlivesProcess
    /\ Registering /\ ActiveIsRegistered /\ RemovingIsDisposed

(* The start of a listener. *)
LEMMA FiringStep ==
    ASSUME TypeOK, ThreadInv, FiredAfterFinish, NEW t \in Thread,
           frame[t].pc = "run", Fire(t), UNCHANGED proc
    PROVE  FiredAfterFinish'
<1>1. frame[t].ex \in Exec /\ IsFinished(frame[t].ex)
  BY DEF ThreadInv, ThreadsBusy, RunningIsFinished
<1>2. \A e \in Exec : e # frame[t].ex => fired'[e] = fired[e]
  BY DEF Fire, TypeOK
<1> QED BY <1>1, <1>2 DEF FiredAfterFinish, IsFinished

LEMMA RecordNext ==
    ASSUME TypeOK, ThreadInv, RecordInv, [Next]_vars
    PROVE  RecordInv'
<1> USE DEF procVars, serviceVars, notifyVars, streamVars, outVars, Goto, Return, Then, Done,
            AddFinishListener, AtOp, AtFrame, Free, IsFinished, Fire, Achieve, Dispose
<1> USE DEF TypeOK, ThreadInv, ThreadsBusy, RunningIsFinished, RecordInv, FiredAfterFinish,
            StreamOutlivesProcess, Registering, ActiveIsRegistered, RemovingIsDisposed
<1>1. ASSUME NEW t \in {Main, Sched}, StartStep(t) PROVE RecordInv'
  <2>1. CASE RegisterExecutor(t)
    BY <2>1 DEF RegisterExecutor
  <2>7. CASE StartRaises(t)
    BY <2>7 DEF StartRaises
  <2>2. CASE RegisterInfo(t)
    BY <2>2 DEF RegisterInfo
  <2>3. CASE Activate(t)
    BY <2>3 DEF Activate
  <2>4. CASE FireExecutionStarted(t)
    BY <2>4 DEF FireExecutionStarted
  <2>5. CASE AddPostFinishHandling(t)
    BY <2>5 DEF AddPostFinishHandling
  <2>6. CASE AddAutoCleanup(t)
    BY <2>6 DEF AddAutoCleanup
  <2> QED BY <1>1, <2>1, <2>2, <2>3, <2>4, <2>5, <2>6, <2>7 DEF StartStep
<1>2. CASE MainStep
  <2>1. CASE Terminate
    BY <2>1 DEF Terminate
  <2>2. CASE AddKillChildren
    BY <2>2 DEF AddKillChildren
  <2>3. CASE Sigkill
    BY <2>3 DEF Sigkill
  <2>4. CASE RemoveActive
    BY <2>4 DEF RemoveActive
  <2> QED BY <1>2, <2>1, <2>2, <2>3, <2>4 DEF MainStep
<1>3. ASSUME NEW t \in Thread, ListenerStep(t) PROVE RecordInv'
  <2>1. CASE CheckFinished(t)
    BY <2>1 DEF CheckFinished
  <2>2. CASE AppendListener(t)
    BY <2>2 DEF AppendListener
  <2>3. CASE RunDownload(t)
    <3>2. FiredAfterFinish'
      BY <2>3, FiringStep DEF RunDownload
    <3>3. StreamOutlivesProcess' /\ Registering' /\ ActiveIsRegistered' /\ RemovingIsDisposed'
      BY SMTT(40), <2>3 DEF RunDownload
    <3> QED BY <3>2, <3>3 DEF RecordInv
  <2>4. CASE EndDownload(t)
    BY <2>4 DEF EndDownload
  <2>5. CASE RunService(t)
    <3>2. FiredAfterFinish'
      BY <2>5, FiringStep DEF RunService
    <3>3. StreamOutlivesProcess' /\ Registering' /\ ActiveIsRegistered' /\ RemovingIsDisposed'
      BY SMTT(40), <2>5 DEF RunService
    <3> QED BY <3>2, <3>3 DEF RecordInv
  <2>6. CASE StartAlert(t)
    BY <2>6 DEF StartAlert
  <2>7. CASE SendAlert(t)
    BY <2>7 DEF SendAlert
  <2>8. CASE SendCallback(t)
    BY <2>8 DEF SendCallback
  <2>9. CASE RunKillChildren(t)
    <3>2. FiredAfterFinish'
      BY <2>9, FiringStep DEF RunKillChildren
    <3>3. StreamOutlivesProcess' /\ Registering' /\ ActiveIsRegistered' /\ RemovingIsDisposed'
      BY SMTT(40), <2>9 DEF RunKillChildren
    <3> QED BY <3>2, <3>3 DEF RecordInv
  <2>10. CASE RunSocket(t)
    <3>2. FiredAfterFinish'
      BY <2>10, FiringStep DEF RunSocket
    <3>3. StreamOutlivesProcess' /\ Registering' /\ ActiveIsRegistered' /\ RemovingIsDisposed'
      BY SMTT(40), <2>10 DEF RunSocket
    <3> QED BY <3>2, <3>3 DEF RecordInv
  <2>11. CASE CloseSocket(t)
    BY <2>11 DEF CloseSocket
  <2>12. CASE RunCleanup(t)
    <3>2. FiredAfterFinish'
      BY <2>12, FiringStep DEF RunCleanup
    <3>3. StreamOutlivesProcess' /\ Registering' /\ ActiveIsRegistered' /\ RemovingIsDisposed'
      BY SMTT(40), <2>12 DEF RunCleanup
    <3> QED BY <3>2, <3>3 DEF RecordInv
  <2>13. CASE EndCleanup(t)
    BY <2>13 DEF EndCleanup
  <2> QED BY <1>3, <2>1, <2>2, <2>3, <2>4, <2>5, <2>6, <2>7, <2>8, <2>9, <2>10, <2>11, <2>12, <2>13 DEF ListenerStep
<1>4. ASSUME NEW e \in Exec, StartProcess(e) PROVE RecordInv'
  BY <1>4 DEF StartProcess, StarterOf
<1>5. ASSUME NEW e \in Exec, ClientStep(e) PROVE RecordInv'
  <2>1. CASE StopScript(e)
    BY <2>1 DEF StopScript, Receive
  <2>2. CASE KillScript(e)
    BY <2>2 DEF KillScript, Receive
  <2>3. CASE CleanupExecution(e)
    BY <2>3 DEF CleanupExecution, Receive
  <2>4. CASE OpenSocket(e)
    BY <2>4 DEF OpenSocket, Receive
  <2> QED BY <1>5, <2>1, <2>2, <2>3, <2>4 DEF ClientStep
<1>6. ASSUME NEW e \in Exec, NotifyStep(e) PROVE RecordInv'
  <2>1. CASE NotifyNext(e)
    BY <2>1 DEF NotifyNext
  <2>2. CASE NotifyEnd(e)
    BY <2>2 DEF NotifyEnd
  <2> QED BY <1>6, <2>1, <2>2 DEF NotifyStep
<1>7. ASSUME NEW e \in Exec, Exit(e) \/ ChildExit(e) \/ ReaderEnds(e) \/ ReaderFails(e)
                             \/ FlushEnds(e)
      PROVE  RecordInv'
  <2>1. CASE Exit(e)
    BY <2>1 DEF Exit
  <2>2. CASE ChildExit(e)
    BY <2>2 DEF ChildExit
  <2>3. CASE ReaderEnds(e)
    BY <2>3 DEF ReaderEnds
  <2>4. CASE FlushEnds(e)
    BY <2>4 DEF FlushEnds
  <2>5. CASE ReaderFails(e)
    BY <2>5 DEF ReaderFails
  <2> QED BY <1>7, <2>1, <2>2, <2>3, <2>4, <2>5
<1>8. CASE UNCHANGED vars
  BY <1>8 DEF vars
<1> QED
  BY <1>1, <1>2, <1>3, <1>4, <1>5, <1>6, <1>7, <1>8 DEF Next

(* What was called stays called, and the listener that starts is called. *)
LEMMA FireExtends ==
    ASSUME TypeOK, NEW t \in Thread, Fire(t),
           NEW x \in Exec, NEW k \in Listener, frame[t].ex = x, frame[t].l = k
    PROVE  /\ \A e \in Exec, l \in Listener : HasFired(e, l) => HasFired(e, l)'
           /\ HasFired(x, k)'
<1> DEFINE s == fired[x]
<1>1. s \in Seq(Listener)
  BY DEF TypeOK
<1>2. /\ Len(s) \in Nat
      /\ Len(Append(s, k)) = Len(s) + 1
      /\ Append(s, k)[Len(s) + 1] = k
      /\ \A i \in 1..Len(s) : Append(s, k)[i] = s[i]
  BY <1>1, AppendProperties, LenProperties
<1>3. /\ fired'[x] = Append(s, k)
      /\ \A e \in Exec : e # x => fired'[e] = fired[e]
  BY DEF Fire, TypeOK
<1>4. HasFired(x, k)'
  <2>1. Len(s) + 1 \in 1..Len(fired'[x]) /\ fired'[x][Len(s) + 1] = k
    BY <1>2, <1>3
  <2> QED BY <2>1 DEF HasFired
<1>5. ASSUME NEW e \in Exec, NEW l \in Listener, HasFired(e, l) PROVE HasFired(e, l)'
  <2>1. PICK i \in 1..Len(fired[e]) : fired[e][i] = l
    BY <1>5 DEF HasFired
  <2>2. CASE e = x
    <3>1. i \in 1..Len(fired'[e]) /\ fired'[e][i] = l
      BY <2>1, <2>2, <1>2, <1>3
    <3> QED BY <3>1 DEF HasFired
  <2>3. CASE e # x
    BY <2>1, <2>3, <1>3 DEF HasFired
  <2> QED BY <2>2, <2>3
<1> QED BY <1>4, <1>5

(* Steps that touch neither the list nor its iteration keep the loop's     *)
(* invariant when they leave the notify threads between listeners alone.   *)
LEMMA LoopUntouched ==
    ASSUME TypeOK, NotifyLoop, UNCHANGED notifyVars,
           \A e \in Exec : IsFinished(e)' <=> IsFinished(e),
           \A e \in Exec : frame[e].pc = "idle" => frame'[e] = frame[e],
           \A e \in Exec, l \in Listener : frame[e].pc = "run" /\ frame[e].l = l =>
              frame'[e] = frame[e] \/ HasFired(e, l)',
           \A e \in Exec, l \in Listener : HasFired(e, l) => HasFired(e, l)'
    PROVE  NotifyLoop'
<1> SUFFICES ASSUME NEW e \in Exec
             PROVE  /\ ~IsFinished(e)' => next'[e] = 0 /\ e \notin notified' /\ early'[e] = 0
                    /\ early'[e] <= Len(listeners'[e])
                    /\ next'[e] <= Len(listeners'[e])
                    /\ e \in notified' => next'[e] >= early'[e] /\ frame'[e].pc = "idle"
                    /\ \A i \in 1..next'[e] :
                          \/ HasFired(e, listeners[e][i])'
                          \/ frame'[e].pc = "run" /\ frame'[e].l = listeners'[e][i]
  BY DEF NotifyLoop
<1>1. /\ listeners' = listeners /\ next' = next /\ early' = early
      /\ notified' = notified
  BY DEF notifyVars
<1>2. /\ ~IsFinished(e)' => next'[e] = 0 /\ e \notin notified' /\ early'[e] = 0
      /\ early'[e] <= Len(listeners'[e])
      /\ next'[e] <= Len(listeners'[e])
      /\ e \in notified' => next'[e] >= early'[e] /\ frame'[e].pc = "idle"
  BY <1>1 DEF NotifyLoop
<1>3. ASSUME NEW i \in 1..next[e]
      PROVE  \/ HasFired(e, listeners[e][i])'
             \/ frame'[e].pc = "run" /\ frame'[e].l = listeners'[e][i]
  <2>1. listeners[e][i] \in Listener
    <3>1. listeners[e] \in Seq(Listener) /\ next[e] \in Nat
      BY DEF TypeOK
    <3>2. i \in 1..Len(listeners[e])
      BY <3>1, LenProperties DEF NotifyLoop
    <3> QED BY <3>1, <3>2, LenProperties
  <2>2. PICK l \in Listener : l = listeners[e][i] /\ l = listeners'[e][i]
    BY <1>1, <2>1
  <2>3. CASE HasFired(e, listeners[e][i])
    <3>1. HasFired(e, l)
      BY <2>2, <2>3 DEF HasFired
    <3>2. HasFired(e, l)'
      BY <3>1
    <3> QED BY <2>2, <3>2 DEF HasFired
  <2>4. CASE frame[e].pc = "run" /\ frame[e].l = listeners[e][i]
    <3>1. CASE frame'[e] = frame[e]
      BY <2>2, <2>4, <3>1
    <3>2. CASE HasFired(e, l)'
      BY <2>2, <3>2 DEF HasFired
    <3> QED BY <2>2, <2>4, <3>1, <3>2
  <2> QED BY <2>3, <2>4 DEF NotifyLoop
<1> QED BY <1>1, <1>2, <1>3

LEMMA SameFired ==
    ASSUME UNCHANGED fired
    PROVE  \A e \in Exec, l \in Listener : HasFired(e, l) => HasFired(e, l)'
BY DEF HasFired

(* Steps that leave the notify threads alone. *)
LEMMA LoopElsewhere ==
    ASSUME TypeOK, NotifyLoop, UNCHANGED <<notifyVars, fired>>,
           \A e \in Exec : IsFinished(e)' <=> IsFinished(e),
           \A e \in Exec : frame'[e] = frame[e]
    PROVE  NotifyLoop'
BY LoopUntouched, SameFired

(* The start of a listener, and the later steps of its body. *)
LEMMA LoopFiring ==
    ASSUME TypeOK, ThreadInv, NotifyLoop, NEW t \in Thread, frame[t].pc = "run", Fire(t),
           Done(t) \/ \E pc \in FramePc : Then(t, pc),
           UNCHANGED <<proc, notifyVars>>
    PROVE  NotifyLoop'
<1>1. PICK x \in Exec, k \in Listener : frame[t].ex = x /\ frame[t].l = k
  BY DEF ThreadInv, ThreadsBusy
<1>2. \A u \in Thread : u # t => frame'[u] = frame[u]
  BY DEF Done, Then, TypeOK
<1>3. /\ \A e \in Exec, l \in Listener : HasFired(e, l) => HasFired(e, l)'
      /\ HasFired(x, k)'
  BY <1>1, FireExtends
<1>4. \A e \in Exec : e = t => e = x
  BY <1>1 DEF ThreadInv, NotifyThreads
<1>5. \A e \in Exec, l \in Listener : frame[e].pc = "run" /\ frame[e].l = l =>
          frame'[e] = frame[e] \/ HasFired(e, l)'
  BY <1>1, <1>2, <1>3, <1>4
<1>6. \A e \in Exec : frame[e].pc = "idle" => frame'[e] = frame[e]
  BY <1>2
<1>7. \A e \in Exec : IsFinished(e)' <=> IsFinished(e)
  BY DEF IsFinished
<1> QED BY <1>3, <1>5, <1>6, <1>7, LoopUntouched

LEMMA LoopContinues ==
    ASSUME TypeOK, NotifyLoop, NEW t \in Thread, frame[t].pc \notin {"idle", "run"},
           Done(t) \/ \E pc \in FramePc : Then(t, pc),
           UNCHANGED <<proc, notifyVars, fired>>
    PROVE  NotifyLoop'
<1>1. \A u \in Thread : u # t => frame'[u] = frame[u]
  BY DEF Done, Then, TypeOK
<1>2. \A e \in Exec : IsFinished(e)' <=> IsFinished(e)
  BY DEF IsFinished
<1> QED BY <1>1, <1>2, SameFired, LoopUntouched

(* A listener is appended, by a thread that is not a notify thread. *)
LEMMA LoopAppend ==
    ASSUME TypeOK, ThreadInv, NotifyLoop, NEW t \in Thread, AppendListener(t)
    PROVE  NotifyLoop'
<1>1. PICK x \in Exec, k \in Listener : frame[t].ex = x /\ frame[t].l = k
  BY DEF ThreadInv, ThreadsBusy, AppendListener
<1>2. t \notin Exec
  BY DEF ThreadInv, NotifyThreads, AppendListener
<1>3. \A e \in Exec : frame'[e] = frame[e]
  BY <1>2 DEF AppendListener, Done, TypeOK
<1>4. /\ proc' = proc /\ next' = next /\ early' = early
      /\ notified' = notified /\ fired' = fired
  BY DEF AppendListener, procVars, outVars
<1>5. /\ listeners[x] \in Seq(Listener)
      /\ listeners'[x] = Append(listeners[x], k)
      /\ \A e \in Exec : e # x => listeners'[e] = listeners[e]
  BY <1>1 DEF AppendListener, TypeOK
<1>6. \A e \in Exec : /\ Len(listeners[e]) \in Nat
                      /\ Len(listeners'[e]) >= Len(listeners[e])
                      /\ \A i \in 1..Len(listeners[e]) : listeners'[e][i] = listeners[e][i]
  <2> TAKE e \in Exec
  <2>1. listeners[e] \in Seq(Listener)
    BY DEF TypeOK
  <2>2. CASE e = x
    BY <1>5, <2>1, <2>2, AppendProperties, LenProperties
  <2>3. CASE e # x
    BY <1>5, <2>1, <2>3, LenProperties
  <2> QED BY <2>2, <2>3
<1>7. next \in [Exec -> Nat] /\ early \in [Exec -> Nat]
  BY DEF TypeOK
<1> SUFFICES ASSUME NEW e \in Exec
             PROVE  /\ ~IsFinished(e)' => next'[e] = 0 /\ e \notin notified' /\ early'[e] = 0
                    /\ early'[e] <= Len(listeners'[e])
                    /\ next'[e] <= Len(listeners'[e])
                    /\ e \in notified' => next'[e] >= early'[e] /\ frame'[e].pc = "idle"
                    /\ \A i \in 1..next'[e] :
                          \/ HasFired(e, listeners[e][i])'
                          \/ frame'[e].pc = "run" /\ frame'[e].l = listeners'[e][i]
  BY DEF NotifyLoop
<1>8. /\ ~IsFinished(e)' => next'[e] = 0 /\ e \notin notified' /\ early'[e] = 0
      /\ early'[e] <= Len(listeners'[e])
      /\ next'[e] <= Len(listeners'[e])
      /\ e \in notified' => next'[e] >= early'[e] /\ frame'[e].pc = "idle"
  <2>1. /\ early[e] <= Len(listeners[e]) /\ next[e] <= Len(listeners[e])
        /\ ~IsFinished(e) => next[e] = 0 /\ e \notin notified /\ early[e] = 0
        /\ e \in notified => next[e] >= early[e] /\ frame[e].pc = "idle"
    BY DEF NotifyLoop
  <2>2. Len(listeners'[e]) \in Nat
    <3>1. CASE e = x
      BY <1>5, <3>1, AppendProperties, LenProperties
    <3>2. CASE e # x
      <4>1. listeners'[e] = listeners[e] /\ listeners[e] \in Seq(Listener)
        BY <1>5, <3>2 DEF TypeOK
      <4> QED BY <4>1, LenProperties
    <3> QED BY <3>1, <3>2
  <2>3. early'[e] <= Len(listeners'[e]) /\ next'[e] <= Len(listeners'[e])
    <3>1. Len(listeners[e]) \in Nat /\ Len(listeners'[e]) >= Len(listeners[e])
      BY <1>6
    <3>2. next[e] \in Nat /\ early[e] \in Nat /\ next'[e] = next[e] /\ early'[e] = early[e]
      BY <1>4, <1>7
    <3> QED BY <2>1, <2>2, <3>1, <3>2
  <2> QED BY <1>3, <1>4, <2>1, <2>3 DEF IsFinished
<1>9. ASSUME NEW i \in 1..next[e]
      PROVE  \/ HasFired(e, listeners[e][i])'
             \/ frame'[e].pc = "run" /\ frame'[e].l = listeners'[e][i]
  <2>1. i \in 1..Len(listeners[e])
    BY <1>6, <1>7 DEF NotifyLoop
  <2>2. listeners'[e][i] = listeners[e][i]
    BY <1>6, <2>1
  <2>3. HasFired(e, listeners[e][i]) \/ (frame[e].pc = "run" /\ frame[e].l = listeners[e][i])
    BY DEF NotifyLoop
  <2> QED BY <1>3, <1>4, <2>2, <2>3 DEF HasFired
<1> QED BY <1>4, <1>8, <1>9

(* The notify thread takes the next listener, or finds none left. *)
LEMMA LoopNotify ==
    ASSUME TypeOK, NotifyLoop, NEW x \in Exec, NotifyStep(x)
    PROVE  NotifyLoop'
<1>1. CASE NotifyNext(x)
  <2>1. /\ proc' = proc /\ early' = early /\ listeners' = listeners
        /\ notified' = notified /\ fired' = fired
    BY <1>1 DEF NotifyNext, procVars, outVars
  <2>2. /\ next'[x] = next[x] + 1
        /\ frame'[x].pc = "run" /\ frame'[x].l = listeners[x][next[x] + 1]
        /\ \A e \in Exec : e # x => next'[e] = next[e] /\ frame'[e] = frame[e]
    BY <1>1 DEF NotifyNext, TypeOK, Thread
  <2>3. frame[x].pc = "idle" /\ x \notin notified /\ IsFinished(x)
        /\ next[x] < Len(listeners[x])
    BY <1>1 DEF NotifyNext, Free
  <2>4. \A e \in Exec : Len(listeners[e]) \in Nat /\ next[e] \in Nat
    BY LenProperties DEF TypeOK
  <2>5. ASSUME NEW e \in Exec
        PROVE  /\ ~IsFinished(e)' => next'[e] = 0 /\ e \notin notified' /\ early'[e] = 0
               /\ early'[e] <= Len(listeners'[e])
               /\ next'[e] <= Len(listeners'[e])
               /\ e \in notified' => next'[e] >= early'[e] /\ frame'[e].pc = "idle"
    BY <2>1, <2>2, <2>3, <2>4 DEF NotifyLoop, IsFinished
  <2>6. ASSUME NEW e \in Exec, NEW i \in 1..next'[e]
        PROVE  \/ HasFired(e, listeners[e][i])'
               \/ frame'[e].pc = "run" /\ frame'[e].l = listeners'[e][i]
    <3>1. CASE e = x /\ i = next[x] + 1
      BY <2>1, <2>2, <3>1
    <3>2. CASE ~(e = x /\ i = next[x] + 1)
      <4>1. i \in 1..next[e]
        BY <2>2, <2>4, <3>2
      <4>2. HasFired(e, listeners[e][i]) \/ (frame[e].pc = "run" /\ frame[e].l = listeners[e][i])
        BY <4>1 DEF NotifyLoop
      <4>3. HasFired(e, listeners[e][i]) => HasFired(e, listeners[e][i])'
        BY <2>1 DEF HasFired
      <4> QED BY <2>1, <2>2, <2>3, <4>2, <4>3
    <3> QED BY <3>1, <3>2
  <2> QED BY <2>5, <2>6 DEF NotifyLoop
<1>2. CASE NotifyEnd(x)
  <2>1. /\ proc' = proc /\ early' = early /\ listeners' = listeners
        /\ next' = next /\ frame' = frame /\ fired' = fired
        /\ notified' = notified \cup {x}
    BY <1>2 DEF NotifyEnd, procVars, outVars
  <2>2. frame[x].pc = "idle" /\ IsFinished(x) /\ next[x] = Len(listeners[x])
    BY <1>2 DEF NotifyEnd, Free
  <2> QED BY <2>1, <2>2 DEF NotifyLoop, IsFinished, HasFired
<1> QED BY <1>1, <1>2 DEF NotifyStep

(* The process ends: nothing was taken from the list so far. *)
LEMMA LoopExit ==
    ASSUME TypeOK, NotifyLoop, NEW x \in Exec, Exit(x)
    PROVE  NotifyLoop'
<1>1. /\ proc' = [proc EXCEPT ![x] = "finished"]
      /\ early' = [early EXCEPT ![x] = Len(listeners[x])]
      /\ listeners' = listeners /\ next' = next /\ notified' = notified
      /\ frame' = frame /\ fired' = fired
      /\ ~IsFinished(x)
  BY DEF Exit, outVars, IsFinished
<1>2. \A e \in Exec : Len(listeners[e]) \in Nat /\ early[e] \in Nat
  BY LenProperties DEF TypeOK
<1>3. \A e \in Exec : IsFinished(e)' <=> IsFinished(e) \/ e = x
  BY <1>1 DEF IsFinished, TypeOK
<1>4. \A e \in Exec : early'[e] = IF e = x THEN Len(listeners[x]) ELSE early[e]
  BY <1>1 DEF TypeOK
<1> QED BY <1>1, <1>2, <1>3, <1>4 DEF NotifyLoop, HasFired

(* Every action keeps the loop of notify_finished as it should be. *)
LEMMA LoopNext ==
    ASSUME TypeOK, ThreadInv, NotifyLoop, [Next]_vars
    PROVE  NotifyLoop'
<1>1. ASSUME NEW t \in {Main, Sched}, StartStep(t) PROVE NotifyLoop'
  <2>1. t \notin Exec
    OBVIOUS
  <2> QED
    BY <1>1, <2>1, LoopElsewhere
       DEF StartStep, RegisterExecutor, StartRaises, RegisterInfo, Activate, FireExecutionStarted,
           AddPostFinishHandling, AddAutoCleanup, AddFinishListener, IsFinished, TypeOK,
           procVars, outVars
<1>2. CASE MainStep
  BY <1>2, LoopElsewhere
     DEF MainStep, Terminate, AddKillChildren, Sigkill, RemoveActive, AddFinishListener,
         IsFinished, TypeOK, procVars, outVars
<1>3. ASSUME NEW t \in Thread, ListenerStep(t) PROVE NotifyLoop'
  <2>1. CASE CheckFinished(t)
    BY <2>1, LoopContinues DEF CheckFinished, procVars, outVars, FramePc
  <2>2. CASE AppendListener(t)
    BY <2>2, LoopAppend
  <2>3. CASE RunDownload(t)
    BY <2>3, LoopFiring DEF RunDownload, AtFrame, IsFinished, notifyVars, procVars, outVars, Then, Done, Achieve
  <2>4. CASE EndDownload(t)
    BY <2>4, LoopContinues DEF EndDownload, AtFrame, IsFinished, notifyVars, procVars, outVars, Then, Done, Achieve
  <2>5. CASE RunService(t)
    BY <2>5, LoopFiring DEF RunService, AtFrame, IsFinished, notifyVars, procVars, outVars, Then, Done, Achieve
  <2>6. CASE StartAlert(t)
    BY <2>6, LoopContinues DEF StartAlert, AtFrame, IsFinished, notifyVars, procVars, outVars, Then, Done, Achieve
  <2>7. CASE SendAlert(t)
    BY <2>7, LoopContinues DEF SendAlert, AtFrame, IsFinished, notifyVars, procVars, outVars, Then, Done, Achieve
  <2>8. CASE SendCallback(t)
    BY <2>8, LoopContinues DEF SendCallback, AtFrame, IsFinished, notifyVars, procVars, outVars, Then, Done, Achieve
  <2>9. CASE RunKillChildren(t)
    BY <2>9, LoopFiring DEF RunKillChildren, AtFrame, IsFinished, notifyVars, procVars, outVars, Then, Done, Achieve
  <2>10. CASE RunSocket(t)
    BY <2>10, LoopFiring DEF RunSocket, AtFrame, IsFinished, notifyVars, procVars, outVars, Then, Done, Achieve
  <2>11. CASE CloseSocket(t)
    BY <2>11, LoopContinues DEF CloseSocket, AtFrame, IsFinished, notifyVars, procVars, outVars, Then, Done, Achieve
  <2>12. CASE RunCleanup(t)
    BY <2>12, LoopFiring DEF RunCleanup, AtFrame, IsFinished, notifyVars, procVars, outVars, Then, Done, Achieve
  <2>13. CASE EndCleanup(t)
    BY <2>13, LoopContinues DEF EndCleanup, AtFrame, IsFinished, notifyVars, procVars, outVars, Then, Done, Achieve
  <2> QED BY <1>3, <2>1, <2>2, <2>3, <2>4, <2>5, <2>6, <2>7, <2>8, <2>9, <2>10, <2>11, <2>12,
             <2>13 DEF ListenerStep
<1>4. ASSUME NEW e \in Exec, StartProcess(e) PROVE NotifyLoop'
  BY <1>4, LoopElsewhere DEF StartProcess, StarterOf, IsFinished, TypeOK, outVars
<1>5. ASSUME NEW e \in Exec, ClientStep(e) PROVE NotifyLoop'
  BY <1>5, LoopElsewhere
     DEF ClientStep, StopScript, KillScript, CleanupExecution, OpenSocket, Receive,
         AddFinishListener, IsFinished, TypeOK, procVars, outVars
<1>6. ASSUME NEW e \in Exec, NotifyStep(e) PROVE NotifyLoop'
  BY <1>6, LoopNotify
<1>7. ASSUME NEW e \in Exec, Exit(e) \/ ChildExit(e) \/ ReaderEnds(e) \/ ReaderFails(e)
                             \/ FlushEnds(e)
      PROVE  NotifyLoop'
  <2>1. CASE Exit(e)
    BY <2>1, LoopExit
  <2>2. CASE ChildExit(e) \/ ReaderEnds(e) \/ ReaderFails(e) \/ FlushEnds(e)
    BY <2>2, LoopElsewhere DEF ChildExit, ReaderEnds, ReaderFails, FlushEnds, IsFinished, procVars, outVars
  <2> QED BY <1>7, <2>1, <2>2
<1>8. CASE UNCHANGED vars
  BY <1>8, LoopElsewhere DEF vars, IsFinished, procVars, outVars
<1> QED
  BY <1>1, <1>2, <1>3, <1>4, <1>5, <1>6, <1>7, <1>8 DEF Next

-----------------------------------------------------------------------------
(* The theorems. *)

IInv == TypeOK /\ ThreadInv /\ RecordInv /\ NotifyLoop

(* The inductive invariant holds in every reachable state. *)
THEOREM InductiveInvariant == Spec => []IInv
<1>1. Init => IInv
  <2> SUFFICES ASSUME Init PROVE IInv
    OBVIOUS
  <2>1. TypeOK /\ ThreadsBusy
    BY TypeInit
  <2>2. RunningIsFinished /\ NotifyThreads /\ RecordInv
    BY DEF Init, RunningIsFinished, NotifyThreads, RecordInv, FiredAfterFinish,
           StreamOutlivesProcess, Registering, ActiveIsRegistered, RemovingIsDisposed, AtFrame
  <2>3. NotifyLoop
    BY DEF Init, NotifyLoop, IsFinished
  <2> QED BY <2>1, <2>2, <2>3 DEF IInv, ThreadInv
<1>2. IInv /\ [Next]_vars => IInv'
  BY TypeNext, ThreadNext, RecordNext, LoopNext DEF IInv, ThreadInv
<1> QED BY <1>1, <1>2, PTL DEF Spec

(* Type correctness, for any number of executions and of clients. *)
THEOREM TypeCorrect == Spec => []TypeOK
BY InductiveInvariant, PTL DEF IInv

(* No finish listener runs before its script is over. *)
THEOREM ListenersRunAfterFinish == Spec => []FiredAfterFinish
BY InductiveInvariant, PTL DEF IInv, RecordInv

(* The promise of process_base.py:24: the output stream is not closed      *)
(* before the end of the process, by its reader or by any cleanup, unless  *)
(* the reader ended by an exception.                                       *)
THEOREM StreamClosesAfterProcess == Spec => []StreamOutlivesProcess
BY InductiveInvariant, PTL DEF IInv, RecordInv

(* A thread that sees an active id finds its executor and its info. *)
THEOREM ActiveExecutionsAreRegistered == Spec => []ActiveIsRegistered
BY InductiveInvariant, PTL DEF IInv, RecordInv

(* The types, the collections and the streams together: what the threads   *)
(* that start, end, kill and clean up executions leave to each other.      *)
THEOREM ExecutionsAreConsistent == Spec => []Consistent
BY TypeCorrect, ActiveExecutionsAreRegistered, StreamClosesAfterProcess, PTL DEF Consistent

(* The notify thread does not end before it has called every listener that *)
(* was registered while the script was running.                            *)
THEOREM EarlyListenersAreCalled == Spec => []EarlyListenersFire
<1>1. IInv => EarlyListenersFire
  <2> SUFFICES ASSUME IInv, NEW e \in notified, NEW i \in 1..early[e]
               PROVE  HasFired(e, listeners[e][i])
    BY DEF EarlyListenersFire
  <2>1. e \in Exec /\ early[e] \in Nat /\ next[e] \in Nat
    BY DEF IInv, TypeOK
  <2>2. next[e] >= early[e] /\ frame[e].pc = "idle"
    BY <2>1 DEF IInv, NotifyLoop
  <2>3. i \in 1..next[e]
    BY <2>1, <2>2
  <2> QED BY <2>1, <2>2, <2>3 DEF IInv, NotifyLoop
<1> QED BY <1>1, InductiveInvariant, PTL

-----------------------------------------------------------------------------
(* Every listener of an execution is called once: a claim of its own about *)
(* the way of a listener from whoever adds it to the call.                 *)

BeforeDownload == {"executor", "info", "activate", "started"}
BeforeService == BeforeDownload \cup {"postFinish"}
BeforeCleanup == BeforeService \cup {"autoCleanup"}

StartsAt(e, pcs) == op[StarterOf(e)].ex = e /\ op[StarterOf(e)].pc \in pcs

(* Whoever adds this listener has come to do it. *)
Asked(e, l) ==
    \/ l = "socket" /\ <<"socket", e>> \in requested
    \/ /\ l = "killChildren" /\ <<"stop", e>> \in requested
       /\ ~(op[Main].ex = e /\ op[Main].pc \in {"terminate", "killChildren"})
    \/ l = "download" /\ proc[e] # "none" /\ ~StartsAt(e, BeforeDownload)
    \/ l = "service" /\ proc[e] # "none" /\ ~StartsAt(e, BeforeService)
    \/ l = "cleanup" /\ proc[e] # "none" /\ ~StartsAt(e, BeforeCleanup)

(* The thread of a start is the one that starts such executions, and a     *)
(* thread that stops one has been asked to.                                *)
StartersOwn ==
    /\ \A t \in {Main, Sched} : op[t].pc \in BeforeCleanup =>
          t = StarterOf(op[t].ex) /\ proc[op[t].ex] # "none"
    /\ op[Main].pc \in {"terminate", "killChildren"} => <<"stop", op[Main].ex>> \in requested

Adds(t, e, l) == frame[t].ex = e /\ frame[t].l = l /\ frame[t].pc \in {"check", "append"}
Calls(t, e, l) == frame[t].ex = e /\ frame[t].l = l /\ frame[t].pc = "run"
Listed(e, l) == \E i \in 1..Len(listeners[e]) : listeners[e][i] = l
Ahead(e, l) == \E i \in 1..Len(listeners[e]) : next[e] < i /\ listeners[e][i] = l
Distinct(s) == \A i, j \in 1..Len(s) : s[i] = s[j] => i = j

(* A listener is in one place: not asked for, with the thread that adds or *)
(* runs it, in the list ahead of the notify thread, or called.             *)
OnePlace(e, l) ==
    /\ ~Asked(e, l) => /\ ~Listed(e, l) /\ ~HasFired(e, l)
                       /\ \A t \in Thread : ~Adds(t, e, l) /\ ~Calls(t, e, l)
    /\ \A t, u \in Thread : (Adds(t, e, l) \/ Calls(t, e, l)) /\ (Adds(u, e, l) \/ Calls(u, e, l))
          => t = u
    /\ \A t \in Thread : Adds(t, e, l) => ~Listed(e, l) /\ ~HasFired(e, l)
    /\ \A t \in Thread : Calls(t, e, l) =>
          ~HasFired(e, l) /\ ~Ahead(e, l) /\ (t # e => ~Listed(e, l))
    /\ Ahead(e, l) => ~HasFired(e, l)

Places ==
    /\ \A e \in Exec : Distinct(listeners[e]) /\ Distinct(fired[e])
    /\ \A e \in Exec, l \in Listener : OnePlace(e, l)

OnceInv == StartersOwn /\ Places


(* A claim is kept when nothing new happens to the listener. *)
Undisturbed(e, l) ==
    /\ Asked(e, l) => Asked(e, l)'
    /\ Listed(e, l)' => Listed(e, l)
    /\ Ahead(e, l)' => Ahead(e, l)
    /\ HasFired(e, l)' => HasFired(e, l)
    /\ \A t \in Thread : /\ Adds(t, e, l)' => Adds(t, e, l)
                         /\ Calls(t, e, l)' => Calls(t, e, l) \/ Adds(t, e, l)

StaysInPlace(e, l) == OnePlace(e, l)'
StaysAsked(e, l) == Asked(e, l) => Asked(e, l)'

LEMMA PlaceKept ==
    ASSUME NEW e \in Exec, NEW l \in Listener, OnePlace(e, l), Undisturbed(e, l)
    PROVE  StaysInPlace(e, l)
<1>1. Ahead(e, l) => Listed(e, l)
  BY DEF Ahead, Listed
<1> QED BY <1>1 DEF OnePlace, Undisturbed, StaysInPlace

(* A sequence without a repetition stays so when a new element is appended. *)
LEMMA AppendDistinct ==
    ASSUME NEW s \in Seq(Listener), NEW k \in Listener
    PROVE  /\ Append(s, k) \in Seq(Listener)
           /\ Len(Append(s, k)) = Len(s) + 1 /\ Len(s) \in Nat
           /\ \A i \in 1..Len(s) : Append(s, k)[i] = s[i]
           /\ Append(s, k)[Len(s) + 1] = k
           /\ Distinct(s) /\ (\A i \in 1..Len(s) : s[i] # k) => Distinct(Append(s, k))
<1>1. /\ Append(s, k) \in Seq(Listener)
      /\ Len(Append(s, k)) = Len(s) + 1 /\ Len(s) \in Nat
      /\ \A i \in 1..Len(s) : Append(s, k)[i] = s[i]
      /\ Append(s, k)[Len(s) + 1] = k
  BY AppendProperties, LenProperties
<1>2. \A i \in 1..(Len(s) + 1) : i \in 1..Len(s) \/ i = Len(s) + 1
  BY <1>1
<1>3. ASSUME Distinct(s), \A i \in 1..Len(s) : s[i] # k
      PROVE  Distinct(Append(s, k))
  BY <1>1, <1>2, <1>3 DEF Distinct
<1> QED BY <1>1, <1>3

(* How a start, a stop, a kill and a cleanup move their threads on: one of  *)
(* the thread's steps to a later one, or to the end.                       *)
LEMMA StartMoves ==
    ASSUME TypeOK, NEW x \in {Main, Sched}, StartStep(x)
    PROVE  /\ op[x].pc \in BeforeCleanup /\ proc' = proc /\ requested' = requested
           /\ \A u \in {Main, Sched} : u # x => op'[u] = op[u]
           /\ \/ op'[x] = Idle
              \/ /\ op'[x].ex = op[x].ex /\ op'[x].pc \in BeforeCleanup
                 /\ \A pcs \in {BeforeDownload, BeforeService, BeforeCleanup} :
                       op'[x].pc \in pcs => op[x].pc \in pcs
<1> USE DEF procVars, serviceVars, notifyVars, streamVars, outVars, AtOp, Goto, Return,
            BeforeDownload, BeforeService, BeforeCleanup
<1>1. CASE RegisterExecutor(x)
  BY <1>1 DEF RegisterExecutor, TypeOK
<1>7. CASE StartRaises(x)
  BY <1>7 DEF StartRaises, TypeOK
<1>2. CASE RegisterInfo(x)
  BY <1>2 DEF RegisterInfo, TypeOK
<1>3. CASE Activate(x)
  BY <1>3 DEF Activate, TypeOK
<1>4. CASE FireExecutionStarted(x)
  BY <1>4 DEF FireExecutionStarted, TypeOK
<1>5. CASE AddPostFinishHandling(x)
  BY <1>5 DEF AddPostFinishHandling, TypeOK
<1>6. CASE AddAutoCleanup(x)
  BY <1>6 DEF AddAutoCleanup, TypeOK
<1> QED BY <1>1, <1>2, <1>3, <1>4, <1>5, <1>6, <1>7 DEF StartStep

LEMMA MainMoves ==
    ASSUME TypeOK, MainStep
    PROVE  /\ op[Main].pc \notin BeforeCleanup \cup {"idle"} /\ proc' = proc /\ requested' = requested
           /\ op'[Sched] = op[Sched]
           /\ \/ op'[Main] = Idle
              \/ /\ op'[Main].ex = op[Main].ex
                 /\ op[Main].pc = "terminate" /\ op'[Main].pc = "killChildren"
<1> USE DEF procVars, serviceVars, notifyVars, streamVars, outVars, AtOp, Goto, Return,
            BeforeDownload, BeforeService, BeforeCleanup
<1>1. CASE Terminate
  BY <1>1 DEF Terminate, TypeOK
<1>2. CASE AddKillChildren
  BY <1>2 DEF AddKillChildren, TypeOK
<1>3. CASE Sigkill
  BY <1>3 DEF Sigkill, TypeOK
<1>4. CASE RemoveActive
  BY <1>4 DEF RemoveActive, TypeOK
<1> QED BY <1>1, <1>2, <1>3, <1>4 DEF MainStep

(* Who starts which execution, and that a start is not undone. *)
LEMMA StartersNext ==
    ASSUME TypeOK, ThreadsBusy, StartersOwn, [Next]_vars
    PROVE  StartersOwn'
<1> USE DEF procVars, serviceVars, notifyVars, streamVars, outVars, AtOp, AtFrame, Free, Goto, Return, Receive,
            IsFinished, StartersOwn, StarterOf, TypeOK, BeforeDownload, BeforeService, BeforeCleanup
<1>1. ASSUME NEW x \in {Main, Sched}, StartStep(x) PROVE StartersOwn'
  <2>1. /\ op[x].pc \in BeforeCleanup /\ proc' = proc /\ requested' = requested
        /\ \A u \in {Main, Sched} : u # x => op'[u] = op[u]
        /\ \/ op'[x] = Idle
           \/ /\ op'[x].ex = op[x].ex /\ op'[x].pc \in BeforeCleanup
              /\ \A pcs \in {BeforeDownload, BeforeService, BeforeCleanup} :
                    op'[x].pc \in pcs => op[x].pc \in pcs
    BY <1>1, StartMoves
  <2> HIDE DEF TypeOK
  <2> QED BY <2>1
<1>2. CASE MainStep
  <2>1. /\ op[Main].pc \notin BeforeCleanup \cup {"idle"} /\ proc' = proc /\ requested' = requested
        /\ op'[Sched] = op[Sched]
        /\ \/ op'[Main] = Idle
           \/ /\ op'[Main].ex = op[Main].ex
              /\ op[Main].pc = "terminate" /\ op'[Main].pc = "killChildren"
    BY <1>2, MainMoves
  <2> HIDE DEF TypeOK
  <2> QED BY <2>1
<1>3. ASSUME NEW x \in Thread, ListenerStep(x) PROVE op' = op /\ proc' = proc /\ requested' = requested
  BY <1>3 DEF ListenerStep, CheckFinished, AppendListener, RunDownload, EndDownload, RunService, StartAlert, SendAlert, SendCallback, RunKillChildren, RunSocket, CloseSocket, RunCleanup, EndCleanup, Fire, Achieve, Dispose
<1>4. ASSUME NEW x \in Exec, StartProcess(x) PROVE StartersOwn'
  BY <1>4 DEF StartProcess
<1>5. ASSUME NEW x \in Exec, ClientStep(x) PROVE StartersOwn'
  <2>1. CASE StopScript(x)
    BY <2>1 DEF StopScript
  <2>2. CASE KillScript(x)
    BY <2>2 DEF KillScript
  <2>3. CASE CleanupExecution(x)
    BY <2>3 DEF CleanupExecution
  <2>4. CASE OpenSocket(x)
    BY <2>4 DEF OpenSocket
  <2> QED BY <1>5, <2>1, <2>2, <2>3, <2>4 DEF StartStep, ListenerStep, ClientStep, NotifyStep
<1>6. ASSUME NEW x \in Exec, NotifyStep(x) PROVE op' = op /\ proc' = proc /\ requested' = requested
  BY <1>6 DEF NotifyStep, NotifyNext, NotifyEnd
<1>7. ASSUME NEW x \in Exec, Exit(x) \/ ChildExit(x) \/ ReaderEnds(x) \/ ReaderFails(x)
                             \/ FlushEnds(x)
      PROVE  StartersOwn'
  <2>1. CASE Exit(x)
    <3>1. \A t \in {Main, Sched} : op[t].pc \in BeforeCleanup => op[t].ex \in Exec
      BY DEF ThreadsBusy
    <3>2. op' = op /\ requested' = requested /\ proc' = [proc EXCEPT ![x] = "finished"]
      BY <2>1 DEF Exit
    <3>3. \A y \in Exec : proc[y] # "none" => proc'[y] # "none"
      BY <3>2
    <3> QED BY <3>1, <3>2, <3>3
  <2>2. CASE ChildExit(x) \/ ReaderEnds(x) \/ ReaderFails(x) \/ FlushEnds(x)
    BY <2>2 DEF ChildExit, ReaderEnds, ReaderFails, FlushEnds
  <2> QED BY <1>7, <2>1, <2>2
<1>8. ASSUME op' = op /\ proc' = proc /\ requested' = requested PROVE StartersOwn'
  BY <1>8
<1>9. CASE UNCHANGED vars
  BY <1>8, <1>9 DEF vars
<1> QED BY <1>1, <1>2, <1>3, <1>4, <1>5, <1>6, <1>7, <1>8, <1>9 DEF Next

(* What is asked for once stays so. *)
LEMMA AskedStays ==
    ASSUME TypeOK, [Next]_vars, NEW e \in Exec, NEW l \in Listener, Asked(e, l)
    PROVE  Asked(e, l)'
<1> USE DEF procVars, serviceVars, notifyVars, streamVars, outVars, AtOp, AtFrame, Free, Goto, Return, Receive,
            IsFinished, Asked, StartsAt, StarterOf, TypeOK, BeforeDownload, BeforeService, BeforeCleanup
<1>1. ASSUME NEW x \in {Main, Sched}, StartStep(x) PROVE Asked(e, l)'
  <2>1. /\ op[x].pc \in BeforeCleanup /\ proc' = proc /\ requested' = requested
        /\ \A u \in {Main, Sched} : u # x => op'[u] = op[u]
        /\ \/ op'[x] = Idle
           \/ /\ op'[x].ex = op[x].ex /\ op'[x].pc \in BeforeCleanup
              /\ \A pcs \in {BeforeDownload, BeforeService, BeforeCleanup} :
                    op'[x].pc \in pcs => op[x].pc \in pcs
    BY <1>1, StartMoves
  <2> HIDE DEF TypeOK
  <2> QED BY <2>1
<1>2. CASE MainStep
  <2>1. /\ op[Main].pc \notin BeforeCleanup \cup {"idle"} /\ proc' = proc /\ requested' = requested
        /\ op'[Sched] = op[Sched]
        /\ \/ op'[Main] = Idle
           \/ /\ op'[Main].ex = op[Main].ex
              /\ op[Main].pc = "terminate" /\ op'[Main].pc = "killChildren"
    BY <1>2, MainMoves
  <2> HIDE DEF TypeOK
  <2> QED BY <2>1
<1>3. ASSUME NEW x \in Thread, ListenerStep(x) PROVE op' = op /\ proc' = proc /\ requested' = requested
  BY <1>3 DEF ListenerStep, CheckFinished, AppendListener, RunDownload, EndDownload, RunService, StartAlert, SendAlert, SendCallback, RunKillChildren, RunSocket, CloseSocket, RunCleanup, EndCleanup, Fire, Achieve, Dispose
<1>4. ASSUME NEW x \in Exec, StartProcess(x) PROVE Asked(e, l)'
  BY <1>4 DEF StartProcess
<1>5. ASSUME NEW x \in Exec, ClientStep(x) PROVE Asked(e, l)'
  <2>1. CASE StopScript(x)
    BY <2>1 DEF StopScript
  <2>2. CASE KillScript(x)
    BY <2>2 DEF KillScript
  <2>3. CASE CleanupExecution(x)
    BY <2>3 DEF CleanupExecution
  <2>4. CASE OpenSocket(x)
    BY <2>4 DEF OpenSocket
  <2> QED BY <1>5, <2>1, <2>2, <2>3, <2>4 DEF StartStep, ListenerStep, ClientStep, NotifyStep
<1>6. ASSUME NEW x \in Exec, NotifyStep(x) PROVE op' = op /\ proc' = proc /\ requested' = requested
  BY <1>6 DEF NotifyStep, NotifyNext, NotifyEnd
<1>7. ASSUME NEW x \in Exec, Exit(x) \/ ChildExit(x) \/ ReaderEnds(x) \/ ReaderFails(x)
                             \/ FlushEnds(x)
      PROVE  Asked(e, l)'
  BY <1>7 DEF Exit, ChildExit, ReaderEnds, ReaderFails, FlushEnds
<1>8. ASSUME op' = op /\ proc' = proc /\ requested' = requested PROVE Asked(e, l)'
  BY <1>8
<1>9. CASE UNCHANGED vars
  BY <1>8, <1>9 DEF vars
<1> QED BY <1>1, <1>2, <1>3, <1>4, <1>5, <1>6, <1>7, <1>8, <1>9 DEF Next

(* A thread that has nothing else to do begins to add a listener. *)
BeginsToAdd(t, e, l) ==
    /\ ~Asked(e, l) /\ Asked(e, l)'
    /\ frame' = [frame EXCEPT ![t] = [pc |-> "check", ex |-> e, l |-> l]]
    /\ UNCHANGED <<listeners, next, fired>>

(* A thread goes on: from the check to the call, or to another part of the *)
(* body, or to its end.                                                    *)
GoesOn(t) ==
    /\ \/ Done(t) /\ frame[t].pc # "check"
       \/ \E pc \in FramePc \ {"check", "append", "run"} : Then(t, pc)
       \/ frame[t].pc = "check" /\ \E pc \in {"append", "run"} : Then(t, pc)
    /\ UNCHANGED <<listeners, next, fired>>

Starts(t) ==
    /\ frame[t].pc = "run" /\ Fire(t)
    /\ Done(t) \/ \E pc \in FramePc \ {"check", "append", "run"} : Then(t, pc)
    /\ UNCHANGED <<listeners, next>>

(* What a step does to the places that listeners are in. *)
LEMMA PlaceSteps ==
    ASSUME TypeOK, ThreadInv, StartersOwn, [Next]_vars
    PROVE  \/ UNCHANGED <<frame, listeners, next, fired>>
           \/ \E t \in {Main, Sched} : \E e \in Exec, l \in Listener : BeginsToAdd(t, e, l)
           \/ \E t \in Thread : GoesOn(t) \/ Starts(t) \/ AppendListener(t)
           \/ \E e \in Exec : NotifyNext(e)
<1> DEFINE Goal ==
           \/ UNCHANGED <<frame, listeners, next, fired>>
           \/ \E t \in {Main, Sched} : \E e \in Exec, l \in Listener : BeginsToAdd(t, e, l)
           \/ \E t \in Thread : GoesOn(t) \/ Starts(t) \/ AppendListener(t)
           \/ \E e \in Exec : NotifyNext(e)
<1> USE DEF procVars, serviceVars, notifyVars, streamVars, outVars
<1>1. ASSUME NEW t \in {Main, Sched}, StartStep(t) PROVE Goal
  <2>1. CASE RegisterExecutor(t) \/ StartRaises(t) \/ RegisterInfo(t) \/ Activate(t)
    BY <2>1 DEF RegisterExecutor, StartRaises, RegisterInfo, Activate
  <2>2. ASSUME op[t].pc \in BeforeCleanup PROVE op[t].ex \in Exec /\ t = StarterOf(op[t].ex) /\ proc[op[t].ex] # "none"
    BY <2>2 DEF StartersOwn, ThreadInv, ThreadsBusy, BeforeDownload, BeforeService, BeforeCleanup
  <2> USE DEF AtOp, Goto, Return, AddFinishListener, BeforeDownload, BeforeService, BeforeCleanup
  <2>3. CASE FireExecutionStarted(t)
    <3>1. PICK e \in Exec : op[t].ex = e /\ t = StarterOf(e) /\ proc[e] # "none"
      BY <2>2, <2>3 DEF FireExecutionStarted
    <3>2. CASE e \in active \cap OutputFiles
      <4>1. ~Asked(e, "download")
        BY <2>3, <3>1 DEF FireExecutionStarted, Asked, StartsAt
      <4>2. op'[t].pc = "postFinish" /\ proc' = proc
        BY <2>3 DEF FireExecutionStarted, TypeOK
      <4>3. Asked(e, "download")'
        BY <3>1, <4>2 DEF Asked, StartsAt, StarterOf
      <4>4. BeginsToAdd(t, e, "download")
        BY <2>3, <3>1, <3>2, <4>1, <4>3 DEF FireExecutionStarted, BeginsToAdd
      <4> QED BY <4>4
    <3>3. CASE e \notin active \cap OutputFiles
      BY <2>3, <3>1, <3>3 DEF FireExecutionStarted
    <3> QED BY <3>2, <3>3
  <2>4. CASE AddPostFinishHandling(t)
    <3>1. PICK e \in Exec : op[t].ex = e /\ t = StarterOf(e) /\ proc[e] # "none"
      BY <2>2, <2>4 DEF AddPostFinishHandling
    <3>2. ~Asked(e, "service")
      BY <2>4, <3>1 DEF AddPostFinishHandling, Asked, StartsAt
    <3>3. op'[t].pc \in {"autoCleanup", "idle"} /\ proc' = proc
      BY <2>4 DEF AddPostFinishHandling, TypeOK
    <3>4. Asked(e, "service")'
      BY <3>1, <3>3 DEF Asked, StartsAt, StarterOf
    <3>5. BeginsToAdd(t, e, "service")
      BY <2>4, <3>1, <3>2, <3>4 DEF AddPostFinishHandling, BeginsToAdd
    <3> QED BY <3>5
  <2>5. CASE AddAutoCleanup(t)
    <3>1. PICK e \in Exec : op[t].ex = e /\ t = StarterOf(e) /\ proc[e] # "none"
      BY <2>2, <2>5 DEF AddAutoCleanup
    <3>2. ~Asked(e, "cleanup")
      BY <2>5, <3>1 DEF AddAutoCleanup, Asked, StartsAt
    <3>3. op'[t].pc = "idle" /\ proc' = proc
      BY <2>5 DEF AddAutoCleanup, TypeOK
    <3>4. Asked(e, "cleanup")'
      BY <3>1, <3>3 DEF Asked, StartsAt, StarterOf
    <3>5. BeginsToAdd(t, e, "cleanup")
      BY <2>5, <3>1, <3>2, <3>4 DEF AddAutoCleanup, BeginsToAdd
    <3> QED BY <3>5
  <2> QED BY <1>1, <2>1, <2>3, <2>4, <2>5 DEF StartStep
<1>2. CASE MainStep
  <2>1. CASE Terminate \/ Sigkill \/ RemoveActive
    BY <2>1 DEF Terminate, Sigkill, RemoveActive
  <2>2. CASE AddKillChildren
    <3>1. PICK e \in Exec : op[Main].ex = e
      BY <2>2 DEF AddKillChildren, AtOp, ThreadInv, ThreadsBusy
    <3>2. ~Asked(e, "killChildren")
      BY <2>2, <3>1 DEF AddKillChildren, AtOp, Asked
    <3>3. op'[Main].pc = "idle" /\ requested' = requested
      BY <2>2 DEF AddKillChildren, Return, TypeOK
    <3>4. Asked(e, "killChildren")'
      BY <2>2, <3>1, <3>3 DEF Asked, AddKillChildren, AtOp, StartersOwn
    <3>5. BeginsToAdd(Main, e, "killChildren")
      BY <2>2, <3>1, <3>2, <3>4 DEF AddKillChildren, AddFinishListener, BeginsToAdd
    <3> QED BY <3>5
  <2> QED BY <1>2, <2>1, <2>2 DEF MainStep
<1>3. ASSUME NEW t \in Thread, ListenerStep(t) PROVE Goal
  <2> USE DEF AtFrame, Done, Then, Achieve
  <2>1. CASE CheckFinished(t)
    <3>1. frame[t].pc = "check" /\ \E pc \in {"append", "run"} : Then(t, pc)
      BY <2>1 DEF CheckFinished
    <3>2. UNCHANGED <<listeners, next, fired>>
      BY <2>1 DEF CheckFinished
    <3> QED BY <3>1, <3>2 DEF GoesOn
  <2>2. CASE EndDownload(t)
    <3>1. Done(t) /\ frame[t].pc # "check" /\ UNCHANGED <<listeners, next, fired>>
      BY <2>2 DEF EndDownload
    <3> QED BY <3>1 DEF GoesOn
  <2>3. CASE SendCallback(t)
    <3>1. Done(t) /\ frame[t].pc # "check" /\ UNCHANGED <<listeners, next, fired>>
      BY <2>3 DEF SendCallback
    <3> QED BY <3>1 DEF GoesOn
  <2>4. CASE CloseSocket(t)
    <3>1. Done(t) /\ frame[t].pc # "check" /\ UNCHANGED <<listeners, next, fired>>
      BY <2>4 DEF CloseSocket
    <3> QED BY <3>1 DEF GoesOn
  <2>5. CASE EndCleanup(t)
    <3>1. Done(t) /\ frame[t].pc # "check" /\ UNCHANGED <<listeners, next, fired>>
      BY <2>5 DEF EndCleanup
    <3> QED BY <3>1 DEF GoesOn
  <2>6. CASE StartAlert(t)
    <3>1. \E pc \in {"alertWait", "callback"} : Then(t, pc)
      BY <2>6 DEF StartAlert
    <3>2. UNCHANGED <<listeners, next, fired>>
      BY <2>6 DEF StartAlert
    <3> QED BY <3>1, <3>2 DEF GoesOn
  <2>7. CASE SendAlert(t)
    <3>1. \E pc \in {"alertWait", "callback"} : Then(t, pc)
      BY <2>7 DEF SendAlert
    <3>2. UNCHANGED <<listeners, next, fired>>
      BY <2>7 DEF SendAlert
    <3> QED BY <3>1, <3>2 DEF GoesOn
  <2>8. CASE RunDownload(t)
    <3>1. Done(t) \/ \E pc \in {"wait", "alert", "callback", "remove"} : Then(t, pc)
      BY <2>8 DEF RunDownload
    <3>2. frame[t].pc = "run" /\ Fire(t) /\ UNCHANGED <<listeners, next>>
      BY <2>8 DEF RunDownload
    <3> QED BY <3>1, <3>2 DEF Starts
  <2>9. CASE RunService(t)
    <3>1. Done(t) \/ \E pc \in {"wait", "alert", "callback", "remove"} : Then(t, pc)
      BY <2>9 DEF RunService
    <3>2. frame[t].pc = "run" /\ Fire(t) /\ UNCHANGED <<listeners, next>>
      BY <2>9 DEF RunService
    <3> QED BY <3>1, <3>2 DEF Starts
  <2>10. CASE RunKillChildren(t)
    <3>1. Done(t) \/ \E pc \in {"wait", "alert", "callback", "remove"} : Then(t, pc)
      BY <2>10 DEF RunKillChildren
    <3>2. frame[t].pc = "run" /\ Fire(t) /\ UNCHANGED <<listeners, next>>
      BY <2>10 DEF RunKillChildren
    <3> QED BY <3>1, <3>2 DEF Starts
  <2>11. CASE RunSocket(t)
    <3>1. Done(t) \/ \E pc \in {"wait", "alert", "callback", "remove"} : Then(t, pc)
      BY <2>11 DEF RunSocket
    <3>2. frame[t].pc = "run" /\ Fire(t) /\ UNCHANGED <<listeners, next>>
      BY <2>11 DEF RunSocket
    <3> QED BY <3>1, <3>2 DEF Starts
  <2>12. CASE RunCleanup(t)
    <3>1. Done(t) \/ \E pc \in {"wait", "alert", "callback", "remove"} : Then(t, pc)
      BY <2>12 DEF RunCleanup
    <3>2. frame[t].pc = "run" /\ Fire(t) /\ UNCHANGED <<listeners, next>>
      BY <2>12 DEF RunCleanup
    <3> QED BY <3>1, <3>2 DEF Starts
  <2>13. CASE AppendListener(t)
    BY <2>13
  <2> QED BY <1>3, <2>1, <2>2, <2>3, <2>4, <2>5, <2>6, <2>7, <2>8, <2>9, <2>10, <2>11, <2>12, <2>13 DEF ListenerStep
<1>4. ASSUME NEW e \in Exec, StartProcess(e) PROVE Goal
  BY <1>4 DEF StartProcess
<1>5. ASSUME NEW e \in Exec, ClientStep(e) PROVE Goal
  <2>1. CASE StopScript(e) \/ KillScript(e) \/ CleanupExecution(e)
    BY <2>1 DEF StopScript, KillScript, CleanupExecution
  <2>2. CASE OpenSocket(e)
    <3>1. ~Asked(e, "socket") /\ Asked(e, "socket")'
      BY <2>2 DEF OpenSocket, Receive, Asked
    <3>2. BeginsToAdd(Main, e, "socket")
      BY <2>2, <3>1 DEF OpenSocket, Receive, AddFinishListener, BeginsToAdd
    <3> QED BY <3>2
  <2> QED BY <1>5, <2>1, <2>2 DEF ClientStep
<1>6. ASSUME NEW e \in Exec, NotifyStep(e) PROVE Goal
  BY <1>6 DEF NotifyStep, NotifyEnd
<1>7. ASSUME NEW e \in Exec, Exit(e) \/ ChildExit(e) \/ ReaderEnds(e) \/ ReaderFails(e)
                             \/ FlushEnds(e)
      PROVE  Goal
  BY <1>7 DEF Exit, ChildExit, ReaderEnds, ReaderFails, FlushEnds
<1>8. CASE UNCHANGED vars
  BY <1>8 DEF vars
<1> QED BY <1>1, <1>2, <1>3, <1>4, <1>5, <1>6, <1>7, <1>8 DEF Next

(* A listener that was not asked for is taken by the thread that adds it. *)
LEMMA OnceAdds ==
    ASSUME TypeOK, Places,
           \A e \in Exec, l \in Listener : StaysAsked(e, l),
           NEW t \in {Main, Sched}, NEW x \in Exec, NEW k \in Listener, BeginsToAdd(t, x, k)
    PROVE  Places'
<1>1. /\ frame' = [frame EXCEPT ![t] = [pc |-> "check", ex |-> x, l |-> k]]
      /\ listeners' = listeners /\ next' = next /\ fired' = fired
      /\ ~Asked(x, k) /\ Asked(x, k)'
  BY DEF BeginsToAdd
<1>2. /\ frame'[t] = [pc |-> "check", ex |-> x, l |-> k]
      /\ \A u \in Thread : u # t => frame'[u] = frame[u]
  BY <1>1 DEF TypeOK
<1>3. ASSUME NEW e \in Exec, NEW l \in Listener PROVE StaysInPlace(e, l)
  <2>1. Listed(e, l)' <=> Listed(e, l)
    BY <1>1 DEF Listed
  <2>2. Ahead(e, l)' <=> Ahead(e, l)
    BY <1>1 DEF Ahead
  <2>3. HasFired(e, l)' <=> HasFired(e, l)
    BY <1>1 DEF HasFired
  <2>4. Asked(e, l) => Asked(e, l)'
    BY DEF StaysAsked
  <2>5. CASE e = x /\ l = k
    <3>1. /\ ~Listed(e, l) /\ ~HasFired(e, l)
          /\ \A u \in Thread : ~Adds(u, e, l) /\ ~Calls(u, e, l)
      BY <1>1, <2>5 DEF Places, OnePlace
    <3>2. ~Ahead(e, l)
      BY <3>1 DEF Ahead, Listed
    <3>3. \A u \in Thread : ~Calls(u, e, l)' /\ (Adds(u, e, l)' => u = t)
      BY <1>2, <3>1 DEF Adds, Calls
    <3>4. Asked(e, l)'
      BY <1>1, <2>5
    <3> QED BY <2>1, <2>2, <2>3, <3>1, <3>2, <3>3, <3>4 DEF OnePlace, StaysInPlace
  <2>6. CASE ~(e = x /\ l = k)
    <3>1. \A u \in Thread : /\ Adds(u, e, l)' => Adds(u, e, l)
                            /\ Calls(u, e, l)' => Calls(u, e, l) \/ Adds(u, e, l)
      BY <1>2, <2>6 DEF Adds, Calls
    <3>2. Undisturbed(e, l)
      BY <2>1, <2>2, <2>3, <2>4, <3>1 DEF Undisturbed
    <3> QED BY <3>2, PlaceKept DEF Places
  <2> QED BY <2>5, <2>6
<1>4. \A e \in Exec : Distinct(listeners[e])' /\ Distinct(fired[e])'
  BY <1>1 DEF Places, Distinct
<1> QED BY <1>3, <1>4 DEF Places, StaysInPlace

(* A thread that goes on keeps its listener, or is done with it. *)
LEMMA OnceGoesOn ==
    ASSUME TypeOK, Places,
           \A e \in Exec, l \in Listener : StaysAsked(e, l),
           UNCHANGED <<frame, listeners, next, fired>> \/ \E t \in Thread : GoesOn(t)
    PROVE  Places'
<1>1. listeners' = listeners /\ next' = next /\ fired' = fired
  BY DEF GoesOn
<1>2. ASSUME NEW e \in Exec, NEW l \in Listener PROVE StaysInPlace(e, l)
  <2>1. Listed(e, l)' <=> Listed(e, l)
    BY <1>1 DEF Listed
  <2>2. Ahead(e, l)' <=> Ahead(e, l)
    BY <1>1 DEF Ahead
  <2>3. HasFired(e, l)' <=> HasFired(e, l)
    BY <1>1 DEF HasFired
  <2>4. Asked(e, l) => Asked(e, l)'
    BY DEF StaysAsked
  <2>5. CASE UNCHANGED <<frame, listeners, next, fired>>
    <3>1. \A u \in Thread : /\ Adds(u, e, l)' => Adds(u, e, l)
                            /\ Calls(u, e, l)' => Calls(u, e, l) \/ Adds(u, e, l)
      BY <2>5 DEF Adds, Calls
    <3>2. Undisturbed(e, l)
      BY <2>1, <2>2, <2>3, <2>4, <3>1 DEF Undisturbed
    <3> QED BY <3>2, PlaceKept DEF Places
  <2>6. ASSUME NEW t \in Thread, GoesOn(t) PROVE StaysInPlace(e, l)
    <3>1. \A u \in Thread : u # t => frame'[u] = frame[u]
      BY <2>6 DEF GoesOn, Done, Then, TypeOK
    <3>2. \/ frame'[t].pc \notin {"check", "append", "run"}
          \/ /\ frame[t].pc = "check" /\ frame'[t].pc \in {"append", "run"}
             /\ frame'[t].ex = frame[t].ex /\ frame'[t].l = frame[t].l
      BY <2>6 DEF GoesOn, Done, Then, TypeOK
    <3>3. \A u \in Thread : /\ Adds(u, e, l)' => Adds(u, e, l)
                            /\ Calls(u, e, l)' => Calls(u, e, l) \/ Adds(u, e, l)
      BY <3>1, <3>2 DEF Adds, Calls
    <3>4. Undisturbed(e, l)
      BY <2>1, <2>2, <2>3, <2>4, <3>3 DEF Undisturbed
    <3> QED BY <3>4, PlaceKept DEF Places
  <2> QED BY <2>5, <2>6
<1>3. \A e \in Exec : Distinct(listeners[e])' /\ Distinct(fired[e])'
  BY <1>1 DEF Places, Distinct
<1> QED BY <1>2, <1>3 DEF Places, StaysInPlace

(* The call: from its thread to the listeners called, and nowhere else. *)
LEMMA OnceStarts ==
    ASSUME TypeOK, ThreadInv, Places,
           \A e \in Exec, l \in Listener : StaysAsked(e, l),
           NEW t \in Thread, Starts(t)
    PROVE  Places'
<1>1. PICK x \in Exec, k \in Listener : frame[t].ex = x /\ frame[t].l = k
  BY DEF ThreadInv, ThreadsBusy, Starts
<1>2. /\ listeners' = listeners /\ next' = next
      /\ fired' = [fired EXCEPT ![x] = Append(@, k)]
      /\ Calls(t, x, k)
  BY <1>1 DEF Starts, Fire, Calls
<1>3. /\ frame'[t].pc \notin {"check", "append", "run"}
      /\ \A u \in Thread : u # t => frame'[u] = frame[u]
  <2>1. CASE Done(t)
    BY <2>1 DEF Done, TypeOK
  <2>2. CASE \E pc \in FramePc \ {"check", "append", "run"} : Then(t, pc)
    BY <2>2 DEF Then, TypeOK
  <2> QED BY <2>1, <2>2 DEF Starts
<1>4. /\ fired[x] \in Seq(Listener) /\ fired'[x] = Append(fired[x], k)
      /\ \A e \in Exec : e # x => fired'[e] = fired[e]
  BY <1>2 DEF TypeOK
<1>5. /\ ~HasFired(x, k) /\ ~Ahead(x, k) /\ Asked(x, k)
      /\ \A u \in Thread : Adds(u, x, k) \/ Calls(u, x, k) => u = t
  BY <1>2 DEF Places, OnePlace
<1>6. ASSUME NEW e \in Exec, NEW l \in Listener PROVE StaysInPlace(e, l)
  <2>1. Listed(e, l)' <=> Listed(e, l)
    BY <1>2 DEF Listed
  <2>2. Ahead(e, l)' <=> Ahead(e, l)
    BY <1>2 DEF Ahead
  <2>3. \A u \in Thread : /\ Adds(u, e, l)' => Adds(u, e, l)
                          /\ Calls(u, e, l)' => Calls(u, e, l) \/ Adds(u, e, l)
    BY <1>3 DEF Adds, Calls
  <2>4. Asked(e, l) => Asked(e, l)'
    BY DEF StaysAsked
  <2>5. CASE e = x /\ l = k
    <3>1. \A u \in Thread : ~Adds(u, e, l)' /\ ~Calls(u, e, l)'
      BY <1>3, <1>5, <2>5 DEF Adds, Calls
    <3>2. Asked(e, l)' /\ ~Ahead(e, l)'
      BY <1>5, <2>2, <2>4, <2>5
    <3> QED BY <3>1, <3>2 DEF OnePlace, StaysInPlace
  <2>6. CASE ~(e = x /\ l = k)
    <3>1. HasFired(e, l)' => HasFired(e, l)
      <4>1. CASE e # x
        BY <1>4, <4>1 DEF HasFired
      <4>2. CASE e = x
        <5>1. \A i \in 1..Len(fired'[x]) :
                \/ fired'[x][i] = k
                \/ i \in 1..Len(fired[x]) /\ fired'[x][i] = fired[x][i]
          BY <1>4, AppendDistinct
        <5> QED BY <2>6, <4>2, <5>1 DEF HasFired
      <4> QED BY <4>1, <4>2
    <3>2. Undisturbed(e, l)
      BY <2>1, <2>2, <2>3, <2>4, <3>1 DEF Undisturbed
    <3> QED BY <3>2, PlaceKept DEF Places
  <2> QED BY <2>5, <2>6
<1>7. ASSUME NEW e \in Exec PROVE Distinct(listeners[e])' /\ Distinct(fired[e])'
  <2>1. Distinct(listeners[e])' /\ Distinct(fired[e])
    BY <1>2 DEF Places, Distinct
  <2>2. CASE e # x
    BY <1>4, <2>1, <2>2 DEF Distinct
  <2>3. CASE e = x
    <3>1. \A i \in 1..Len(fired[x]) : fired[x][i] # k
      BY <1>5 DEF HasFired
    <3>2. Distinct(Append(fired[x], k))
      BY <1>4, <2>1, <2>3, <3>1, AppendDistinct
    <3> QED BY <1>4, <2>1, <2>3, <3>2 DEF Distinct
  <2> QED BY <2>2, <2>3
<1> QED BY <1>6, <1>7 DEF Places, StaysInPlace

(* A listener is appended by the thread that adds it, to where it was not. *)
LEMMA OnceAppends ==
    ASSUME TypeOK, ThreadInv, Places,
           \A e \in Exec, l \in Listener : StaysAsked(e, l),
           NEW t \in Thread, AppendListener(t)
    PROVE  Places'
<1>1. PICK x \in Exec, k \in Listener : frame[t].ex = x /\ frame[t].l = k
  BY DEF ThreadInv, ThreadsBusy, AppendListener
<1>2. /\ fired' = fired /\ next' = next
      /\ listeners' = [listeners EXCEPT ![x] = Append(@, k)]
      /\ Adds(t, x, k)
  BY <1>1 DEF AppendListener, outVars, Adds
<1>3. /\ frame'[t].pc = "idle"
      /\ \A u \in Thread : u # t => frame'[u] = frame[u]
  BY DEF AppendListener, Done, TypeOK
<1>4. /\ listeners[x] \in Seq(Listener) /\ listeners'[x] = Append(listeners[x], k)
      /\ \A e \in Exec : e # x => listeners'[e] = listeners[e]
  BY <1>2 DEF TypeOK
<1>5. /\ ~HasFired(x, k) /\ ~Listed(x, k) /\ Asked(x, k)
      /\ \A u \in Thread : Adds(u, x, k) \/ Calls(u, x, k) => u = t
  BY <1>2 DEF Places, OnePlace
<1>6. ASSUME NEW e \in Exec, NEW l \in Listener PROVE StaysInPlace(e, l)
  <2>1. HasFired(e, l)' <=> HasFired(e, l)
    BY <1>2 DEF HasFired
  <2>2. \A i \in 1..Len(listeners'[x]) :
           \/ listeners'[x][i] = k
           \/ i \in 1..Len(listeners[x]) /\ listeners'[x][i] = listeners[x][i]
    BY <1>4, AppendDistinct
  <2>3. \A u \in Thread : /\ Adds(u, e, l)' => Adds(u, e, l)
                          /\ Calls(u, e, l)' => Calls(u, e, l) \/ Adds(u, e, l)
    BY <1>3 DEF Adds, Calls
  <2>4. Asked(e, l) => Asked(e, l)'
    BY DEF StaysAsked
  <2>5. CASE e = x /\ l = k
    <3>1. \A u \in Thread : ~Adds(u, e, l)' /\ ~Calls(u, e, l)'
      BY <1>3, <1>5, <2>5 DEF Adds, Calls
    <3>2. Asked(e, l)' /\ ~HasFired(e, l)'
      BY <1>5, <2>1, <2>4, <2>5
    <3> QED BY <3>1, <3>2 DEF OnePlace, StaysInPlace
  <2>6. CASE ~(e = x /\ l = k)
    <3>1. Listed(e, l)' => Listed(e, l)
      BY <1>4, <2>2, <2>6 DEF Listed
    <3>2. Ahead(e, l)' => Ahead(e, l)
      BY <1>2, <1>4, <2>2, <2>6 DEF Ahead
    <3>3. Undisturbed(e, l)
      BY <2>1, <2>3, <2>4, <3>1, <3>2 DEF Undisturbed
    <3> QED BY <3>3, PlaceKept DEF Places
  <2> QED BY <2>5, <2>6
<1>7. ASSUME NEW e \in Exec PROVE Distinct(listeners[e])' /\ Distinct(fired[e])'
  <2>1. Distinct(listeners[e]) /\ Distinct(fired[e])'
    BY <1>2 DEF Places, Distinct
  <2>2. CASE e # x
    BY <1>4, <2>1, <2>2 DEF Distinct
  <2>3. CASE e = x
    <3>1. \A i \in 1..Len(listeners[x]) : listeners[x][i] # k
      BY <1>5 DEF Listed
    <3>2. Distinct(Append(listeners[x], k))
      BY <1>4, <2>1, <2>3, <3>1, AppendDistinct
    <3> QED BY <1>4, <2>1, <2>3, <3>2 DEF Distinct
  <2> QED BY <2>2, <2>3
<1> QED BY <1>6, <1>7 DEF Places, StaysInPlace

(* The notify thread takes a listener from the list: it is not ahead of it *)
(* any more, and nobody else had it.                                       *)
LEMMA OnceNotifies ==
    ASSUME TypeOK, ThreadInv, Places,
           \A e \in Exec, l \in Listener : StaysAsked(e, l),
           NEW x \in Exec, NotifyNext(x)
    PROVE  Places'
<1>1. /\ fired' = fired /\ listeners' = listeners
      /\ next' = [next EXCEPT ![x] = @ + 1]
      /\ next[x] < Len(listeners[x])
      /\ frame' = [frame EXCEPT ![x] = [pc |-> "run", ex |-> x, l |-> listeners[x][next'[x]]]]
  BY DEF NotifyNext, outVars
<1>2. next'[x] = next[x] + 1 /\ \A e \in Exec : e # x => next'[e] = next[e]
  BY <1>1 DEF TypeOK
<1>3. next \in [Exec -> Nat] /\ listeners[x] \in Seq(Listener) /\ Len(listeners[x]) \in Nat
  BY LenProperties DEF TypeOK
<1>4. next[x] + 1 \in 1..Len(listeners[x])
  BY <1>1, <1>3
<1>5. PICK k \in Listener : k = listeners[x][next[x] + 1]
  BY <1>3, <1>4, ElementOfSeq
<1>6. /\ frame'[x] = [pc |-> "run", ex |-> x, l |-> k]
      /\ \A u \in Thread : u # x => frame'[u] = frame[u]
  BY <1>1, <1>2, <1>5 DEF TypeOK
<1>7. Ahead(x, k) /\ Listed(x, k)
  <2>1. next[x] < next[x] + 1
    BY <1>3
  <2> QED BY <1>4, <1>5, <2>1 DEF Ahead, Listed
<1>8. /\ ~HasFired(x, k) /\ Asked(x, k)
      /\ \A u \in Thread : ~Adds(u, x, k) /\ ~Calls(u, x, k)
  BY <1>7 DEF Places, OnePlace
<1>9. ~Ahead(x, k)'
  <2>1. \A i \in 1..Len(listeners[x]) : listeners[x][i] = k => i = next[x] + 1
    BY <1>4, <1>5 DEF Places, Distinct
  <2>2. \A i \in 1..Len(listeners[x]) : next[x] + 1 < i => listeners[x][i] # k
    BY <1>3, <2>1
  <2> QED BY <1>1, <1>2, <2>2 DEF Ahead
<1>10. ASSUME NEW e \in Exec, NEW l \in Listener PROVE StaysInPlace(e, l)
  <2>1. Listed(e, l)' <=> Listed(e, l)
    BY <1>1 DEF Listed
  <2>2. HasFired(e, l)' <=> HasFired(e, l)
    BY <1>1 DEF HasFired
  <2>3. Asked(e, l) => Asked(e, l)'
    BY DEF StaysAsked
  <2>4. CASE e = x /\ l = k
    <3>1. \A u \in Thread : ~Adds(u, e, l)' /\ (Calls(u, e, l)' => u = x)
      BY <1>6, <1>8, <2>4 DEF Adds, Calls
    <3>2. Asked(e, l)' /\ ~HasFired(e, l)' /\ ~Ahead(e, l)'
      BY <1>8, <1>9, <2>2, <2>3, <2>4
    <3> QED BY <2>4, <3>1, <3>2 DEF OnePlace, StaysInPlace
  <2>5. CASE ~(e = x /\ l = k)
    <3>1. \A u \in Thread : /\ Adds(u, e, l)' => Adds(u, e, l)
                            /\ Calls(u, e, l)' => Calls(u, e, l)
      BY <1>6, <2>5 DEF Adds, Calls
    <3>2. Ahead(e, l)' => Ahead(e, l)
      <4>1. \A i \in 1..Len(listeners[e]) : next'[e] < i => next[e] < i
        <5>1. next[e] \in Nat /\ Len(listeners[e]) \in Nat
          BY LenProperties DEF TypeOK
        <5>2. next'[e] \in {next[e], next[e] + 1}
          BY <1>2
        <5> QED BY <5>1, <5>2
      <4> QED BY <1>1, <4>1 DEF Ahead
    <3>3. Undisturbed(e, l)
      BY <2>1, <2>2, <2>3, <3>1, <3>2 DEF Undisturbed
    <3> QED BY <3>3, PlaceKept DEF Places
  <2> QED BY <2>4, <2>5
<1>11. \A e \in Exec : Distinct(listeners[e])' /\ Distinct(fired[e])'
  BY <1>1 DEF Places, Distinct
<1> QED BY <1>10, <1>11 DEF Places, StaysInPlace

(* A finish listener of an execution is called at most once, however the   *)
(* registrations meet the end of the script and the notify thread.         *)
THEOREM ListenersFireOnce == Spec => []FiredOnce
<1>1. Init => OnceInv
  <2> SUFFICES ASSUME Init PROVE OnceInv
    OBVIOUS
  <2>1. StartersOwn
    BY DEF Init, StartersOwn, BeforeDownload, BeforeService, BeforeCleanup
  <2>2. /\ \A e \in Exec : listeners[e] = <<>> /\ fired[e] = <<>>
        /\ \A t \in Thread : frame[t].pc = "idle"
    BY DEF Init
  <2>3. \A e \in Exec : Len(listeners[e]) = 0 /\ Len(fired[e]) = 0
    BY <2>2, EmptySeq
  <2>4. \A e \in Exec, l \in Listener : ~Listed(e, l) /\ ~HasFired(e, l) /\ ~Ahead(e, l)
    BY <2>3 DEF Listed, HasFired, Ahead
  <2> QED BY <2>1, <2>2, <2>3, <2>4 DEF OnceInv, Places, Distinct, OnePlace, Adds, Calls
<1>2. IInv /\ OnceInv /\ [Next]_vars => OnceInv'
  <2> SUFFICES ASSUME IInv, OnceInv, [Next]_vars PROVE OnceInv'
    OBVIOUS
  <2>1. TypeOK /\ ThreadInv /\ ThreadsBusy /\ StartersOwn /\ Places
    BY DEF IInv, ThreadInv, OnceInv
  <2>2. ASSUME NEW e \in Exec, NEW l \in Listener PROVE StaysAsked(e, l)
    <3>1. Asked(e, l) => Asked(e, l)'
      BY <2>1, AskedStays
    <3> QED BY <3>1 DEF StaysAsked
  <2>3. StartersOwn'
    BY <2>1, StartersNext
  <2>4. Places'
    BY <2>1, <2>2, PlaceSteps, OnceAdds, OnceGoesOn, OnceStarts, OnceAppends, OnceNotifies
  <2> QED BY <2>3, <2>4 DEF OnceInv
<1>3. OnceInv => FiredOnce
  BY DEF OnceInv, Places, FiredOnce, Distinct
<1> QED BY <1>1, <1>2, <1>3, InductiveInvariant, PTL DEF Spec

(* An execution leaves the active ones only after its end, and only when   *)
(* its output stream is disposed of, whoever cleans it up.                 *)
THEOREM InactiveIsDisposed == Spec => OnlyDisposedBecomeInactive
<1>1. IInv /\ [Next]_vars => [\A e \in active \ active' : IsFinished(e) /\ e \in srcClosed]_vars
  <2> SUFFICES ASSUME IInv, Next, NEW e \in active, e \notin active'
               PROVE  IsFinished(e) /\ e \in srcClosed
    OBVIOUS
  <2> USE DEF procVars, serviceVars, notifyVars, streamVars, outVars
  <2>1. ASSUME NEW t \in {Main, Sched}, StartStep(t) PROVE FALSE
    BY <2>1 DEF StartStep, RegisterExecutor, StartRaises, RegisterInfo, Activate, FireExecutionStarted,
         AddPostFinishHandling, AddAutoCleanup
  <2>2. CASE MainStep
    <3>1. RemoveActive
      BY <2>2 DEF MainStep, Terminate, AddKillChildren, Sigkill
    <3> QED BY <3>1 DEF RemoveActive, AtOp, IInv, RecordInv, RemovingIsDisposed
  <2>3. ASSUME NEW t \in Thread, ListenerStep(t) PROVE IsFinished(e) /\ e \in srcClosed
    <3>1. EndCleanup(t)
      BY <2>3 DEF ListenerStep, CheckFinished, AppendListener, RunDownload, EndDownload,
           RunService, StartAlert, SendAlert, SendCallback, RunKillChildren, RunSocket,
           CloseSocket, RunCleanup
    <3> QED BY <3>1 DEF EndCleanup, IInv, RecordInv, RemovingIsDisposed
  <2>4. ASSUME NEW x \in Exec, StartProcess(x) \/ ClientStep(x) \/ NotifyStep(x) \/ Exit(x)
                               \/ ChildExit(x) \/ ReaderEnds(x) \/ ReaderFails(x) \/ FlushEnds(x)
        PROVE  FALSE
    BY <2>4 DEF StartProcess, ClientStep, StopScript, KillScript, CleanupExecution, OpenSocket,
         NotifyStep, NotifyNext, NotifyEnd, Exit, ChildExit, ReaderEnds, ReaderFails, FlushEnds
  <2> QED BY <2>1, <2>2, <2>3, <2>4 DEF Next
<1> QED BY <1>1, InductiveInvariant, PTL DEF Spec, OnlyDisposedBecomeInactive
=============================================================================
