------------------------ MODULE ScheduleService_proofs ------------------------
(***************************************************************************)
(* Proofs about ScheduleService, for any set of schedules, any calendar    *)
(* that never answers with the past, and any bounds; and about NextTimes,  *)
(* that the calendar of the code is such a one.                            *)
(***************************************************************************)
EXTENDS ScheduleService, NextTimes, SequenceTheorems, FiniteSetTheorems,
        WellFoundedInduction, TLAPS

(* The ids that are in use in memory were given out, and the halves of the *)
(* server are up together.                                                 *)
InUse(i) ==
    \/ \E e \in queue : e.id = i
    \/ i \in todo
    \/ \E t \in Threads : InHand(t, i)

Fresh == \A i \in Ids : InUse(i) => i < nextId

Halves ==
    /\ pc["main"] = "down" <=> pc["sched"] = "down"
    /\ pc["main"] = "down" => queue = {} /\ todo = {}
    /\ todo # {} => pc["main"] = "restore"
    /\ pc["main"] \notin {"check", "start"}
    /\ pc["sched"] # "restore"

(* Where the executions of a job stand: before now, before its next event, *)
(* before the event in hand as long as its script was not started for it.  *)
RunsBefore(i, t) == \A n \in DOMAIN runs[i] : runs[i][n] < t

RunsPlaced ==
    /\ \A i \in Ids : RunsBefore(i, clock + 1)
    /\ \A i \in todo : RunsBefore(i, clock)
    /\ \A e \in queue : RunsBefore(e.id, e.due)
    /\ pc["main"] \in {"open", "write", "schedule"} => runs[job["main"]] = <<>>
    /\ pc["sched"] \in {"check", "start"} => RunsBefore(job["sched"], due)
    /\ pc["sched"] \in {"open", "write", "schedule"} => RunsBefore(job["sched"], due + 1)
    /\ pc["sched"] \notin {"idle", "down"} => due <= clock

IInv == TypeOK /\ Halves /\ Fresh /\ QueuedOnce /\ RunsPlaced /\ RunsInOrder

-----------------------------------------------------------------------------
(* Scheduling a job adds at most one event, of that job, not in the past.  *)
LEMMA EnqueueAdds ==
    ASSUME TypeOK, NEW i \in Ids, Enqueue(i)
    PROVE  \/ queue' = queue
           \/ \E d \in Int : d >= clock /\ queue' = queue \union {[id |-> i, due |-> d]}
<1>1. CASE HasNext(i, count[i])
  <2>1. config[i] \in Schedules /\ clock \in Clock /\ clock \in Int
    BY BoundsAssumption DEF TypeOK, Clock
  <2>2. NextDue(config[i], clock) \in Int /\ NextDue(config[i], clock) >= clock
    BY <1>1, <2>1, NextDueAssumption, SchedulesAssumption DEF HasNext
  <2> QED BY <1>1, <2>2 DEF Enqueue
<1>2. CASE ~HasNext(i, count[i])
  BY <1>2 DEF Enqueue
<1> QED BY <1>1, <1>2

LEMMA EnqueueTyped ==
    ASSUME TypeOK, NEW i \in Ids, Enqueue(i)
    PROVE  queue' \subseteq Event
<1>1. queue \subseteq Event BY DEF TypeOK
<1>2. CASE queue' = queue BY <1>1, <1>2
<1>3. ASSUME NEW d \in Int, queue' = queue \union {[id |-> i, due |-> d]}
      PROVE  queue' \subseteq Event
  BY <1>1, <1>3 DEF Event
<1> QED BY <1>2, <1>3, EnqueueAdds

LEMMA AppendTyped == \A q \in Seq(Int), d \in Int : Append(q, d) \in Seq(Int)
BY AppendProperties

LEMMA GotoTyped ==
    ASSUME TypeOK, NEW t \in Threads,
           NEW label \in {"idle", "check", "start", "open", "write", "schedule", "restore", "down"},
           Goto(t, label)
    PROVE  pc' \in [Threads -> {"idle", "check", "start", "open", "write", "schedule",
                                "restore", "down"}]
BY DEF TypeOK, Goto

LEMMA TypeInit == Init => TypeOK
BY BoundsAssumption, SchedulesAssumption
   DEF Init, TypeOK, Clock, Ids, Threads, Event

LEMMA TypeStep == TypeOK /\ [Next]_vars => TypeOK'
<1> SUFFICES ASSUME TypeOK, [Next]_vars PROVE TypeOK'
  OBVIOUS
<1> USE BoundsAssumption
<1>t. "main" \in Threads /\ "sched" \in Threads
  BY DEF Threads
<1>1. ASSUME NEW s \in Schedules, CreateJob(s) PROVE TypeOK'
  <2>1. nextId \in Ids BY <1>1 DEF TypeOK, CreateJob, Ids
  <2>2. nextId' \in 1..MaxId + 1 BY <1>1 DEF TypeOK, CreateJob
  <2>3. config' \in [Ids -> Schedules] /\ count' \in [Ids -> Nat] BY <1>1, <2>1 DEF TypeOK, CreateJob
  <2>4. job' \in [Threads -> Ids] BY <1>1, <2>1 DEF TypeOK, CreateJob
  <2>5. runs' \in [Ids -> Seq(Int)] BY <1>1, <2>1 DEF TypeOK, CreateJob
  <2>6. Goto("main", "open") BY <1>1 DEF CreateJob
  <2> QED BY <1>1, <1>t, <2>2, <2>3, <2>4, <2>5, <2>6, GotoTyped DEF TypeOK, CreateJob, disk
<1>2. ASSUME NEW t \in Threads, Save(t) PROVE TypeOK'
  <2>1. job[t] \in Ids BY DEF TypeOK
  <2>2. CASE OpenFile(t)
    BY <2>1, <2>2, GotoTyped DEF OpenFile, TypeOK, memory
  <2>3. CASE WriteFile(t)
    <3>1. file' \in [Ids -> {"absent", "broken", "whole"}] /\ saved' \in [Ids -> Nat]
      BY <2>1, <2>3 DEF WriteFile, TypeOK, disk
    <3> QED BY <2>3, <3>1, GotoTyped DEF WriteFile, TypeOK, memory
  <2>4. CASE SaveFails(t)
    BY <2>4, GotoTyped DEF SaveFails, TypeOK, memory, disk
  <2> QED BY <1>2, <2>2, <2>3, <2>4 DEF Save
<1>3. ASSUME NEW t \in Threads, ScheduleJob(t) PROVE TypeOK'
  <2>1. job[t] \in Ids BY DEF TypeOK
  <2>2. queue' \subseteq Event BY <1>3, <2>1, EnqueueTyped DEF ScheduleJob
  <2> QED BY <1>3, <2>2, GotoTyped DEF ScheduleJob, TypeOK, memory, disk
<1>4. CASE RestoreJob
  <2>1. CASE todo = {}
    BY <1>4, <1>t, <2>1, GotoTyped DEF RestoreJob, TypeOK, memory, disk
  <2>2. CASE todo # {}
    <3>1. PICK i \in todo : Enqueue(i) /\ todo' = todo \ {i} BY <1>4, <2>2 DEF RestoreJob
    <3>2. i \in Ids BY <3>1 DEF TypeOK
    <3>3. queue' \subseteq Event BY <3>1, <3>2, EnqueueTyped
    <3> QED BY <1>4, <2>2, <3>1, <3>3 DEF RestoreJob, TypeOK, memory, disk
  <2> QED BY <2>1, <2>2
<1>5. CASE TakeDue
  <2>1. PICK e \in queue : /\ queue' = queue \ {e}
                           /\ job' = [job EXCEPT !["sched"] = e.id]
                           /\ due' = e.due
    BY <1>5 DEF TakeDue
  <2>2. e.id \in Ids /\ e.due \in Int BY DEF TypeOK, Event
  <2>3. job' \in [Threads -> Ids] /\ due' \in Int BY <2>1, <2>2 DEF TypeOK
  <2> QED BY <1>5, <1>t, <2>1, <2>3, GotoTyped DEF TakeDue, TypeOK, memory, disk
<1>6. CASE CheckFile
  BY <1>6, <1>t, GotoTyped DEF CheckFile, TypeOK, memory, disk
<1>7. CASE StartScript
  <2>1. job["sched"] \in Ids BY <1>t DEF TypeOK
  <2>2. runs' \in [Ids -> Seq(Int)]
    <3>1. runs[job["sched"]] \in Seq(Int) /\ due \in Int BY <2>1 DEF TypeOK
    <3>2. Append(runs[job["sched"]], due) \in Seq(Int) BY <3>1, AppendTyped
    <3> QED BY <1>7, <2>1, <3>2 DEF TypeOK, StartScript
  <2>3. count' \in [Ids -> Nat]
    <3>1. CASE config[job["sched"]].repeatable
      <4>1. count' = [count EXCEPT ![job["sched"]] = count[job["sched"]] + 1]
        BY <1>7, <3>1 DEF StartScript
      <4>2. count[job["sched"]] + 1 \in Nat BY <2>1 DEF TypeOK
      <4> QED BY <4>1, <4>2 DEF TypeOK
    <3>2. CASE ~config[job["sched"]].repeatable BY <1>7, <2>1, <3>2 DEF TypeOK, StartScript
    <3> QED BY <3>1, <3>2
  <2>4. pc' \in [Threads -> {"idle", "check", "start", "open", "write", "schedule",
                             "restore", "down"}]
    BY <1>7, <1>t, GotoTyped DEF StartScript
  <2> QED BY <1>7, <2>2, <2>3, <2>4 DEF TypeOK, StartScript, disk
<1>8. CASE StartFails
  BY <1>8, <1>t, GotoTyped DEF StartFails, TypeOK, memory, disk
<1>9. CASE Tick
  BY <1>9 DEF Tick, TypeOK, Clock, memory, disk
<1>10. ASSUME NEW i \in Ids, DeleteFile(i) PROVE TypeOK'
  BY <1>10 DEF DeleteFile, TypeOK, memory
<1>11. CASE Crash
  BY <1>11 DEF Crash, TypeOK, memory, disk
<1>12. CASE Restart
  <2>1. clock' \in Clock BY <1>12 DEF Restart, TypeOK, Clock
  <2>2. count' \in [Ids -> Nat] BY <1>12 DEF Restart, TypeOK
  <2>3. nextId' \in 1..MaxId + 1 BY <1>12 DEF Restart
  <2>4. todo' \subseteq Ids BY <1>12 DEF Restart
  <2>5. pc' \in [Threads -> {"idle", "check", "start", "open", "write", "schedule",
                             "restore", "down"}]
    BY <1>12 DEF Restart
  <2> QED BY <1>12, <2>1, <2>2, <2>3, <2>4, <2>5 DEF Restart, TypeOK, disk
<1>14. CASE StartRaises
  <2>1. job["sched"] \in Ids BY <1>t DEF TypeOK
  <2>2. runs' \in [Ids -> Seq(Int)]
    <3>1. runs[job["sched"]] \in Seq(Int) /\ due \in Int BY <2>1 DEF TypeOK
    <3>2. Append(runs[job["sched"]], due) \in Seq(Int) BY <3>1, AppendTyped
    <3> QED BY <1>14, <2>1, <3>2 DEF TypeOK, StartRaises
  <2>3. faults' \in 0..MaxFaults BY <1>14, BoundsAssumption DEF TypeOK, StartRaises
  <2>4. pc' \in [Threads -> {"idle", "check", "start", "open", "write", "schedule",
                             "restore", "down"}]
    BY <1>14, <1>t, GotoTyped DEF StartRaises
  <2> QED BY <1>14, <2>2, <2>3, <2>4 DEF TypeOK, StartRaises, memory, disk
<1>13. CASE UNCHANGED vars
  BY <1>13 DEF vars, TypeOK
<1> QED
  BY <1>t, <1>1, <1>2, <1>3, <1>4, <1>5, <1>6, <1>7, <1>8, <1>9, <1>10, <1>11, <1>12, <1>13,
     <1>14
     DEF Next, MainStep, SchedStep, Outside

-----------------------------------------------------------------------------
LEMMA HalvesStep == TypeOK /\ Halves /\ [Next]_vars => Halves'
<1> SUFFICES ASSUME TypeOK, Halves, [Next]_vars PROVE Halves'
  OBVIOUS
<1>t. /\ "main" \in Threads /\ "sched" \in Threads /\ "main" # "sched"
      /\ pc \in [Threads -> {"idle", "check", "start", "open", "write", "schedule",
                             "restore", "down"}]
  BY DEF Threads, TypeOK
<1>1. ASSUME NEW s \in Schedules, CreateJob(s) PROVE Halves'
  BY <1>t, <1>1 DEF CreateJob, Goto, Halves
<1>2. ASSUME NEW t \in Threads, Save(t) PROVE Halves'
  BY <1>t, <1>2 DEF Save, OpenFile, WriteFile, SaveFails, Goto, Halves, Threads
<1>3. ASSUME NEW t \in Threads, ScheduleJob(t) PROVE Halves'
  BY <1>t, <1>3 DEF ScheduleJob, Goto, Halves, Threads
<1>4. CASE RestoreJob
  BY <1>t, <1>4 DEF RestoreJob, Goto, Halves
<1>5. CASE TakeDue
  BY <1>t, <1>5 DEF TakeDue, Goto, Halves
<1>6. CASE CheckFile
  BY <1>t, <1>6 DEF CheckFile, Goto, Halves
<1>7. CASE StartScript
  BY <1>t, <1>7 DEF StartScript, Goto, Halves
<1>8. CASE StartFails
  BY <1>t, <1>8 DEF StartFails, Goto, Halves
<1>14. CASE StartRaises
  BY <1>t, <1>14 DEF StartRaises, Goto, Halves
<1>9. CASE Tick
  BY <1>9 DEF Tick, Halves
<1>10. ASSUME NEW i \in Ids, DeleteFile(i) PROVE Halves'
  BY <1>10 DEF DeleteFile, Halves
<1>11. CASE Crash
  BY <1>t, <1>11 DEF Crash, Halves
<1>12. CASE Restart
  BY <1>t, <1>12 DEF Restart, Halves
<1>13. CASE UNCHANGED vars
  BY <1>13 DEF vars, Halves
<1> QED
  BY <1>t, <1>1, <1>2, <1>3, <1>4, <1>5, <1>6, <1>7, <1>8, <1>9, <1>10, <1>11, <1>12, <1>13,
     <1>14
     DEF Next, MainStep, SchedStep, Outside

(* What is in flight after a step was in flight before, but for a new job  *)
(* and the jobs of a restart.                                              *)
LEMMA FlightStep ==
    ASSUME TypeOK, Halves, Fresh, QueuedOnce, [Next]_vars
    PROVE  Fresh' /\ QueuedOnce'
<1> USE DEF Fresh, InUse, QueuedOnce, InHand
<1>t. /\ "main" \in Threads /\ "sched" \in Threads /\ "main" # "sched"
      /\ pc \in [Threads -> {"idle", "check", "start", "open", "write", "schedule",
                             "restore", "down"}]
      /\ job \in [Threads -> Ids] /\ todo \subseteq Ids
      /\ nextId \in Int /\ Ids \subseteq Int
      /\ \A e \in queue : e.id \in Ids
      /\ Threads = {"main", "sched"}
  <2>1. Ids \subseteq Int /\ nextId \in Int BY BoundsAssumption DEF TypeOK, Ids
  <2>2. \A e \in queue : e.id \in Ids BY DEF TypeOK, Event
  <2> QED BY <2>1, <2>2 DEF Threads, TypeOK
<1>1. ASSUME NEW s \in Schedules, CreateJob(s) PROVE Fresh' /\ QueuedOnce'
  <2>1. nextId \in Ids /\ ~InUse(nextId) 
    <3>1. nextId \in Ids BY <1>1, BoundsAssumption DEF CreateJob, Ids, TypeOK
    <3>2. ~(nextId < nextId) BY <1>t
    <3> QED BY <3>1, <3>2
  <2>2. /\ queue' = queue /\ todo' = todo /\ nextId' = nextId + 1
        /\ job' = [job EXCEPT !["main"] = nextId] /\ pc' = [pc EXCEPT !["main"] = "open"]
        /\ pc["main"] = "idle"
    BY <1>1 DEF CreateJob, Goto
  <2> QED BY <1>t, <2>1, <2>2
<1>2. ASSUME NEW t \in Threads, Save(t) PROVE Fresh' /\ QueuedOnce'
  <2>1. /\ queue' = queue /\ todo' = todo /\ nextId' = nextId /\ job' = job
        /\ \E label \in {"idle", "write", "schedule"} : pc' = [pc EXCEPT ![t] = label]
        /\ pc[t] \in {"open", "write"}
    BY <1>2 DEF Save, OpenFile, WriteFile, SaveFails, Goto, memory
  <2> QED BY <1>t, <2>1
<1>3. ASSUME NEW t \in Threads, ScheduleJob(t) PROVE Fresh' /\ QueuedOnce'
  <2>1. /\ todo' = todo /\ nextId' = nextId /\ job' = job
        /\ pc' = [pc EXCEPT ![t] = "idle"] /\ pc[t] = "schedule"
    BY <1>3 DEF ScheduleJob, Goto, memory
  <2>2. InHand(t, job[t]) BY <2>1
  <2>3. CASE queue' = queue BY <1>t, <2>1, <2>3
  <2>4. ASSUME NEW d \in Int, queue' = queue \union {[id |-> job[t], due |-> d]}
        PROVE  Fresh' /\ QueuedOnce'
    <3>1. Fresh' BY <1>t, <2>1, <2>2, <2>4
    <3>2. QueuedOnce' BY <1>t, <2>1, <2>2, <2>4
    <3> QED BY <3>1, <3>2
  <2> QED BY <1>t, <1>3, <2>3, <2>4, EnqueueAdds DEF ScheduleJob
<1>4. CASE RestoreJob
  <2>1. CASE todo = {}
    <3>1. /\ queue' = queue /\ todo' = todo /\ nextId' = nextId /\ job' = job
          /\ pc' = [pc EXCEPT !["main"] = "idle"]
      BY <1>4, <2>1 DEF RestoreJob, Goto, memory
    <3> QED BY <1>t, <3>1
  <2>2. CASE todo # {}
    <3>1. PICK i \in todo : Enqueue(i) /\ todo' = todo \ {i} BY <1>4, <2>2 DEF RestoreJob
    <3>2. nextId' = nextId /\ job' = job /\ pc' = pc BY <1>4, <2>2 DEF RestoreJob, memory
    <3>3. CASE queue' = queue BY <1>t, <3>1, <3>2, <3>3
    <3>4. ASSUME NEW d \in Int, queue' = queue \union {[id |-> i, due |-> d]}
          PROVE  Fresh' /\ QueuedOnce'
      <4>1. Fresh' BY <1>t, <3>1, <3>2, <3>4
      <4>2. QueuedOnce' BY <1>t, <3>1, <3>2, <3>4
      <4> QED BY <4>1, <4>2
    <3> QED BY <1>t, <3>1, <3>3, <3>4, EnqueueAdds
  <2> QED BY <2>1, <2>2
<1>5. CASE TakeDue
  <2>1. PICK e \in queue : /\ queue' = queue \ {e}
                           /\ job' = [job EXCEPT !["sched"] = e.id]
    BY <1>5 DEF TakeDue
  <2>2. /\ todo' = todo /\ nextId' = nextId /\ pc["sched"] = "idle"
        /\ pc' = [pc EXCEPT !["sched"] = "check"]
    BY <1>5 DEF TakeDue, Goto, memory
  <2> QED BY <1>t, <2>1, <2>2
<1>6. CASE CheckFile \/ StartScript \/ StartFails \/ StartRaises
  <2>1. /\ queue' = queue /\ todo' = todo /\ nextId' = nextId /\ job' = job
        /\ \E label \in {"idle", "start", "open", "schedule"} :
                pc' = [pc EXCEPT !["sched"] = label]
        /\ pc["sched"] \in {"check", "start"}
    BY <1>6 DEF CheckFile, StartScript, StartFails, StartRaises, Goto, memory
  <2> QED BY <1>t, <2>1
<1>7. CASE Tick \/ (\E i \in Ids : DeleteFile(i)) \/ UNCHANGED vars
  <2>1. UNCHANGED <<queue, todo, nextId, job, pc>>
    BY <1>7 DEF Tick, DeleteFile, vars, memory
  <2> QED BY <2>1
<1>8. CASE Crash
  <2>1. /\ queue' = {} /\ todo' = {} /\ nextId' = nextId /\ job' = job
        /\ pc' = [t \in Threads |-> "down"]
    BY <1>8 DEF Crash, memory
  <2> QED BY <1>t, <2>1
<1>9. CASE Restart
  <2>1. /\ queue' = {} /\ job' = job /\ nextId' \in Int
        /\ todo' \subseteq Ids /\ \A i \in todo' : i < nextId'
        /\ pc' = [t \in Threads |-> IF t = "main" THEN "restore" ELSE "idle"]
    BY <1>9, BoundsAssumption DEF Restart, Halves
  <2> QED BY <1>t, <2>1
<1> QED
  BY <1>t, <1>1, <1>2, <1>3, <1>4, <1>5, <1>6, <1>7, <1>8, <1>9
     DEF Next, MainStep, SchedStep, Outside

-----------------------------------------------------------------------------
(* Appending keeps a bound and keeps the order. *)
LEMMA AppendBefore ==
    ASSUME NEW q \in Seq(Int), NEW d \in Int, NEW t \in Int, d < t,
           \A n \in DOMAIN q : q[n] < t
    PROVE  \A n \in DOMAIN Append(q, d) : Append(q, d)[n] < t
<1> DEFINE r == Append(q, d)
<1>1. /\ r \in Seq(Int) /\ Len(r) = Len(q) + 1
      /\ \A n \in 1..Len(q) : r[n] = q[n]
      /\ r[Len(q) + 1] = d
  BY AppendProperties
<1>2. DOMAIN r = 1..Len(q) + 1 /\ DOMAIN q = 1..Len(q) /\ Len(q) \in Nat
  BY <1>1, LenProperties
<1> QED BY <1>1, <1>2

LEMMA AppendInOrder ==
    ASSUME NEW q \in Seq(Int), NEW d \in Int,
           \A m, n \in DOMAIN q : m < n => q[m] < q[n],
           \A n \in DOMAIN q : q[n] < d
    PROVE  \A m, n \in DOMAIN Append(q, d) : m < n => Append(q, d)[m] < Append(q, d)[n]
<1> DEFINE r == Append(q, d)
<1>1. /\ r \in Seq(Int) /\ Len(r) = Len(q) + 1
      /\ \A n \in 1..Len(q) : r[n] = q[n]
      /\ r[Len(q) + 1] = d
  BY AppendProperties
<1>2. DOMAIN r = 1..Len(q) + 1 /\ DOMAIN q = 1..Len(q) /\ Len(q) \in Nat
  BY <1>1, LenProperties
<1> QED BY <1>1, <1>2

(* A bound on the executions of a job can be raised. *)
LEMMA RunsBeforeLater ==
    ASSUME TypeOK, NEW i \in Ids, NEW t \in Int, NEW u \in Int, t <= u, RunsBefore(i, t)
    PROVE  RunsBefore(i, u)
<1>1. \A n \in DOMAIN runs[i] : runs[i][n] \in Int
  BY DEF TypeOK
<1> QED BY <1>1 DEF RunsBefore

LEMMA RunsStep ==
    ASSUME IInv, [Next]_vars
    PROVE  RunsPlaced' /\ RunsInOrder'
<1> USE DEF RunsPlaced, RunsInOrder
<1>t. /\ "main" \in Threads /\ "sched" \in Threads /\ "main" # "sched"
      /\ pc \in [Threads -> {"idle", "check", "start", "open", "write", "schedule",
                             "restore", "down"}]
      /\ job \in [Threads -> Ids] /\ todo \subseteq Ids
      /\ \A e \in queue : e.id \in Ids /\ e.due \in Int
      /\ clock \in Int /\ due \in Int
      /\ Threads = {"main", "sched"}
  <2>1. clock \in Int BY BoundsAssumption DEF IInv, TypeOK, Clock
  <2>2. \A e \in queue : e.id \in Ids /\ e.due \in Int BY DEF IInv, TypeOK, Event
  <2> QED BY <2>1, <2>2 DEF IInv, Threads, TypeOK
<1>p. TypeOK /\ Halves /\ Fresh /\ QueuedOnce /\ RunsPlaced /\ RunsInOrder
  BY DEF IInv
<1>r. /\ runs \in [Ids -> Seq(Int)]
      /\ \A i \in Ids : \A n \in DOMAIN runs[i] : runs[i][n] \in Int
  BY <1>p DEF TypeOK
<1>1. ASSUME NEW s \in Schedules, CreateJob(s) PROVE RunsPlaced' /\ RunsInOrder'
  <2>1. nextId \in Ids /\ ~InUse(nextId)
    <3>1. nextId \in Ids BY <1>1, <1>p, BoundsAssumption DEF CreateJob, Ids, TypeOK
    <3>2. ~(nextId < nextId) BY <1>p, BoundsAssumption DEF TypeOK
    <3> QED BY <3>1, <3>2, <1>p DEF Fresh
  <2>2. /\ queue' = queue /\ todo' = todo /\ clock' = clock /\ due' = due
        /\ job' = [job EXCEPT !["main"] = nextId] /\ pc' = [pc EXCEPT !["main"] = "open"]
        /\ runs' = [runs EXCEPT ![nextId] = <<>>]
    BY <1>1 DEF CreateJob, Goto
  <2>3. /\ runs'[nextId] = <<>> /\ DOMAIN <<>> = {}
        /\ \A i \in Ids : i # nextId => runs'[i] = runs[i]
    BY <1>r, <2>1, <2>2
  <2>4. \A e \in queue : e.id # nextId BY <2>1 DEF InUse
  <2>5. nextId \notin todo BY <2>1 DEF InUse
  <2>6. pc["sched"] \notin {"idle", "restore", "down"} => job["sched"] # nextId
    BY <1>t, <2>1 DEF InUse, InHand
  <2>7. RunsInOrder' BY <1>p, <2>3
  <2>8. RunsPlaced' BY <1>t, <1>p, <2>1, <2>2, <2>3, <2>4, <2>5, <2>6 DEF RunsBefore
  <2> QED BY <2>7, <2>8
<1>2. ASSUME NEW t \in Threads, Save(t) PROVE RunsPlaced' /\ RunsInOrder'
  <2>1. /\ UNCHANGED <<queue, todo, clock, due, job, runs>>
        /\ \E label \in {"idle", "write", "schedule"} :
                pc' = [pc EXCEPT ![t] = label] /\ (label = "idle" => t = "main")
        /\ pc[t] \in {"open", "write"}
    BY <1>2 DEF Save, OpenFile, WriteFile, SaveFails, Goto
  <2> QED BY <1>t, <1>p, <2>1 DEF RunsBefore
<1>3. ASSUME NEW t \in Threads, ScheduleJob(t) PROVE RunsPlaced' /\ RunsInOrder'
  <2>1. /\ UNCHANGED <<todo, clock, due, job, runs>>
        /\ pc' = [pc EXCEPT ![t] = "idle"] /\ pc[t] = "schedule"
        /\ t = "sched" => clock > due
    BY <1>3 DEF ScheduleJob, Goto
  <2>2. RunsBefore(job[t], clock)
    <3>1. CASE t = "main"
      <4>1. runs[job[t]] = <<>> BY <1>p, <2>1, <3>1
      <4> QED BY <4>1 DEF RunsBefore
    <3>2. CASE t = "sched"
      <4>1. RunsBefore(job[t], due + 1) BY <1>p, <2>1, <3>2
      <4>2. job[t] \in Ids /\ due + 1 \in Int /\ due + 1 <= clock BY <1>t, <2>1, <3>2
      <4> QED BY <1>t, <1>p, <4>1, <4>2, RunsBeforeLater
    <3> QED BY <1>t, <3>1, <3>2
  <2>3. CASE queue' = queue BY <1>t, <1>p, <2>1, <2>3 DEF RunsBefore
  <2>4. ASSUME NEW d \in Int, d >= clock, queue' = queue \union {[id |-> job[t], due |-> d]}
        PROVE  RunsPlaced' /\ RunsInOrder'
    <3>1. RunsBefore(job[t], d) BY <1>t, <1>p, <2>2, <2>4, RunsBeforeLater
    <3>2. \A e \in queue' : RunsBefore(e.id, e.due) BY <1>p, <2>4, <3>1
    <3> QED BY <1>t, <1>p, <2>1, <3>2 DEF RunsBefore
  <2> QED BY <1>t, <1>p, <1>3, <2>3, <2>4, EnqueueAdds DEF ScheduleJob
<1>4. CASE RestoreJob
  <2>1. UNCHANGED <<clock, due, job, runs>> BY <1>4 DEF RestoreJob
  <2>2. CASE todo = {}
    <3>1. UNCHANGED <<queue, todo>> /\ pc' = [pc EXCEPT !["main"] = "idle"]
      BY <1>4, <2>2 DEF RestoreJob, Goto
    <3> QED BY <1>t, <1>p, <2>1, <3>1 DEF RunsBefore
  <2>3. CASE todo # {}
    <3>1. PICK i \in todo : Enqueue(i) /\ todo' = todo \ {i} BY <1>4, <2>3 DEF RestoreJob
    <3>2. pc' = pc BY <1>4, <2>3 DEF RestoreJob
    <3>3. CASE queue' = queue BY <1>t, <1>p, <2>1, <3>1, <3>2, <3>3 DEF RunsBefore
    <3>4. ASSUME NEW d \in Int, d >= clock, queue' = queue \union {[id |-> i, due |-> d]}
          PROVE  RunsPlaced' /\ RunsInOrder'
      <4>1. i \in Ids /\ RunsBefore(i, clock) BY <1>t, <1>p, <3>1
      <4>2. RunsBefore(i, d) BY <1>t, <1>p, <3>4, <4>1, RunsBeforeLater
      <4>3. \A e \in queue' : RunsBefore(e.id, e.due) BY <1>p, <3>4, <4>2
      <4> QED BY <1>t, <1>p, <2>1, <3>1, <3>2, <4>3 DEF RunsBefore
    <3> QED BY <1>t, <1>p, <3>1, <3>3, <3>4, EnqueueAdds
  <2> QED BY <2>2, <2>3
<1>5. CASE TakeDue
  <2>1. PICK e \in queue : /\ e.due <= clock
                           /\ queue' = queue \ {e}
                           /\ job' = [job EXCEPT !["sched"] = e.id]
                           /\ due' = e.due
    BY <1>5 DEF TakeDue
  <2>2. /\ UNCHANGED <<todo, clock, runs>> /\ pc' = [pc EXCEPT !["sched"] = "check"]
    BY <1>5 DEF TakeDue, Goto
  <2> QED BY <1>t, <1>p, <2>1, <2>2 DEF RunsBefore
<1>6. CASE CheckFile \/ StartFails
  <2>1. /\ UNCHANGED <<queue, todo, clock, due, job, runs>>
        /\ \/ pc["sched"] = "check" /\ pc' \in {[pc EXCEPT !["sched"] = "idle"],
                                                [pc EXCEPT !["sched"] = "start"]}
           \/ pc["sched"] = "start" /\ pc' = [pc EXCEPT !["sched"] = "schedule"]
    BY <1>6 DEF CheckFile, StartFails, Goto
  <2>2. pc["sched"] = "start" => RunsBefore(job["sched"], due + 1)
    BY <1>t, <1>p, RunsBeforeLater
  <2> QED BY <1>t, <1>p, <2>1, <2>2 DEF RunsBefore
<1>7. CASE StartScript \/ StartRaises
  <2> DEFINE i == job["sched"]
  <2>1. /\ UNCHANGED <<queue, todo, clock, due, job>>
        /\ runs' = [runs EXCEPT ![i] = Append(runs[i], due)]
        /\ pc["sched"] = "start"
        /\ pc' \in {[pc EXCEPT !["sched"] = "open"], [pc EXCEPT !["sched"] = "schedule"]}
    BY <1>7 DEF StartScript, StartRaises, Goto
  <2>2. i \in Ids /\ InHand("sched", i) BY <1>t, <2>1 DEF InHand
  <2>3. /\ runs'[i] = Append(runs[i], due) /\ runs[i] \in Seq(Int)
        /\ \A j \in Ids : j # i => runs'[j] = runs[j]
    BY <1>r, <2>1, <2>2
  <2>4. i \notin todo /\ (\A e \in queue : e.id # i) /\ ~InHand("main", i)
    BY <1>p, <2>2 DEF QueuedOnce
  <2>5. RunsBefore(i, due) /\ due <= clock BY <1>p, <2>1
  <2>6. \A n \in DOMAIN runs'[i] : runs'[i][n] < due + 1
    <3>1. \A n \in DOMAIN runs[i] : runs[i][n] < due + 1 BY <1>t, <1>r, <2>2, <2>5 DEF RunsBefore
    <3> QED BY <1>t, <2>3, <3>1, AppendBefore
  <2>7. \A n \in DOMAIN runs'[i] : runs'[i][n] < clock + 1
    <3>1. \A n \in DOMAIN runs[i] : runs[i][n] < clock + 1 BY <1>p, <2>2 DEF RunsBefore
    <3>2. due < clock + 1 BY <1>t, <2>5
    <3> QED BY <1>t, <2>3, <3>1, <3>2, AppendBefore
  <2>8. RunsInOrder'
    <3>1. \A m, n \in DOMAIN runs'[i] : m < n => runs'[i][m] < runs'[i][n]
      BY <1>t, <1>p, <2>2, <2>3, <2>5, AppendInOrder DEF RunsBefore
    <3> QED BY <1>p, <2>3, <3>1
  <2>9. RunsPlaced'
    <3>1. \A j \in Ids : RunsBefore(j, clock + 1)' BY <1>p, <2>1, <2>3, <2>7 DEF RunsBefore
    <3>2. \A j \in todo' : RunsBefore(j, clock)'
      BY <1>t, <1>p, <2>1, <2>3, <2>4 DEF RunsBefore
    <3>3. \A e \in queue' : \A n \in DOMAIN runs'[e.id] : runs'[e.id][n] < e.due
      BY <1>t, <1>p, <2>1, <2>3, <2>4 DEF RunsBefore
    <3>4. pc'["main"] \in {"open", "write", "schedule"} => runs'[job'["main"]] = <<>>
      BY <1>t, <1>p, <2>1, <2>3, <2>4 DEF InHand
    <3>5. RunsBefore(job["sched"], due + 1)' BY <2>1, <2>6 DEF RunsBefore
    <3>6. pc'["sched"] \notin {"check", "start"} /\ due' <= clock' BY <1>t, <2>1, <2>5
    <3> QED BY <3>1, <3>2, <3>3, <3>4, <3>5, <3>6 DEF RunsBefore
  <2> QED BY <2>8, <2>9
<1>8. CASE Tick
  <2>1. UNCHANGED <<queue, todo, due, job, runs, pc>> /\ clock' = clock + 1
    BY <1>8 DEF Tick
  <2>2. /\ \A i \in Ids : RunsBefore(i, clock + 1)'
        /\ \A i \in todo : RunsBefore(i, clock)'
    BY <1>t, <1>p, <1>r, <2>1 DEF RunsBefore
  <2> QED BY <1>t, <1>p, <2>1, <2>2 DEF RunsBefore
<1>9. CASE (\E i \in Ids : DeleteFile(i)) \/ UNCHANGED vars
  <2>1. UNCHANGED <<queue, todo, clock, due, job, runs, pc>>
    BY <1>9 DEF DeleteFile, vars
  <2> QED BY <1>p, <2>1 DEF RunsBefore
<1>10. CASE Crash
  <2>1. /\ UNCHANGED <<clock, due, job, runs>> /\ queue' = {} /\ todo' = {}
        /\ pc' = [t \in Threads |-> "down"]
    BY <1>10 DEF Crash
  <2> QED BY <1>t, <1>p, <2>1 DEF RunsBefore
<1>11. CASE Restart
  <2>1. /\ UNCHANGED <<due, job, runs>> /\ queue' = {} /\ todo' \subseteq Ids
        /\ clock' = clock + 1
        /\ pc' = [t \in Threads |-> IF t = "main" THEN "restore" ELSE "idle"]
    BY <1>11, <1>p DEF Restart, Halves
  <2>2. /\ \A i \in Ids : RunsBefore(i, clock + 1)'
        /\ \A i \in todo' : RunsBefore(i, clock)'
    BY <1>t, <1>p, <1>r, <2>1 DEF RunsBefore
  <2> QED BY <1>t, <1>p, <2>1, <2>2 DEF RunsBefore
<1> QED
  BY <1>t, <1>1, <1>2, <1>3, <1>4, <1>5, <1>6, <1>7, <1>8, <1>9, <1>10, <1>11
     DEF Next, MainStep, SchedStep, Outside

-----------------------------------------------------------------------------
LEMMA InvInit == Init => IInv
<1> SUFFICES ASSUME Init PROVE IInv
  OBVIOUS
<1>1. TypeOK BY TypeInit
<1>2. Halves BY DEF Init, Halves, Threads
<1>3. Fresh /\ QueuedOnce BY DEF Init, Fresh, QueuedOnce, InUse, InHand, Threads
<1>4. RunsPlaced /\ RunsInOrder
  <2>1. \A i \in Ids : DOMAIN runs[i] = {} BY DEF Init
  <2> QED BY <2>1 DEF Init, RunsPlaced, RunsInOrder, RunsBefore, Threads
<1> QED BY <1>1, <1>2, <1>3, <1>4 DEF IInv

(* The inductive invariant of the service. *)
THEOREM InductiveInvariant == Spec => []IInv
<1>1. IInv /\ [Next]_vars => IInv'
  <2> SUFFICES ASSUME IInv, [Next]_vars PROVE IInv'
    OBVIOUS
  <2>1. TypeOK' BY TypeStep DEF IInv
  <2>2. Halves' BY HalvesStep DEF IInv
  <2>3. Fresh' /\ QueuedOnce' BY FlightStep DEF IInv
  <2>4. RunsPlaced' /\ RunsInOrder' BY RunsStep
  <2> QED BY <2>1, <2>2, <2>3, <2>4 DEF IInv
<1> QED BY InvInit, <1>1, PTL DEF Spec

(* The types of ScheduleService, for every calendar and every bound. *)
THEOREM ServiceTypeCorrect == Spec => []TypeOK
<1>1. IInv => TypeOK BY DEF IInv
<1> QED BY InductiveInvariant, <1>1, PTL

(* A job is in flight once at the most, in schedule_job, the queue and     *)
(* _execute_job together, through failures, deletions and restarts.        *)
THEOREM JobsAreQueuedOnce == Spec => []QueuedOnce
<1>1. IInv => QueuedOnce BY DEF IInv
<1> QED BY InductiveInvariant, <1>1, PTL

(* Both of them together: every job is in its place, and in one only.      *)
THEOREM JobsStayInPlace == Spec => []JobsInPlace
BY ServiceTypeCorrect, JobsAreQueuedOnce, PTL DEF JobsInPlace

(* _execute_job never starts the script of a job twice for one occurrence, *)
(* nor an earlier one after a later one, whatever the calendar says, as    *)
(* long as it does not answer with the past.                               *)
THEOREM NoOccurrenceTwice == Spec => []RunsInOrder
<1>1. IInv => RunsInOrder BY DEF IInv
<1> QED BY InductiveInvariant, <1>1, PTL

-----------------------------------------------------------------------------
(* Where the series of a job stands, in memory and in its file.            *)

(* An id that may be given out belongs to no file that can be parsed, and  *)
(* the file of a new job is not complete before it is written.             *)
Filed ==
    /\ \A i \in Ids : file[i] = "whole" => i < nextId
    /\ pc["main"] \in {"open", "write"} => file[job["main"]] # "whole"

(* An event is within the end of its schedule.                             *)
WithinEnd(i, d) ==
    /\ config[i].end = "max_executions" => count[i] < config[i].arg
    /\ config[i].end = "end_datetime" => d <= config[i].arg

Bounded ==
    /\ \A e \in queue : WithinEnd(e.id, e.due)
    /\ pc["sched"] \in {"check", "start"} => WithinEnd(job["sched"], due)

(* The executions that are not counted are as many as the faults; one more *)
(* is missing in the file until the count is saved.                        *)
Unsaved(i) == job["sched"] = i /\ pc["sched"] \in {"open", "write"}

Counted ==
    \A i \in Ids : config[i].repeatable =>
        /\ Len(runs[i]) <= count[i] + faults
        /\ file[i] = "whole" => Len(runs[i]) <= saved[i] + faults + (IF Unsaved(i) THEN 1 ELSE 0)

SInv == Filed /\ Bounded /\ Counted /\ EndRespected /\ NotForgotten

LEMMA FiledStep ==
    ASSUME IInv, Filed, [Next]_vars
    PROVE  Filed'
<1> USE DEF Filed
<1>t. /\ "main" \in Threads /\ "sched" \in Threads /\ "main" # "sched" /\ Threads = {"main", "sched"}
      /\ pc \in [Threads -> {"idle", "check", "start", "open", "write", "schedule",
                             "restore", "down"}]
      /\ job \in [Threads -> Ids] /\ file \in [Ids -> {"absent", "broken", "whole"}]
      /\ nextId \in Int /\ Ids \subseteq Int
  BY BoundsAssumption DEF IInv, TypeOK, Threads, Ids
<1>f. TypeOK /\ Halves /\ Fresh /\ QueuedOnce
  BY DEF IInv
<1>1. ASSUME NEW s \in Schedules, CreateJob(s) PROVE Filed'
  <2>1. /\ nextId' = nextId + 1 /\ file' = file /\ nextId \in Ids
        /\ job' = [job EXCEPT !["main"] = nextId] /\ pc' = [pc EXCEPT !["main"] = "open"]
    BY <1>1, <1>t, BoundsAssumption DEF CreateJob, Goto, disk, Ids, IInv, TypeOK
  <2>2. file[nextId] # "whole" BY <1>t, <2>1
  <2> QED BY <1>t, <2>1, <2>2
<1>2. ASSUME NEW t \in Threads, OpenFile(t) \/ SaveFails(t) PROVE Filed'
  <2>1. /\ nextId' = nextId /\ job' = job /\ pc[t] \in {"open", "write"}
        /\ file' \in {file, [file EXCEPT ![job[t]] = "broken"]}
        /\ \E label \in {"idle", "write", "schedule"} : pc' = [pc EXCEPT ![t] = label]
    BY <1>2 DEF OpenFile, SaveFails, Goto, memory, disk
  <2>2. job[t] \in Ids BY <1>t
  <2>3. \A i \in Ids : file'[i] = "whole" => file[i] = "whole" BY <1>t, <2>1, <2>2
  <2> QED BY <1>t, <2>1, <2>2, <2>3
<1>3. ASSUME NEW t \in Threads, WriteFile(t) PROVE Filed'
  <2>1. /\ nextId' = nextId /\ job' = job /\ pc[t] = "write" /\ pc' = [pc EXCEPT ![t] = "schedule"]
        /\ file' \in {file, [file EXCEPT ![job[t]] = "whole"]}
    BY <1>3 DEF WriteFile, Goto, memory, disk
  <2>2. job[t] \in Ids /\ InHand(t, job[t]) BY <1>t, <2>1 DEF InHand
  <2>3. job[t] < nextId BY <1>f, <2>2 DEF Fresh, InUse
  <2>4. t = "sched" /\ pc["main"] \in {"open", "write"} => job["main"] # job["sched"]
    BY <1>f, <1>t, <2>1 DEF QueuedOnce, InHand
  <2> QED BY <1>t, <2>1, <2>2, <2>3, <2>4
<1>4. ASSUME NEW t \in Threads, ScheduleJob(t) PROVE Filed'
  BY <1>4, <1>t DEF ScheduleJob, Goto, memory, disk
<1>5. CASE RestoreJob
  <2>1. UNCHANGED <<nextId, file, job>> /\ pc'["main"] \in {"idle", "restore"}
    BY <1>5, <1>t DEF RestoreJob, Goto, memory, disk
  <2> QED BY <2>1
<1>6. CASE TakeDue
  <2>1. /\ nextId' = nextId /\ file' = file
        /\ \E i : job' = [job EXCEPT !["sched"] = i]
        /\ pc' = [pc EXCEPT !["sched"] = "check"]
    BY <1>6 DEF TakeDue, Goto, memory, disk
  <2> QED BY <1>t, <2>1
<1>7. CASE CheckFile \/ StartScript \/ StartFails \/ StartRaises
  <2>1. /\ nextId' = nextId /\ file' = file /\ job' = job
        /\ \E label : pc' = [pc EXCEPT !["sched"] = label]
    BY <1>7 DEF CheckFile, StartScript, StartFails, StartRaises, Goto, memory, disk
  <2> QED BY <1>t, <2>1
<1>8. CASE Tick \/ UNCHANGED vars
  BY <1>8 DEF Tick, vars, memory, disk
<1>9. ASSUME NEW i \in Ids, DeleteFile(i) PROVE Filed'
  BY <1>9, <1>t DEF DeleteFile, memory
<1>10. CASE Crash
  BY <1>10, <1>t DEF Crash, memory, disk
<1>11. CASE Restart
  <2>1. /\ file' = file /\ pc'["main"] = "restore"
        /\ \A i \in Ids : file[i] = "whole" => i < nextId'
    BY <1>11, <1>t DEF Restart, disk
  <2> QED BY <2>1
<1> QED
  BY <1>t, <1>1, <1>2, <1>3, <1>4, <1>5, <1>6, <1>7, <1>8, <1>9, <1>10, <1>11
     DEF Next, MainStep, SchedStep, Outside, Save

(* A job is scheduled within its end, and at most once.                    *)
LEMMA EnqueueWithin ==
    ASSUME TypeOK, NEW i \in Ids, Enqueue(i)
    PROVE  \/ queue' = queue
           \/ \E d \in Int : queue' = queue \union {[id |-> i, due |-> d]} /\ WithinEnd(i, d)
<1>1. CASE HasNext(i, count[i])
  <2>1. config[i] \in Schedules /\ clock \in Clock
    BY DEF TypeOK
  <2>2. NextDue(config[i], clock) \in Int BY <2>1, NextDueAssumption
  <2> QED BY <1>1, <2>2 DEF Enqueue, HasNext, WithinEnd
<1>2. CASE ~HasNext(i, count[i])
  BY <1>2 DEF Enqueue
<1> QED BY <1>1, <1>2

LEMMA BoundedStep ==
    ASSUME IInv, Bounded, [Next]_vars
    PROVE  Bounded'
<1> USE DEF Bounded
<1>t. /\ "main" \in Threads /\ "sched" \in Threads /\ "main" # "sched" /\ Threads = {"main", "sched"}
      /\ pc \in [Threads -> {"idle", "check", "start", "open", "write", "schedule",
                             "restore", "down"}]
      /\ job \in [Threads -> Ids] /\ file \in [Ids -> {"absent", "broken", "whole"}]
      /\ nextId \in Int /\ Ids \subseteq Int
  BY BoundsAssumption DEF IInv, TypeOK, Threads, Ids
<1>f. TypeOK /\ Halves /\ Fresh /\ QueuedOnce
  BY DEF IInv
<1>q. \A e \in queue : e.id \in Ids BY <1>f DEF TypeOK, Event
<1>s. ASSUME UNCHANGED <<config, count, queue, job, due>>,
             pc'["sched"] \in {"check", "start"} => pc["sched"] \in {"check", "start"}
      PROVE  Bounded'
  BY <1>s DEF WithinEnd
<1>1. ASSUME NEW s \in Schedules, CreateJob(s) PROVE Bounded'
  <2>1. /\ queue' = queue /\ due' = due /\ nextId \in Ids
        /\ job' = [job EXCEPT !["main"] = nextId] /\ pc' = [pc EXCEPT !["main"] = "open"]
        /\ \A i \in Ids : i # nextId => config'[i] = config[i] /\ count'[i] = count[i]
    BY <1>1, <1>f, <1>t, BoundsAssumption DEF CreateJob, Goto, Ids, TypeOK
  <2>2. ~InUse(nextId) BY <1>f, <1>t, <2>1 DEF Fresh
  <2>3. \A e \in queue : e.id # nextId BY <2>2 DEF InUse
  <2>4. pc["sched"] \in {"check", "start"} => job["sched"] # nextId
    BY <1>t, <2>2 DEF InUse, InHand
  <2> QED BY <1>q, <1>t, <2>1, <2>3, <2>4 DEF WithinEnd
<1>2. ASSUME NEW t \in Threads, Save(t) PROVE Bounded'
  <2>1. \E label \in {"idle", "write", "schedule"} : pc' = [pc EXCEPT ![t] = label]
    BY <1>2 DEF Save, OpenFile, WriteFile, SaveFails, Goto
  <2> QED BY <1>2, <1>s, <1>t, <2>1 DEF Save, OpenFile, WriteFile, SaveFails, memory
<1>3. ASSUME NEW t \in Threads, ScheduleJob(t) PROVE Bounded'
  <2>1. job[t] \in Ids /\ UNCHANGED <<config, count, job, due>> /\ pc' = [pc EXCEPT ![t] = "idle"]
    BY <1>3, <1>t DEF ScheduleJob, Goto, memory
  <2>2. \/ queue' = queue
        \/ \E d \in Int : queue' = queue \union {[id |-> job[t], due |-> d]} /\ WithinEnd(job[t], d)
    BY <1>3, <1>f, <2>1, EnqueueWithin DEF ScheduleJob
  <2> QED BY <1>t, <2>1, <2>2 DEF WithinEnd
<1>4. CASE RestoreJob
  <2>1. UNCHANGED <<config, count, job, due>> /\ pc'["sched"] = pc["sched"]
    BY <1>4, <1>t DEF RestoreJob, Goto, memory
  <2>2. CASE todo = {} BY <1>4, <2>1, <2>2 DEF RestoreJob, WithinEnd
  <2>3. CASE todo # {}
    <3>1. PICK i \in todo : Enqueue(i) BY <1>4, <2>3 DEF RestoreJob
    <3>2. i \in Ids BY <1>f, <3>1 DEF TypeOK
    <3>3. \/ queue' = queue
          \/ \E d \in Int : queue' = queue \union {[id |-> i, due |-> d]} /\ WithinEnd(i, d)
      BY <1>f, <3>1, <3>2, EnqueueWithin
    <3> QED BY <2>1, <3>3 DEF WithinEnd
  <2> QED BY <2>2, <2>3
<1>5. CASE TakeDue
  <2>1. PICK e \in queue : /\ queue' = queue \ {e}
                           /\ job' = [job EXCEPT !["sched"] = e.id]
                           /\ due' = e.due
    BY <1>5 DEF TakeDue
  <2>2. UNCHANGED <<config, count>> BY <1>5 DEF TakeDue, memory
  <2> QED BY <1>t, <2>1, <2>2 DEF WithinEnd
<1>6. CASE CheckFile \/ StartFails \/ StartRaises
  <2>1. /\ UNCHANGED <<config, count, queue, job, due>>
        /\ pc["sched"] \in {"check", "start"}
    BY <1>6 DEF CheckFile, StartFails, StartRaises, memory
  <2> QED BY <1>s, <2>1
<1>7. CASE StartScript
  <2>1. /\ UNCHANGED <<config, queue, job, due>> /\ pc["sched"] = "start"
        /\ pc'["sched"] \in {"open", "schedule"}
        /\ \A i \in Ids : i # job["sched"] => count'[i] = count[i]
    BY <1>7, <1>f, <1>t DEF StartScript, Goto, TypeOK
  <2>2. \A e \in queue : e.id # job["sched"]
    BY <1>f, <1>t, <2>1 DEF QueuedOnce, InHand
  <2> QED BY <1>q, <2>1, <2>2 DEF WithinEnd
<1>8. CASE Tick \/ (\E i \in Ids : DeleteFile(i)) \/ UNCHANGED vars
  BY <1>8, <1>s DEF Tick, DeleteFile, vars, memory
<1>9. CASE Crash
  BY <1>9, <1>t DEF Crash
<1>10. CASE Restart
  <2>1. queue' = {} /\ pc'["sched"] = "idle" BY <1>10, <1>f, <1>t DEF Restart, Halves
  <2> QED BY <2>1
<1> QED
  BY <1>t, <1>1, <1>2, <1>3, <1>4, <1>5, <1>6, <1>7, <1>8, <1>9, <1>10
     DEF Next, MainStep, SchedStep, Outside

LEMMA CountedStep ==
    ASSUME IInv, Counted, [Next]_vars
    PROVE  Counted'
<1> USE DEF Counted
<1>t. /\ "main" \in Threads /\ "sched" \in Threads /\ "main" # "sched" /\ Threads = {"main", "sched"}
      /\ pc \in [Threads -> {"idle", "check", "start", "open", "write", "schedule",
                             "restore", "down"}]
      /\ job \in [Threads -> Ids] /\ file \in [Ids -> {"absent", "broken", "whole"}]
      /\ nextId \in Int /\ Ids \subseteq Int
      /\ count \in [Ids -> Nat] /\ saved \in [Ids -> Nat] /\ faults \in Nat
      /\ runs \in [Ids -> Seq(Int)]
  BY BoundsAssumption DEF IInv, TypeOK, Threads, Ids
<1>f. TypeOK /\ Halves /\ Fresh /\ QueuedOnce /\ RunsPlaced
  BY DEF IInv
<1>l. \A i \in Ids : Len(runs[i]) \in Nat
  BY <1>t, LenProperties
<1>s. ASSUME UNCHANGED <<config, runs, count, saved>>, faults' \in {faults, faults + 1},
             \A i \in Ids : file'[i] = "whole" => file[i] = "whole",
             \A i \in Ids : Unsaved(i) => Unsaved(i)' \/ faults' = faults + 1 \/ file'[i] # "whole"
      PROVE  Counted'
  <2> SUFFICES ASSUME NEW i \in Ids, config[i].repeatable
               PROVE  /\ Len(runs[i]) <= count[i] + faults'
                      /\ file'[i] = "whole" =>
                            Len(runs[i]) <= saved[i] + faults' + (IF Unsaved(i)' THEN 1 ELSE 0)
    BY <1>s
  <2>1. Len(runs[i]) \in Nat /\ count[i] \in Nat /\ saved[i] \in Nat BY <1>l, <1>t
  <2>2. /\ Len(runs[i]) <= count[i] + faults
        /\ file[i] = "whole" => Len(runs[i]) <= saved[i] + faults + (IF Unsaved(i) THEN 1 ELSE 0)
    OBVIOUS
  <2> QED BY <1>s, <1>t, <2>1, <2>2
<1>1. ASSUME NEW s \in Schedules, CreateJob(s) PROVE Counted'
  <2>1. /\ nextId \in Ids /\ UNCHANGED <<file, saved, faults>>
        /\ runs' = [runs EXCEPT ![nextId] = <<>>] /\ count' = [count EXCEPT ![nextId] = 0]
        /\ \A i \in Ids : i # nextId => config'[i] = config[i]
        /\ job'["sched"] = job["sched"] /\ pc'["sched"] = pc["sched"]
    BY <1>1, <1>f, <1>t, BoundsAssumption DEF CreateJob, Goto, Ids, TypeOK, disk
  <2>2. \A i \in Ids : i # nextId => runs'[i] = runs[i] /\ count'[i] = count[i]
    BY <1>t, <2>1
  <2>3. runs'[nextId] = <<>> /\ count'[nextId] = 0 /\ Len(<<>>) = 0 BY <1>t, <2>1
  <2>4. saved[nextId] \in Nat BY <1>t, <2>1
  <2>5. ASSUME NEW i \in Ids, config'[i].repeatable
        PROVE  /\ Len(runs'[i]) <= count'[i] + faults
               /\ file[i] = "whole" => Len(runs'[i]) <= saved[i] + faults + (IF Unsaved(i) THEN 1 ELSE 0)
    <3>1. CASE i # nextId BY <2>1, <2>2, <2>5, <3>1
    <3>2. CASE i = nextId BY <1>t, <2>3, <2>4, <3>2
    <3> QED BY <3>1, <3>2
  <2>6. \A i \in Ids : Unsaved(i)' <=> Unsaved(i) BY <2>1 DEF Unsaved
  <2> QED BY <2>1, <2>5, <2>6
<1>2. ASSUME NEW t \in Threads, OpenFile(t) PROVE Counted'
  <2>1. /\ UNCHANGED <<config, runs, count, saved, faults, job>> /\ job[t] \in Ids /\ pc[t] = "open"
        /\ file' = [file EXCEPT ![job[t]] = "broken"] /\ pc' = [pc EXCEPT ![t] = "write"]
    BY <1>2, <1>t DEF OpenFile, Goto, memory
  <2>2. \A i \in Ids : (file'[i] = "whole" => file[i] = "whole") /\ (Unsaved(i) => Unsaved(i)')
    BY <1>t, <2>1 DEF Unsaved
  <2> QED BY <1>s, <2>1, <2>2
<1>3. ASSUME NEW t \in Threads, WriteFile(t) PROVE Counted'
  <2>1. /\ UNCHANGED <<config, runs, count, faults, job>> /\ job[t] \in Ids /\ pc[t] = "write"
        /\ pc' = [pc EXCEPT ![t] = "schedule"]
    BY <1>3, <1>t DEF WriteFile, Goto, memory
  <2>2. \A i \in Ids : Unsaved(i) => Unsaved(i)' \/ i = job[t]
    BY <1>t, <2>1 DEF Unsaved
  <2>3. CASE file[job[t]] = "absent"
    <3>1. UNCHANGED <<file, saved>> BY <1>3, <2>3 DEF WriteFile, disk
    <3> QED BY <1>s, <2>1, <2>2, <2>3, <3>1
  <2>4. CASE file[job[t]] # "absent"
    <3>1. /\ file' = [file EXCEPT ![job[t]] = "whole"]
          /\ saved' = [saved EXCEPT ![job[t]] = count[job[t]]]
      BY <1>3, <2>4 DEF WriteFile
    <3>2. \A i \in Ids : i # job[t] => file'[i] = file[i] /\ saved'[i] = saved[i] /\ (Unsaved(i) => Unsaved(i)')
      BY <1>t, <2>1, <2>2, <3>1
    <3>3. \A i \in Ids : i # job[t] => (Unsaved(i)' => Unsaved(i))
      BY <1>t, <2>1 DEF Unsaved
    <3>4. saved'[job[t]] = count[job[t]] /\ count[job[t]] \in Nat /\ Len(runs[job[t]]) \in Nat
      BY <1>t, <1>l, <2>1, <3>1
    <3>5. ASSUME NEW i \in Ids, config[i].repeatable
          PROVE  /\ Len(runs[i]) <= count[i] + faults
                 /\ file'[i] = "whole" =>
                       Len(runs[i]) <= saved'[i] + faults + (IF Unsaved(i)' THEN 1 ELSE 0)
      <4>1. CASE i # job[t] BY <2>1, <3>2, <3>3, <3>5, <4>1
      <4>2. CASE i = job[t] BY <1>t, <2>1, <3>4, <3>5, <4>2
      <4> QED BY <4>1, <4>2
    <3> QED BY <2>1, <3>5
  <2> QED BY <2>3, <2>4
<1>4. ASSUME NEW t \in Threads, SaveFails(t) PROVE Counted'
  BY <1>4, <1>s DEF SaveFails, memory, disk
<1>5. ASSUME NEW t \in Threads, ScheduleJob(t) PROVE Counted'
  <2>1. /\ UNCHANGED <<config, runs, count, saved, faults, file, job>> /\ pc[t] = "schedule"
        /\ pc' = [pc EXCEPT ![t] = "idle"]
    BY <1>5 DEF ScheduleJob, Goto, memory, disk
  <2>2. \A i \in Ids : Unsaved(i) => Unsaved(i)' BY <1>t, <2>1 DEF Unsaved
  <2> QED BY <1>s, <2>1, <2>2
<1>6. CASE RestoreJob
  <2>1. /\ UNCHANGED <<config, runs, count, saved, faults, file, job>> /\ pc'["sched"] = pc["sched"]
    BY <1>6, <1>t DEF RestoreJob, Goto, memory, disk
  <2>2. \A i \in Ids : Unsaved(i) => Unsaved(i)' BY <2>1 DEF Unsaved
  <2> QED BY <1>s, <2>1, <2>2
<1>7. CASE TakeDue \/ CheckFile \/ StartFails
  <2>1. /\ UNCHANGED <<config, runs, count, saved, faults, file>>
        /\ pc["sched"] \in {"idle", "check", "start"}
    BY <1>7 DEF TakeDue, CheckFile, StartFails, memory, disk
  <2>2. \A i \in Ids : ~Unsaved(i) BY <2>1 DEF Unsaved
  <2> QED BY <1>s, <2>1, <2>2
<1>8. CASE StartScript
  <2>0. PICK i \in Ids : i = job["sched"] BY <1>t
  <2>1. /\ UNCHANGED <<config, saved, faults, file, job>> /\ pc["sched"] = "start"
        /\ runs' = [runs EXCEPT ![i] = Append(runs[i], due)]
    BY <1>8, <1>t, <2>0 DEF StartScript, disk
  <2>2. \A j \in Ids : j # i => runs'[j] = runs[j] /\ count'[j] = count[j] /\ ~Unsaved(j) /\ ~Unsaved(j)'
    BY <1>8, <1>t, <2>0, <2>1 DEF StartScript, Unsaved
  <2>3. runs'[i] = Append(runs[i], due) /\ runs[i] \in Seq(Int) /\ due \in Int
    BY <1>f, <1>t, <2>1 DEF TypeOK
  <2>4. Len(runs'[i]) = Len(runs[i]) + 1 BY <2>3, AppendProperties
  <2>5. config[i].repeatable => count'[i] = count[i] + 1 /\ Unsaved(i)' /\ ~Unsaved(i)
    BY <1>8, <1>t, <2>0, <2>1 DEF StartScript, Goto, Unsaved
  <2>6. Len(runs[i]) \in Nat /\ count[i] \in Nat /\ saved[i] \in Nat BY <1>l, <1>t, <2>1
  <2>7. ASSUME NEW j \in Ids, config'[j].repeatable
        PROVE  /\ Len(runs'[j]) <= count'[j] + faults'
               /\ file'[j] = "whole" =>
                     Len(runs'[j]) <= saved'[j] + faults' + (IF Unsaved(j)' THEN 1 ELSE 0)
    <3>1. CASE j # i BY <1>t, <2>1, <2>2, <2>7, <3>1
    <3>2. CASE j = i
      <4>1. config[i].repeatable /\ faults' = faults /\ file' = file /\ saved' = saved
        BY <2>1, <2>7, <3>2
      <4>2. /\ Len(runs[i]) <= count[i] + faults
            /\ file[i] = "whole" => Len(runs[i]) <= saved[i] + faults
        BY <1>t, <2>1, <2>5, <2>6, <4>1
      <4>3. Len(runs'[i]) <= count'[i] + faults
        BY <1>t, <2>4, <2>5, <2>6, <4>1, <4>2
      <4>4. file[i] = "whole" => Len(runs'[i]) <= saved[i] + faults + 1
        BY <1>t, <2>4, <2>6, <4>2
      <4>5. Unsaved(i)' BY <2>5, <4>1
      <4> QED BY <3>2, <4>1, <4>3, <4>4, <4>5
    <3> QED BY <3>1, <3>2
  <2> QED BY <2>7
<1>13. CASE StartRaises
  <2>0. PICK i \in Ids : i = job["sched"] BY <1>t
  <2>1. /\ UNCHANGED <<config, saved, count, file, job>> /\ pc["sched"] = "start"
        /\ runs' = [runs EXCEPT ![i] = Append(runs[i], due)] /\ faults' = faults + 1
    BY <1>13, <2>0 DEF StartRaises, memory, disk
  <2>2. \A j \in Ids : j # i => runs'[j] = runs[j] BY <1>t, <2>1
  <2>3. runs'[i] = Append(runs[i], due) /\ runs[i] \in Seq(Int) /\ due \in Int
    BY <1>f, <1>t, <2>1 DEF TypeOK
  <2>4. Len(runs'[i]) = Len(runs[i]) + 1 BY <2>3, AppendProperties
  <2>5. \A j \in Ids : ~Unsaved(j) BY <2>1 DEF Unsaved
  <2>6. ASSUME NEW j \in Ids, config[j].repeatable
        PROVE  /\ Len(runs'[j]) <= count[j] + faults'
               /\ file[j] = "whole" => Len(runs'[j]) <= saved[j] + faults'
    <3>1. Len(runs[j]) \in Nat /\ count[j] \in Nat /\ saved[j] \in Nat BY <1>l, <1>t
    <3>2. Len(runs'[j]) \in {Len(runs[j]), Len(runs[j]) + 1} BY <2>2, <2>4
    <3>3. /\ Len(runs[j]) <= count[j] + faults
          /\ file[j] = "whole" => Len(runs[j]) <= saved[j] + faults
      BY <2>5, <2>6, <1>t, <3>1
    <3> QED BY <1>t, <2>1, <3>1, <3>2, <3>3
  <2>7. \A j \in Ids : Len(runs'[j]) \in Nat /\ saved[j] \in Nat
    <3>1. \A j \in Ids : Len(runs'[j]) \in {Len(runs[j]), Len(runs[j]) + 1} BY <2>2, <2>4
    <3> QED BY <1>l, <1>t, <3>1
  <2>8. faults' \in Nat BY <1>t, <2>1
  <2>9. ASSUME NEW j \in Ids, config'[j].repeatable
        PROVE  /\ Len(runs'[j]) <= count'[j] + faults'
               /\ file'[j] = "whole" =>
                     Len(runs'[j]) <= saved'[j] + faults' + (IF Unsaved(j)' THEN 1 ELSE 0)
    <3>1. /\ Len(runs'[j]) <= count[j] + faults'
          /\ file[j] = "whole" => Len(runs'[j]) <= saved[j] + faults'
      BY <2>1, <2>6, <2>9
    <3> QED BY <2>1, <2>7, <2>8, <3>1
  <2> QED BY <2>9
<1>9. CASE Tick \/ UNCHANGED vars
  <2>1. UNCHANGED <<config, runs, count, saved, faults, file, job, pc>>
    BY <1>9 DEF Tick, vars, memory, disk
  <2> QED BY <1>s, <2>1 DEF Unsaved
<1>10. ASSUME NEW i \in Ids, DeleteFile(i) PROVE Counted'
  <2>1. UNCHANGED <<config, runs, count, saved, faults, job, pc>> /\ file' = [file EXCEPT ![i] = "absent"]
    BY <1>10 DEF DeleteFile, memory
  <2>2. \A j \in Ids : file'[j] = "whole" => file[j] = "whole" BY <1>t, <2>1
  <2> QED BY <1>s, <2>1, <2>2 DEF Unsaved
<1>11. CASE Crash
  BY <1>11, <1>s DEF Crash, memory, disk
<1>12. CASE Restart
  <2>1. /\ UNCHANGED <<config, runs, saved, faults, file, job>> /\ pc["sched"] = "down"
        /\ pc'["sched"] = "idle"
        /\ \A i \in Ids : count'[i] = IF file[i] = "whole" THEN saved[i] ELSE count[i]
    BY <1>12, <1>f, <1>t DEF Restart, Halves, disk
  <2>2. \A i \in Ids : ~Unsaved(i) /\ ~Unsaved(i)' BY <2>1 DEF Unsaved
  <2>3. ASSUME NEW i \in Ids, config[i].repeatable
        PROVE  /\ Len(runs[i]) <= count'[i] + faults
               /\ file[i] = "whole" => Len(runs[i]) <= saved[i] + faults
    <3>1. Len(runs[i]) \in Nat /\ count[i] \in Nat /\ saved[i] \in Nat BY <1>l, <1>t
    <3> QED BY <1>t, <2>1, <2>2, <2>3, <3>1
  <2>4. \A i \in Ids : saved[i] \in Nat BY <1>t
  <2> QED BY <1>t, <2>1, <2>2, <2>3, <2>4
<1> QED
  BY <1>t, <1>1, <1>2, <1>3, <1>4, <1>5, <1>6, <1>7, <1>8, <1>9, <1>10, <1>11, <1>12, <1>13
     DEF Next, MainStep, SchedStep, Outside, Save

(* An execution more is within the end, as its event was.                  *)
LEMMA EndStep ==
    ASSUME IInv, Bounded, Counted, EndRespected, [Next]_vars
    PROVE  EndRespected'
<1> USE DEF EndRespected
<1>t. /\ "main" \in Threads /\ "sched" \in Threads /\ "main" # "sched" /\ Threads = {"main", "sched"}
      /\ pc \in [Threads -> {"idle", "check", "start", "open", "write", "schedule",
                             "restore", "down"}]
      /\ job \in [Threads -> Ids] /\ file \in [Ids -> {"absent", "broken", "whole"}]
      /\ config \in [Ids -> Schedules] /\ count \in [Ids -> Nat] /\ faults \in Nat
      /\ runs \in [Ids -> Seq(Int)]
  BY BoundsAssumption DEF IInv, TypeOK, Threads
<1>f. TypeOK /\ Halves /\ Fresh /\ QueuedOnce /\ RunsPlaced
  BY DEF IInv
<1>a. \A i \in Ids : config[i].arg \in Int BY <1>t, SchedulesAssumption
<1>s. ASSUME UNCHANGED <<config, runs>>, faults' \in {faults, faults + 1} PROVE EndRespected'
  <2>1. ASSUME NEW i \in Ids, config[i].end = "max_executions", config[i].repeatable, NEW n \in DOMAIN runs[i]
        PROVE  n <= config[i].arg + faults'
    <3>1. n \in Int
      <4>1. runs[i] \in Seq(Int) BY <1>t
      <4>2. DOMAIN runs[i] = 1..Len(runs[i]) /\ Len(runs[i]) \in Nat BY <4>1, LenProperties
      <4> QED BY <2>1, <4>2
    <3>2. n <= config[i].arg + faults BY <2>1
    <3>3. config[i].arg \in Int /\ faults \in Nat /\ faults' \in Nat /\ faults <= faults'
      BY <1>s, <1>t, <1>a
    <3> QED BY ONLY <3>1, <3>2, <3>3
  <2> QED BY <1>s, <2>1
<1>1. ASSUME NEW s \in Schedules, CreateJob(s) PROVE EndRespected'
  <2>1. /\ nextId \in Ids /\ faults' = faults
        /\ runs' = [runs EXCEPT ![nextId] = <<>>]
        /\ \A i \in Ids : i # nextId => config'[i] = config[i]
    BY <1>1, <1>f, <1>t, BoundsAssumption DEF CreateJob, Ids, TypeOK
  <2>2. \A i \in Ids : i # nextId => runs'[i] = runs[i]
    BY <1>t, <2>1
  <2>3. DOMAIN runs'[nextId] = {} BY <1>t, <2>1
  <2> QED BY <2>1, <2>2, <2>3
<1>2. CASE StartScript \/ StartRaises
  <2>0. PICK i \in Ids : i = job["sched"] BY <1>t
  <2>1. /\ config' = config /\ pc["sched"] = "start" /\ due \in Int
        /\ runs' = [runs EXCEPT ![i] = Append(runs[i], due)]
    BY <1>2, <1>f, <2>0 DEF StartScript, StartRaises, TypeOK, memory
  <2>2. \A j \in Ids : j # i => runs'[j] = runs[j] BY <1>t, <2>1
  <2>3. runs[i] \in Seq(Int) /\ runs'[i] = Append(runs[i], due) BY <1>t, <2>1
  <2>4. /\ Len(runs[i]) \in Nat /\ DOMAIN runs[i] = 1..Len(runs[i])
        /\ DOMAIN runs'[i] = 1..Len(runs[i]) + 1
        /\ runs'[i][Len(runs[i]) + 1] = due
        /\ \A n \in 1..Len(runs[i]) : runs'[i][n] = runs[i][n]
    <3>1. Append(runs[i], due) \in Seq(Int) BY <2>1, <2>3, AppendTyped
    <3> QED BY <2>1, <2>3, <3>1, AppendProperties, LenProperties
  <2>5. WithinEnd(i, due) BY <2>0, <2>1 DEF Bounded
  <2>8. faults' \in Nat /\ faults <= faults'
    BY <1>2, <1>t DEF StartScript, StartRaises
  <2>6. ASSUME config[i].end = "max_executions", config[i].repeatable
        PROVE  \A n \in DOMAIN runs'[i] : n <= config[i].arg + faults'
    <3>1. count[i] < config[i].arg BY <2>5, <2>6 DEF WithinEnd
    <3>2. Len(runs[i]) <= count[i] + faults BY <2>6 DEF Counted
    <3>3. count[i] \in Nat /\ config[i].arg \in Int BY <1>t, <1>a
    <3>4. Len(runs[i]) + 1 <= config[i].arg + faults BY <1>t, <2>4, <3>1, <3>2, <3>3
    <3> QED BY <1>t, <2>4, <2>8, <3>3, <3>4
  <2>7. ASSUME config[i].end = "end_datetime"
        PROVE  \A n \in DOMAIN runs'[i] : runs'[i][n] <= config[i].arg
    <3>1. due <= config[i].arg BY <2>5, <2>7 DEF WithinEnd
    <3>2. \A n \in 1..Len(runs[i]) : runs[i][n] <= config[i].arg BY <2>4, <2>7
    <3>3. \A n \in 1..Len(runs[i]) + 1 : n \in 1..Len(runs[i]) \/ n = Len(runs[i]) + 1
      BY <2>4
    <3> QED BY <2>4, <3>1, <3>2, <3>3
  <2>9. \A j \in Ids : j # i /\ config[j].end = "max_executions" /\ config[j].repeatable =>
                          \A n \in DOMAIN runs[j] : n <= config[j].arg + faults'
    <3> SUFFICES ASSUME NEW j \in Ids, config[j].end = "max_executions", config[j].repeatable,
                        NEW n \in DOMAIN runs[j]
                 PROVE  n <= config[j].arg + faults'
      OBVIOUS
    <3>1. n \in Int
      <4>1. runs[j] \in Seq(Int) BY <1>t
      <4>2. DOMAIN runs[j] = 1..Len(runs[j]) /\ Len(runs[j]) \in Nat BY <4>1, LenProperties
      <4> QED BY <4>2
    <3>2. n <= config[j].arg + faults OBVIOUS
    <3>3. config[j].arg \in Int BY <1>a
    <3> QED BY ONLY <3>1, <3>2, <3>3, <1>t, <2>8
  <2> QED BY <2>1, <2>2, <2>6, <2>7, <2>9
<1>3. CASE \/ \E t \in Threads : Save(t) \/ ScheduleJob(t)
           \/ RestoreJob \/ TakeDue \/ CheckFile \/ StartFails
           \/ Tick \/ (\E i \in Ids : DeleteFile(i)) \/ Crash \/ Restart \/ UNCHANGED vars
  <2>1. UNCHANGED <<config, runs>> /\ faults' \in {faults, faults + 1}
    BY <1>3 DEF Save, OpenFile, WriteFile, SaveFails, ScheduleJob, RestoreJob, TakeDue, CheckFile,
                StartFails, Tick, DeleteFile, Crash, Restart, vars, memory
  <2> QED BY <1>s, <2>1
<1> QED
  BY <1>t, <1>1, <1>2, <1>3 DEF Next, MainStep, SchedStep, Outside

(* Whether a job has executions left does not come back with the time.     *)
LEMMA NothingLeftStays ==
    ASSUME TypeOK, TypeOK', NEW i \in Ids, clock' >= clock, config' = config, HasNext(i, count[i])'
    PROVE  count' = count => HasNext(i, count[i])
<1>1. config[i] \in Schedules /\ clock \in Clock /\ clock' \in Clock BY DEF TypeOK
<1>2. NextDue(config[i], clock) <= NextDue(config[i], clock')
  BY <1>1, NextDueAssumption
<1>3. /\ NextDue(config[i], clock) \in Int /\ NextDue(config[i], clock') \in Int
      /\ config[i].start \in Int /\ config[i].arg \in Int /\ clock \in Int /\ clock' \in Int
  BY <1>1, NextDueAssumption, SchedulesAssumption, BoundsAssumption DEF Clock
<1> QED BY <1>2, <1>3 DEF HasNext

InFlight(i) ==
    \/ \E e \in queue : e.id = i
    \/ i \in todo
    \/ \E t \in Threads : InHand(t, i)

Kept(i) == file[i] = "whole" /\ HasNext(i, count[i]) => InFlight(i)

LEMMA EnqueueKeeps ==
    ASSUME NEW i, Enqueue(i)
    PROVE  queue \subseteq queue' /\ (HasNext(i, count[i]) => \E e \in queue' : e.id = i)
<1>1. CASE HasNext(i, count[i])
  <2>1. PICK e : e = [id |-> i, due |-> NextDue(config[i], clock)] OBVIOUS
  <2>2. e.id = i BY <2>1
  <2>3. queue' = queue \union {e} BY <1>1, <2>1 DEF Enqueue
  <2> QED BY <2>2, <2>3
<1>2. CASE ~HasNext(i, count[i])
  BY <1>2 DEF Enqueue
<1> QED BY <1>1, <1>2

LEMMA ForgottenStep ==
    ASSUME IInv, IInv', Filed, NotForgotten, [Next]_vars
    PROVE  NotForgotten'
<1>f. TypeOK /\ Halves /\ Fresh /\ QueuedOnce
  BY DEF IInv
<1>t. /\ "main" \in Threads /\ "sched" \in Threads /\ "main" # "sched" /\ Threads = {"main", "sched"}
      /\ pc \in [Threads -> {"idle", "check", "start", "open", "write", "schedule",
                             "restore", "down"}]
      /\ job \in [Threads -> Ids] /\ file \in [Ids -> {"absent", "broken", "whole"}]
  BY <1>f DEF TypeOK, Threads
<1>n. Up => \A i \in Ids : Kept(i) BY DEF NotForgotten, Kept, InFlight
<1>g. ASSUME Up' => \A i \in Ids : Kept(i)' PROVE NotForgotten'
  BY <1>g DEF NotForgotten, Kept, InFlight
<1>s. ASSUME UNCHANGED <<config, count, clock>>, Up,
             \A i \in Ids : file'[i] = "whole" => file[i] = "whole" \/ InFlight(i)',
             \A i \in Ids : InFlight(i) => InFlight(i)' \/ file'[i] # "whole" \/ ~HasNext(i, count[i])
      PROVE  NotForgotten'
  BY <1>s, <1>n, <1>g DEF Kept, HasNext
<1>1. ASSUME NEW s \in Schedules, CreateJob(s) PROVE NotForgotten'
  <2>1. nextId \in Ids /\ pc["main"] = "idle"
    BY <1>1, <1>f, BoundsAssumption DEF CreateJob, Ids, TypeOK
  <2>2. PICK n \in Ids : n = nextId BY <2>1
  <2>3. /\ UNCHANGED <<file, queue, todo, clock>> /\ Up
        /\ job' = [job EXCEPT !["main"] = n] /\ pc' = [pc EXCEPT !["main"] = "open"]
        /\ \A i \in Ids : i # n => config'[i] = config[i] /\ count'[i] = count[i]
    BY <1>1, <1>f, <1>t, <2>2 DEF CreateJob, Goto, TypeOK, disk, Up
  <2>4. InFlight(n)'
    <3>1. InHand("main", n)' BY <1>t, <2>3 DEF InHand
    <3> QED BY <1>t, <3>1 DEF InFlight
  <2>5. \A i \in Ids : InFlight(i) => InFlight(i)'
    BY <1>t, <2>1, <2>3 DEF InFlight, InHand
  <2> QED BY <1>n, <1>g, <2>3, <2>4, <2>5 DEF Kept, HasNext
<1>2. ASSUME NEW t \in Threads, OpenFile(t) PROVE NotForgotten'
  <2>1. /\ UNCHANGED <<config, count, clock, queue, todo, job>> /\ pc[t] = "open"
        /\ file' = [file EXCEPT ![job[t]] = "broken"] /\ pc' = [pc EXCEPT ![t] = "write"]
    BY <1>2 DEF OpenFile, Goto, memory
  <2>2. Up BY <1>f, <1>t, <2>1 DEF Halves, Up
  <2>3. \A i \in Ids : file'[i] = "whole" => file[i] = "whole" BY <1>t, <2>1
  <2>4. \A i \in Ids : InFlight(i) => InFlight(i)' BY <1>t, <2>1 DEF InFlight, InHand
  <2> QED BY <1>s, <2>1, <2>2, <2>3, <2>4
<1>3. ASSUME NEW t \in Threads, WriteFile(t) PROVE NotForgotten'
  <2>1. /\ UNCHANGED <<config, count, clock, queue, todo, job>> /\ pc[t] = "write"
        /\ file' \in {file, [file EXCEPT ![job[t]] = "whole"]} /\ pc' = [pc EXCEPT ![t] = "schedule"]
    BY <1>3 DEF WriteFile, Goto, memory, disk
  <2>2. Up BY <1>f, <1>t, <2>1 DEF Halves, Up
  <2>3. \A i \in Ids : InFlight(i) => InFlight(i)' BY <1>t, <2>1 DEF InFlight, InHand
  <2>4. \A i \in Ids : i = job[t] => InFlight(i)' BY <1>t, <2>1 DEF InFlight, InHand
  <2>5. \A i \in Ids : file'[i] = "whole" => file[i] = "whole" \/ InFlight(i)' BY <1>t, <2>1, <2>4
  <2> QED BY <1>s, <2>1, <2>2, <2>3, <2>5
<1>4. ASSUME NEW t \in Threads, SaveFails(t) PROVE NotForgotten'
  <2>1. /\ UNCHANGED <<config, count, clock, queue, todo, job, file>> /\ pc[t] \in {"open", "write"}
        /\ pc' = [pc EXCEPT ![t] = IF t = "main" THEN "idle" ELSE "schedule"]
    BY <1>4 DEF SaveFails, Goto, memory, disk
  <2>2. Up BY <1>f, <1>t, <2>1 DEF Halves, Up
  <2>3. t = "main" => file[job["main"]] # "whole" BY <2>1 DEF Filed
  <2>4. \A i \in Ids : InFlight(i) => InFlight(i)' \/ file'[i] # "whole"
    BY <1>t, <2>1, <2>3 DEF InFlight, InHand
  <2> QED BY <1>s, <2>1, <2>2, <2>4
<1>5. ASSUME NEW t \in Threads, ScheduleJob(t) PROVE NotForgotten'
  <2>1. /\ UNCHANGED <<config, count, clock, todo, job, file>> /\ pc[t] = "schedule"
        /\ pc' = [pc EXCEPT ![t] = "idle"]
    BY <1>5 DEF ScheduleJob, Goto, memory, disk
  <2>2. Up BY <1>f, <1>t, <2>1 DEF Halves, Up
  <2>3. /\ queue \subseteq queue'
        /\ HasNext(job[t], count[job[t]]) => \E e \in queue' : e.id = job[t]
    BY <1>5, EnqueueKeeps DEF ScheduleJob
  <2>4. \A i \in Ids : InFlight(i) => InFlight(i)' \/ ~HasNext(i, count[i])
    <3> SUFFICES ASSUME NEW i \in Ids, InFlight(i), HasNext(i, count[i]) PROVE InFlight(i)'
      OBVIOUS
    <3>1. CASE i = job[t] BY <2>3, <3>1 DEF InFlight
    <3>2. CASE i # job[t] BY <1>t, <2>1, <2>3, <3>2 DEF InFlight, InHand
    <3> QED BY <3>1, <3>2
  <2> QED BY <1>s, <2>1, <2>2, <2>4
<1>6. CASE RestoreJob
  <2>1. /\ UNCHANGED <<config, count, clock, job, file>> /\ pc["main"] = "restore" /\ Up
    BY <1>6 DEF RestoreJob, memory, disk, Up
  <2>2. CASE todo = {}
    <3>1. UNCHANGED <<queue, todo>> /\ pc' = [pc EXCEPT !["main"] = "idle"]
      BY <1>6, <2>2 DEF RestoreJob, Goto
    <3>2. \A i \in Ids : InFlight(i) => InFlight(i)' BY <1>t, <2>1, <3>1 DEF InFlight, InHand
    <3> QED BY <1>s, <2>1, <3>2
  <2>3. CASE todo # {}
    <3>1. PICK j \in todo : Enqueue(j) /\ todo' = todo \ {j} BY <1>6, <2>3 DEF RestoreJob
    <3>2. pc' = pc BY <1>6, <2>3 DEF RestoreJob
    <3>3. queue \subseteq queue' /\ (HasNext(j, count[j]) => \E e \in queue' : e.id = j)
      BY <3>1, EnqueueKeeps
    <3>4. \A i \in Ids : InFlight(i) => InFlight(i)' \/ ~HasNext(i, count[i])
      <4> SUFFICES ASSUME NEW i \in Ids, InFlight(i), HasNext(i, count[i]) PROVE InFlight(i)'
        OBVIOUS
      <4>1. CASE i = j BY <3>3, <4>1 DEF InFlight
      <4>2. CASE i # j BY <2>1, <3>1, <3>2, <3>3, <4>2 DEF InFlight, InHand
      <4> QED BY <4>1, <4>2
    <3> QED BY <1>s, <2>1, <3>4
  <2> QED BY <2>2, <2>3
<1>7. CASE TakeDue
  <2>1. PICK e \in queue : /\ queue' = queue \ {e}
                           /\ job' = [job EXCEPT !["sched"] = e.id]
    BY <1>7 DEF TakeDue
  <2>2. /\ UNCHANGED <<config, count, clock, todo, file>> /\ pc["sched"] = "idle"
        /\ pc' = [pc EXCEPT !["sched"] = "check"]
    BY <1>7 DEF TakeDue, Goto, memory, disk
  <2>3. Up BY <1>f, <1>t, <2>2 DEF Halves, Up
  <2>4. InHand("sched", e.id)'
    BY <1>t, <2>1, <2>2 DEF InHand
  <2>5. \A i \in Ids : InHand("main", i) => InHand("main", i)'
    BY <1>t, <2>1, <2>2 DEF InHand
  <2>6. \A i \in Ids : InFlight(i) => InFlight(i)'
    BY <1>t, <2>1, <2>2, <2>4, <2>5 DEF InFlight, InHand
  <2> QED BY <1>s, <2>2, <2>3, <2>6
<1>8. CASE CheckFile \/ StartFails \/ StartRaises
  <2>1. /\ UNCHANGED <<config, count, clock, queue, todo, job, file>> /\ pc["sched"] \in {"check", "start"}
        /\ \/ pc' = [pc EXCEPT !["sched"] = "idle"] /\ file[job["sched"]] = "absent"
           \/ \E label \in {"start", "schedule"} : pc' = [pc EXCEPT !["sched"] = label]
    BY <1>8 DEF CheckFile, StartFails, StartRaises, Goto, memory, disk
  <2>2. Up BY <1>f, <1>t, <2>1 DEF Halves, Up
  <2>3. \A i \in Ids : InFlight(i) => InFlight(i)' \/ file'[i] # "whole"
    BY <1>t, <2>1 DEF InFlight, InHand
  <2> QED BY <1>s, <2>1, <2>2, <2>3
<1>9. CASE StartScript
  <2>1. /\ UNCHANGED <<config, clock, queue, todo, job, file>> /\ pc["sched"] = "start"
        /\ \E label \in {"open", "schedule"} : pc' = [pc EXCEPT !["sched"] = label]
        /\ \A i \in Ids : i # job["sched"] => count'[i] = count[i]
    BY <1>9, <1>f, <1>t DEF StartScript, Goto, disk, TypeOK
  <2>2. Up BY <1>f, <1>t, <2>1 DEF Halves, Up
  <2>3. \A i \in Ids : InFlight(i) => InFlight(i)' BY <1>t, <2>1 DEF InFlight, InHand
  <2>4. \A i \in Ids : i = job["sched"] => InFlight(i)' BY <1>t, <2>1 DEF InFlight, InHand
  <2> QED BY <1>n, <1>g, <2>1, <2>2, <2>3, <2>4 DEF Kept, HasNext
<1>10. CASE Tick
  <2>1. UNCHANGED <<config, count, file, queue, todo, job, pc>> /\ clock' >= clock
    BY <1>10, <1>f, BoundsAssumption DEF Tick, memory, disk, TypeOK, Clock
  <2>2. \A i \in Ids : HasNext(i, count[i])' => HasNext(i, count[i])
    BY <1>f, <2>1, NothingLeftStays DEF IInv
  <2>3. \A i \in Ids : InFlight(i) => InFlight(i)' BY <2>1 DEF InFlight, InHand
  <2>4. Up' => Up BY <2>1 DEF Up
  <2> QED BY <1>n, <1>g, <2>1, <2>2, <2>3, <2>4 DEF Kept
<1>11. ASSUME NEW j \in Ids, DeleteFile(j) PROVE NotForgotten'
  <2>1. /\ UNCHANGED <<config, count, clock, queue, todo, job, pc>> /\ file' = [file EXCEPT ![j] = "absent"]
    BY <1>11 DEF DeleteFile, memory
  <2>2. \A i \in Ids : file'[i] = "whole" => file[i] = "whole" BY <1>t, <2>1
  <2>3. \A i \in Ids : InFlight(i) => InFlight(i)' BY <2>1 DEF InFlight, InHand
  <2>4. Up' => Up BY <2>1 DEF Up
  <2> QED BY <1>n, <1>g, <2>1, <2>2, <2>3, <2>4 DEF Kept, HasNext
<1>12. CASE Crash
  BY <1>12, <1>t, <1>g DEF Crash, Up
<1>13. CASE Restart
  <2>1. \A i \in Ids : file'[i] = "whole" => i \in todo' BY <1>13 DEF Restart, disk
  <2> QED BY <1>g, <2>1 DEF Kept, InFlight
<1>14. CASE UNCHANGED vars
  <2>1. UNCHANGED <<config, count, clock, queue, todo, job, pc, file>> BY <1>14 DEF vars, memory, disk
  <2>2. \A i \in Ids : InFlight(i) => InFlight(i)' BY <2>1 DEF InFlight, InHand
  <2>3. Up' => Up BY <2>1 DEF Up
  <2> QED BY <1>n, <1>g, <2>1, <2>2, <2>3 DEF Kept, HasNext
<1> QED
  BY <1>t, <1>1, <1>2, <1>3, <1>4, <1>5, <1>6, <1>7, <1>8, <1>9, <1>10, <1>11, <1>12, <1>13, <1>14
     DEF Next, MainStep, SchedStep, Outside, Save

(* The invariant of the series, on top of that of the jobs.                *)
THEOREM SeriesInvariant == Spec => []SInv
<1>1. Init => SInv
  <2> SUFFICES ASSUME Init PROVE SInv
    OBVIOUS
  <2>1. IInv BY InvInit
  <2>2. \A i \in Ids : Len(runs[i]) = 0 /\ DOMAIN runs[i] = {} BY DEF Init
  <2>3. Filed /\ Bounded BY DEF Init, Filed, Bounded, Threads
  <2>4. Counted BY <2>2 DEF Init, Counted
  <2>5. EndRespected BY <2>2 DEF EndRespected
  <2>6. NotForgotten BY DEF Init, NotForgotten
  <2> QED BY <2>3, <2>4, <2>5, <2>6 DEF SInv
<1>2. IInv /\ IInv' /\ SInv /\ [Next]_vars => SInv'
  BY FiledStep, BoundedStep, CountedStep, EndStep, ForgottenStep DEF SInv
<1> QED BY <1>1, <1>2, InductiveInvariant, PTL DEF Spec

(* A series of executions keeps to its end (schedule_job, the count of     *)
(* _execute_job) up to one execution for each crash, each failed save and  *)
(* each start that raised when the script ran already, and a job with      *)
(* executions left is not forgotten, whatever fails.                       *)
THEOREM SeriesAreKept == Spec => []SeriesKept
<1>1. SInv => SeriesKept BY DEF SInv, SeriesKept
<1> QED BY SeriesInvariant, <1>1, PTL

-----------------------------------------------------------------------------
(* The calendar. First what the operators on numbers do. *)

(* A set of numbers that is not empty has a least one. *)
LEMMA LeastNumber ==
    ASSUME NEW S \in SUBSET Nat, S # {}
    PROVE  \E m \in S : \A k \in S : m <= k
<1> DEFINE R == {ss \in Nat \X Nat : ss[1] < ss[2]}
<1>1. IsWellFoundedOn(R, Nat)
  BY NatLessThanWellFounded DEF OpToRel
<1> HIDE DEF R
<1>2. PICK m \in S : \A k \in S : ~(<<k, m>> \in R)
  BY <1>1, WFMin
<1>3. \A k \in S : ~(k < m)
  BY <1>2 DEF R
<1>4. m \in Nat /\ \A k \in S : k \in Nat
  OBVIOUS
<1> QED BY <1>3, <1>4

(* A product grows with its factor. *)
LEMMA Grows ==
    ASSUME NEW a \in Int, NEW b \in Int, NEW p \in Nat \ {0}, a < b
    PROVE  p * a + p <= p * b
<1>1. PICK c \in Nat : b = a + 1 + c
  <2>1. b - a - 1 \in Nat /\ b = a + 1 + (b - a - 1)
    OBVIOUS
  <2> QED BY <2>1
<1>2. p * b = p * a + p + p * c /\ p * c \in Nat
  BY <1>1
<1>3. p * a \in Int
  OBVIOUS
<1> QED BY <1>2, <1>3

(* And never shrinks. *)
LEMMA GrowsWeakly ==
    ASSUME NEW a \in Int, NEW b \in Int, NEW p \in Nat \ {0}, a <= b
    PROVE  p * a <= p * b
<1>1. p * a \in Int /\ p * b \in Int
  OBVIOUS
<1>2. CASE a = b
  BY <1>1, <1>2
<1>3. CASE a < b
  <2>1. p * a + p <= p * b
    BY <1>3, Grows
  <2> QED BY <1>1, <2>1
<1> QED BY <1>2, <1>3

(* Division rounds down, and leaves a remainder. *)
LEMMA Divides ==
    ASSUME NEW a \in Int, NEW b \in Nat \ {0}
    PROVE  /\ a \div b \in Int /\ a % b \in 0..b - 1
           /\ a = b * (a \div b) + (a % b)
  OBVIOUS

(* The same, with names for quotient and remainder. *)
LEMMA Divided ==
    ASSUME NEW a \in Int, NEW b \in Nat \ {0}
    PROVE  \E q \in Int, r \in 0..b - 1 : q = a \div b /\ r = a % b /\ a = b * q + r
<1>1. a \div b \in Int /\ a % b \in 0..b - 1 /\ a = b * (a \div b) + (a % b)
  BY Divides
<1> QED BY <1>1

(* There is one quotient and one remainder. *)
LEMMA DividesOnly ==
    ASSUME NEW q \in Int, NEW b \in Nat \ {0}, NEW r \in 0..b - 1, NEW a \in Int, a = b * q + r
    PROVE  a \div b = q /\ a % b = r
<1>1. PICK d \in Int : d = a \div b
  BY Divides
<1>2. PICK e \in 0..b - 1 : e = a % b
  BY Divides
<1>3. b * q + r = b * d + e
  BY <1>1, <1>2, Divides
<1>4. b * q \in Int /\ b * d \in Int
  OBVIOUS
<1>5. ~(q < d)
  <2> SUFFICES ASSUME q < d PROVE FALSE
    OBVIOUS
  <2>1. b * q + b <= b * d
    BY Grows
  <2> QED BY <1>3, <1>4, <2>1
<1>6. ~(d < q)
  <2> SUFFICES ASSUME d < q PROVE FALSE
    OBVIOUS
  <2>1. b * d + b <= b * q
    BY Grows
  <2> QED BY <1>3, <1>4, <2>1
<1>7. q = d
  BY <1>5, <1>6
<1> QED BY <1>1, <1>2, <1>3, <1>4, <1>7

(* A quotient does not shrink while the number grows. *)
LEMMA DividesWeakly ==
    ASSUME NEW a \in Int, NEW c \in Int, NEW b \in Nat \ {0}, a <= c
    PROVE  a \div b <= c \div b
<1>1. PICK q \in Int : q = a \div b
  BY Divides
<1>2. PICK w \in Int : w = c \div b
  BY Divides
<1>3. PICK r \in 0..b - 1 : a = b * q + r
  BY <1>1, Divides
<1>4. PICK e \in 0..b - 1 : c = b * w + e
  BY <1>2, Divides
<1>5. ~(w < q)
  <2> SUFFICES ASSUME w < q PROVE FALSE
    OBVIOUS
  <2>1. b * w + b <= b * q
    BY Grows
  <2>2. b * w \in Int /\ b * q \in Int
    OBVIOUS
  <2> QED BY <1>3, <1>4, <2>1, <2>2
<1> QED BY <1>1, <1>2, <1>5

-----------------------------------------------------------------------------
(* The days before a month. *)

LengthOf(n) == MonthLength(2020 + ((n - 1) \div 12), ((n - 1) % 12) + 1)

Counts(f, n) == f = [k \in 0..n |-> IF k = 0 THEN 0 ELSE f[k - 1] + LengthOf(k)]

(* There is a count up to any month. *)
LEMMA CountExists ==
    ASSUME NEW n \in Nat
    PROVE  \E f : Counts(f, n)
<1> DEFINE Bad == {k \in Nat : ~ \E f : Counts(f, k)}
<1> SUFFICES ASSUME Bad # {} PROVE FALSE
  OBVIOUS
<1>1. PICK m \in Bad : \A k \in Bad : m <= k
  BY LeastNumber
<1>2. CASE m = 0
  <2> DEFINE f == [k \in 0..0 |-> 0]
  <2>1. Counts(f, 0)
    BY DEF Counts
  <2> QED BY <1>1, <1>2, <2>1
<1>3. CASE m # 0
  <2>1. m - 1 \in Nat /\ m - 1 \notin Bad
    BY <1>1, <1>3
  <2>2. PICK f : Counts(f, m - 1)
    BY <2>1
  <2> DEFINE g == [k \in 0..m |-> IF k < m THEN f[k] ELSE f[m - 1] + LengthOf(m)]
  <2>3. \A k \in 0..m - 1 : f[k] = IF k = 0 THEN 0 ELSE f[k - 1] + LengthOf(k)
    BY <2>1, <2>2 DEF Counts
  <2>4. ASSUME NEW k \in 0..m
        PROVE  g[k] = IF k = 0 THEN 0 ELSE g[k - 1] + LengthOf(k)
    <3>1. CASE k < m
      <4>1. k \in 0..m - 1 /\ (k # 0 => k - 1 \in 0..m /\ k - 1 < m)
        BY <1>1, <3>1
      <4> QED BY <2>3, <3>1, <4>1
    <3>2. CASE k = m
      <4>1. k # 0 /\ k - 1 \in 0..m /\ k - 1 < m
        BY <1>1, <1>3, <3>2
      <4> QED BY <3>2, <4>1
    <3> QED BY <1>1, <3>1, <3>2
  <2>5. Counts(g, m)
    <3>1. g = [k \in 0..m |-> g[k]]
      OBVIOUS
    <3> HIDE DEF g
    <3> QED BY <2>4, <3>1 DEF Counts
  <2> QED BY <1>1, <2>5
<1> QED BY <1>2, <1>3

(* And the longer one says the same. *)
LEMMA CountAgrees ==
    ASSUME NEW n \in Nat, NEW m \in Nat, NEW f, NEW g, Counts(f, n), Counts(g, m), n <= m
    PROVE  \A k \in 0..n : f[k] = g[k]
<1> DEFINE Bad == {k \in 0..n : f[k] # g[k]}
<1> SUFFICES ASSUME Bad # {} PROVE FALSE
  OBVIOUS
<1>1. PICK j \in Bad : \A k \in Bad : j <= k
  <2>1. Bad \in SUBSET Nat
    OBVIOUS
  <2> QED BY <2>1, LeastNumber
<1>2. /\ f[j] = IF j = 0 THEN 0 ELSE f[j - 1] + LengthOf(j)
      /\ g[j] = IF j = 0 THEN 0 ELSE g[j - 1] + LengthOf(j)
  <2>1. j \in 0..n /\ j \in 0..m
    BY <1>1
  <2> QED BY <2>1 DEF Counts
<1>3. j # 0 => j - 1 \in 0..n /\ j - 1 \notin Bad
  BY <1>1
<1> QED BY <1>1, <1>2, <1>3

(* The recursive definition has a meaning, and this is it. *)
LEMMA DaysBeforeIs ==
    /\ DaysBefore[0] = 0
    /\ \A n \in Nat : DaysBefore[n + 1] = DaysBefore[n] + LengthOf(n + 1)
<1> DEFINE C(n) == CHOOSE f : Counts(f, n)
           F == [n \in Nat |-> C(n)[n]]
<1>1. \A n \in Nat : Counts(C(n), n)
  BY CountExists
<1>2. ASSUME NEW n \in Nat PROVE F[n] = IF n = 0 THEN 0 ELSE F[n - 1] + LengthOf(n)
  <2>1. C(n)[n] = IF n = 0 THEN 0 ELSE C(n)[n - 1] + LengthOf(n)
    <3> HIDE DEF C
    <3>1. n \in 0..n /\ Counts(C(n), n)
      BY <1>1
    <3> QED BY <3>1 DEF Counts
  <2>2. CASE n = 0
    BY <2>1, <2>2
  <2>3. CASE n # 0
    <3>1. n - 1 \in Nat
      BY <2>3
    <3>2. C(n - 1)[n - 1] = C(n)[n - 1]
      <4> HIDE DEF C
      <4>1. n - 1 <= n /\ n - 1 \in 0..n - 1
        BY <3>1
      <4>2. Counts(C(n - 1), n - 1) /\ Counts(C(n), n)
        BY <1>1, <3>1
      <4> QED BY <3>1, <4>1, <4>2, CountAgrees
    <3> HIDE DEF C
    <3> QED BY <2>1, <2>3, <3>1, <3>2
  <2> QED BY <2>2, <2>3
<1>3. F = [n \in Nat |-> IF n = 0 THEN 0 ELSE F[n - 1] + LengthOf(n)]
  <2>1. F = [n \in Nat |-> F[n]]
    OBVIOUS
  <2> HIDE DEF F
  <2> QED BY <1>2, <2>1
<1>4. DaysBefore = [n \in Nat |-> IF n = 0 THEN 0 ELSE DaysBefore[n - 1] + LengthOf(n)]
  <2> HIDE DEF F
  <2>1. \E f : f = [n \in Nat |-> IF n = 0 THEN 0 ELSE f[n - 1] + LengthOf(n)]
    BY <1>3
  <2>2. DaysBefore = CHOOSE f : f = [n \in Nat |-> IF n = 0 THEN 0 ELSE f[n - 1] + LengthOf(n)]
    BY DEF DaysBefore, LengthOf
  <2> QED BY <2>1, <2>2
<1>5. DaysBefore[0] = 0
  BY <1>4
<1>6. ASSUME NEW n \in Nat PROVE DaysBefore[n + 1] = DaysBefore[n] + LengthOf(n + 1)
  <2>1. n + 1 \in Nat /\ n + 1 # 0 /\ (n + 1) - 1 = n
    OBVIOUS
  <2> QED BY <1>4, <2>1
<1> QED BY <1>5, <1>6

(* A month has 28 days or more. *)
LEMMA MonthIsLong ==
    ASSUME NEW y, NEW m
    PROVE  MonthLength(y, m) \in 28..31
BY DEF MonthLength

(* Every month adds 28 days or more. *)
LEMMA DaysGrow ==
    /\ \A n \in Nat : DaysBefore[n] \in Nat
    /\ \A n, k \in Nat : DaysBefore[n] + 28 * k <= DaysBefore[n + k]
<1>0. \A n \in Nat : LengthOf(n) \in 28..31
  BY MonthIsLong DEF LengthOf
<1>1. ASSUME NEW S \in SUBSET Nat, 0 \in S, \A n \in Nat : n \in S => n + 1 \in S PROVE S = Nat
  <2> SUFFICES ASSUME Nat \ S # {} PROVE FALSE
    BY <1>1
  <2>1. PICK m \in Nat \ S : \A k \in Nat \ S : m <= k
    BY LeastNumber
  <2>2. m # 0
    BY <1>1, <2>1
  <2>3. m - 1 \in S /\ m - 1 \in Nat
    BY <2>1, <2>2
  <2> QED BY <1>1, <2>1, <2>3
<1>2. \A n \in Nat : DaysBefore[n] \in Nat
  <2> DEFINE S == {n \in Nat : DaysBefore[n] \in Nat}
  <2>1. 0 \in S
    BY DaysBeforeIs
  <2>2. \A n \in Nat : n \in S => n + 1 \in S
    BY <1>0, DaysBeforeIs
  <2>3. S = Nat
    <3> HIDE DEF S
    <3>1. S \in SUBSET Nat
      BY DEF S
    <3> QED BY <1>1, <2>1, <2>2, <3>1
  <2> QED BY <2>3
<1>3. ASSUME NEW n \in Nat PROVE \A k \in Nat : DaysBefore[n] + 28 * k <= DaysBefore[n + k]
  <2> DEFINE S == {k \in Nat : DaysBefore[n] + 28 * k <= DaysBefore[n + k]}
  <2>1. 0 \in S
    BY <1>2
  <2>2. ASSUME NEW k \in S PROVE k + 1 \in S
    <3>1. n + k \in Nat /\ n + (k + 1) = (n + k) + 1
      OBVIOUS
    <3>2. DaysBefore[n + (k + 1)] = DaysBefore[n + k] + LengthOf((n + k) + 1)
      BY <3>1, DaysBeforeIs
    <3>3. LengthOf((n + k) + 1) \in 28..31
      BY <1>0, <3>1
    <3>4. DaysBefore[n + k] \in Nat /\ DaysBefore[n] \in Nat
      BY <1>2, <3>1
    <3> QED BY <3>2, <3>3, <3>4
  <2>3. S = Nat
    <3> HIDE DEF S
    <3>1. S \in SUBSET Nat
      BY DEF S
    <3> QED BY <1>1, <2>1, <2>2, <3>1
  <2> QED BY <2>3
<1> QED BY <1>2, <1>3

-----------------------------------------------------------------------------
(* The iterations. *)

First(s, at) == AtLeast(0, InitialMultiplier(s, at))

(* The iterations have times, and do not end without one from now on. *)
Goes(s) == \A i \in Nat : TimeAt(s, i) \in Int

Arrives(s, at) ==
    \E i \in First(s, at)..First(s, at) + MaxIterations : TimeAt(s, i) >= at

(* What get_next_time returns: the time of the first iteration from there. *)
LEMMA NextTimeIs ==
    ASSUME NEW s, NEW at \in Int, s.repeatable, First(s, at) \in Nat, Goes(s), Arrives(s, at)
    PROVE  \E i \in Nat : /\ First(s, at) <= i /\ NextTime(s, at) = TimeAt(s, i)
                          /\ TimeAt(s, i) >= at
                          /\ \A j \in Nat : First(s, at) <= j /\ j < i => TimeAt(s, j) < at
<1> PICK first \in Nat : first = First(s, at)
  OBVIOUS
<1> DEFINE turns == first..first + MaxIterations
           Due(i) == TimeAt(s, i) >= at /\ \A j \in first..i - 1 : TimeAt(s, j) < at
           Ripe == {i \in turns : TimeAt(s, i) >= at}
<1>1. MaxIterations \in Nat /\ turns \subseteq Nat
  BY DEF MaxIterations
<1>2. PICK m \in Ripe : \A k \in Ripe : m <= k
  <2>1. Ripe \in SUBSET Nat /\ Ripe # {}
    BY <1>1 DEF Arrives
  <2> HIDE DEF Ripe
  <2> QED BY <2>1, LeastNumber
<1>3. m \in turns /\ Due(m)
  <2>1. ASSUME NEW j \in first..m - 1 PROVE TimeAt(s, j) < at
    <3>1. j \in Nat /\ j \in turns /\ j < m
      BY <1>1, <1>2
    <3>2. j \notin Ripe
      BY <1>1, <1>2, <3>1
    <3>3. TimeAt(s, j) \in Int
      BY <3>1 DEF Goes
    <3> QED BY <3>1, <3>2, <3>3
  <2> QED BY <1>2, <2>1
<1>4. PICK i : i = CHOOSE k \in turns : Due(k)
  OBVIOUS
<1>5. i \in turns /\ Due(i)
  <2> HIDE DEF Due, turns
  <2> QED BY <1>3, <1>4
<1>6. ~ \A k \in turns : TimeAt(s, k) < at
  <2>1. TimeAt(s, m) >= at /\ TimeAt(s, m) \in Int
    BY <1>1, <1>2 DEF Goes
  <2> QED BY <1>2, <2>1
<1>7. NextTime(s, at) = TimeAt(s, i)
  BY <1>4, <1>6 DEF NextTime, First
<1>8. i \in Nat /\ first <= i
  BY <1>1, <1>5
<1>9. ASSUME NEW j \in Nat, first <= j, j < i PROVE TimeAt(s, j) < at
  <2>1. j \in first..i - 1
    BY <1>8, <1>9
  <2> QED BY <1>5, <2>1
<1> QED BY <1>5, <1>7, <1>8, <1>9

(* A later question has no earlier answer, if the times go forward and the *)
(* first guess does.                                                       *)
LEMMA NextTimeGrows ==
    ASSUME NEW s, NEW at \in Int, NEW later \in Int, at <= later, s.repeatable, Goes(s),
           First(s, at) \in Nat, First(s, later) \in Nat, First(s, at) <= First(s, later),
           Arrives(s, at), Arrives(s, later),
           \A i, j \in Nat : i <= j => TimeAt(s, i) <= TimeAt(s, j)
    PROVE  /\ NextTime(s, at) \in Int /\ NextTime(s, at) >= at
           /\ NextTime(s, at) <= NextTime(s, later)
<1>1. PICK i \in Nat : /\ NextTime(s, at) = TimeAt(s, i) /\ TimeAt(s, i) >= at
                       /\ \A j \in Nat : First(s, at) <= j /\ j < i => TimeAt(s, j) < at
  BY NextTimeIs
<1>2. PICK k \in Nat : /\ First(s, later) <= k /\ NextTime(s, later) = TimeAt(s, k)
                       /\ TimeAt(s, k) >= later
  BY NextTimeIs
<1>3. TimeAt(s, i) \in Int /\ TimeAt(s, k) \in Int
  BY DEF Goes
<1>4. ~(k < i)
  <2> SUFFICES ASSUME k < i PROVE FALSE
    OBVIOUS
  <2>1. First(s, at) <= k
    BY <1>2
  <2>2. TimeAt(s, k) < at
    BY <1>1, <2>1
  <2> QED BY <1>2, <1>3, <2>2
<1>5. i <= k
  BY <1>4
<1> QED BY <1>1, <1>2, <1>3, <1>5

(* It is the next occurrence, if iterations are occurrences, and one that  *)
(* is not in the past is an iteration that was not skipped.                *)
LEMMA NextTimeFirst ==
    ASSUME NEW s, NEW at \in Int, s.repeatable, Goes(s), First(s, at) \in Nat, Arrives(s, at),
           \A i, j \in Nat : i <= j => TimeAt(s, i) <= TimeAt(s, j),
           \A i \in Nat : IsOccurrence(s, TimeAt(s, i)),
           \A t \in Int : \A u \in Between(s, at, t) :
               u \in Int /\ u < t /\
               (IsOccurrence(s, u) =>
                   \E j \in Nat : First(s, at) <= j /\ TimeAt(s, j) = u /\ u >= at)
    PROVE  IsNext(s, at, NextTime(s, at))
<1>1. PICK i \in Nat : /\ First(s, at) <= i /\ NextTime(s, at) = TimeAt(s, i)
                       /\ TimeAt(s, i) >= at
                       /\ \A j \in Nat : First(s, at) <= j /\ j < i => TimeAt(s, j) < at
  BY NextTimeIs
<1>2. PICK t \in Int : t = TimeAt(s, i)
  BY DEF Goes
<1>3. ASSUME NEW u \in Between(s, at, t), IsOccurrence(s, u) PROVE FALSE
  <2>1. PICK j \in Nat : First(s, at) <= j /\ TimeAt(s, j) = u /\ u >= at /\ u < t /\ u \in Int
    BY <1>3
  <2>2. ~(j < i)
    BY <1>1, <2>1
  <2>3. t <= u
    BY <1>2, <2>1, <2>2
  <2> QED BY <2>1, <2>3
<1> QED BY <1>1, <1>2, <1>3 DEF IsNext

(* A date has an instant. *)
LEMMA InstantTyped ==
    ASSUME NEW date, IsDate(date)
    PROVE  Instant(date) \in Int
<1>1. PICK n \in Nat : n = 12 * (date.y - 2020) + date.m - 1
  BY DEF IsDate
<1>2. DaysBefore[n] \in Nat
  BY DaysGrow
<1>3. date.d \in Nat /\ date.min \in Nat
  <2>1. MonthLength(date.y, date.m) \in 28..31
    BY MonthIsLong
  <2> QED BY <2>1 DEF IsDate, Day
<1> QED BY <1>1, <1>2, <1>3 DEF Instant, Day

-----------------------------------------------------------------------------
(* Minutes, hours and days. *)

Steady(s) == s.repeatable /\ s.unit \in {"minutes", "hours", "days"}

(* Their iterations lie p minutes apart, the first guess is a division.    *)
LEMMA SteadyTimes ==
    ASSUME NEW s, Accepted(s), Steady(s)
    PROVE  \E p \in Nat \ {0}, start \in Int :
              /\ p = s.period * UnitLength(s.unit) /\ start = Instant(s.start)
              /\ UnitLength(s.unit) \in Nat \ {0}
              /\ \A i \in Int : TimeAt(s, i) = start + p * i
              /\ \A at \in Int : InitialMultiplier(s, at) = (at - start) \div p
<1>1. PICK start \in Int : start = Instant(s.start)
  BY InstantTyped DEF Accepted
<1>2. PICK u \in Nat \ {0} : u = UnitLength(s.unit)
  BY DEF UnitLength, Day, Steady
<1>3. PICK e \in Nat \ {0} : e = s.period
  BY DEF Accepted, Steady
<1>4. PICK p \in Nat \ {0} : p = e * u
  <2>1. e * u \in Nat /\ e * u # 0
    OBVIOUS
  <2> QED BY <2>1
<1>5. ASSUME NEW i \in Int PROVE TimeAt(s, i) = start + p * i
  <2>1. TimeAt(s, i) = start + e * i * u
    BY <1>1, <1>2, <1>3 DEF TimeAt, Steady
  <2>2. e * i * u = p * i
    BY <1>4
  <2> QED BY <2>1, <2>2
<1>6. ASSUME NEW at \in Int PROVE InitialMultiplier(s, at) = (at - start) \div p
  <2>1. InitialMultiplier(s, at) = (at - start) \div (u * e)
    BY <1>1, <1>2, <1>3 DEF InitialMultiplier, Steady
  <2>2. u * e = p
    BY <1>4
  <2> QED BY <2>1, <2>2
<1> QED BY <1>1, <1>2, <1>3, <1>4, <1>5, <1>6

(* The first guess is not negative, and is the quotient unless that is. *)
LEMMA AtLeastIs ==
    ASSUME NEW q \in Int
    PROVE  AtLeast(0, q) \in Nat /\ q <= AtLeast(0, q) /\ (AtLeast(0, q) = q \/ (AtLeast(0, q) = 0 /\ q < 0))
BY DEF AtLeast

(* The iterations arrive, one turn after the first guess. *)
LEMMA SteadyGoes ==
    ASSUME NEW s, NEW at \in Int, Accepted(s), Steady(s)
    PROVE  /\ Goes(s) /\ First(s, at) \in Nat /\ Arrives(s, at)
           /\ \A i, j \in Nat : i <= j => TimeAt(s, i) <= TimeAt(s, j)
           /\ \A later \in Int : at <= later => First(s, at) <= First(s, later)
<1>1. PICK p \in Nat \ {0}, start \in Int :
              /\ \A i \in Int : TimeAt(s, i) = start + p * i
              /\ \A a \in Int : InitialMultiplier(s, a) = (a - start) \div p
  BY SteadyTimes
<1>2. PICK q \in Int : q = (at - start) \div p
  BY Divides
<1>3. PICK r \in 0..p - 1 : at - start = p * q + r
  BY <1>2, Divides
<1>4. PICK f \in Nat : f = First(s, at)
  BY <1>1, <1>2, AtLeastIs DEF First
<1>5. f = AtLeast(0, q)
  BY <1>1, <1>2, <1>4 DEF First
<1>6. Goes(s)
  BY <1>1 DEF Goes
<1>7. Arrives(s, at)
  <2>1. q <= f
    BY <1>5, AtLeastIs
  <2>2. p * q + p <= p * (f + 1)
    BY <2>1, Grows
  <2>3. TimeAt(s, f + 1) >= at
    <3>1. p * q \in Int /\ p * (f + 1) \in Int /\ f + 1 \in Int
      OBVIOUS
    <3>2. TimeAt(s, f + 1) = start + p * (f + 1)
      BY <1>1, <3>1
    <3>3. start + p * (f + 1) >= at
      BY ONLY <1>3, <2>2, <3>1, at \in Int, start \in Int, p \in Nat \ {0}, r \in 0..p - 1
    <3> QED BY <3>2, <3>3
  <2>4. f + 1 \in f..f + MaxIterations
    BY DEF MaxIterations
  <2> QED BY <1>4, <2>3, <2>4 DEF Arrives
<1>8. ASSUME NEW i \in Nat, NEW j \in Nat, i <= j PROVE TimeAt(s, i) <= TimeAt(s, j)
  <2>1. p * i <= p * j
    BY <1>8, GrowsWeakly
  <2>2. p * i \in Int /\ p * j \in Int
    OBVIOUS
  <2>3. TimeAt(s, i) = start + p * i /\ TimeAt(s, j) = start + p * j
    BY <1>1
  <2>4. start + p * i <= start + p * j
    BY ONLY <2>1, <2>2, start \in Int
  <2> QED BY <2>3, <2>4
<1>9. ASSUME NEW later \in Int, at <= later PROVE First(s, at) <= First(s, later)
  <2>1. PICK w \in Int : w = (later - start) \div p
    BY Divides
  <2>2. q <= w
    BY <1>2, <1>9, <2>1, DividesWeakly
  <2>3. First(s, later) = AtLeast(0, w)
    BY <1>1, <2>1 DEF First
  <2> QED BY <1>4, <1>5, <2>2, <2>3 DEF AtLeast
<1> QED BY <1>4, <1>6, <1>7, <1>8, <1>9

(* What lies between, an instant from now on and before the other. *)
LEMMA BetweenIs ==
    ASSUME NEW s, NEW at \in Int, NEW t \in Int, NEW u \in Between(s, at, t), s.unit # "months",
           s.unit # "weeks" => UnitLength(s.unit) \in Nat \ {0}
    PROVE  u \in Int /\ u < t /\ u >= at
<1>1. PICK g \in Nat \ {0} : g = IF s.unit = "weeks" THEN Day ELSE UnitLength(s.unit)
  BY DEF Day
<1>2. PICK x \in Int : x = t - at
  OBVIOUS
<1>3. PICK n \in Int : n = x \div g
  BY Divides
<1>4. PICK k \in 1..n : u = t - k * g
  <2>1. u \in {t - k * g : k \in 1..n}
    BY <1>1, <1>2, <1>3 DEF Between
  <2> QED BY <2>1
<1>5. g * n \in Int /\ g * k \in Int
  OBVIOUS
<1>6. g * k <= g * n /\ g * 1 <= g * k
  BY GrowsWeakly
<1>7. g * n <= x
  <2>1. PICK e \in 0..g - 1 : x = g * n + e
    BY <1>3, Divides
  <2> QED BY <1>5, <2>1
<1>8. k * g = g * k
  OBVIOUS
<1> QED BY <1>2, <1>4, <1>5, <1>6, <1>7, <1>8

(* None is skipped: an occurrence has a quotient not below the first guess. *)
LEMMA SteadyFirst ==
    ASSUME NEW s, NEW at \in Int, Accepted(s), Steady(s)
    PROVE  IsNext(s, at, NextTime(s, at))
<1>1. PICK p \in Nat \ {0}, start \in Int :
              /\ p = s.period * UnitLength(s.unit) /\ start = Instant(s.start)
              /\ UnitLength(s.unit) \in Nat \ {0}
              /\ \A i \in Int : TimeAt(s, i) = start + p * i
              /\ \A a \in Int : InitialMultiplier(s, a) = (a - start) \div p
  BY SteadyTimes
<1>2. PICK q \in Int : q = (at - start) \div p
  BY Divides
<1>3. PICK r \in 0..p - 1 : at - start = p * q + r
  BY <1>2, Divides
<1>4. First(s, at) = AtLeast(0, q)
  BY <1>1, <1>2 DEF First
<1>5. ASSUME NEW t \in Int PROVE IsOccurrence(s, t) <=> t >= start /\ (t - start) % p = 0
  BY <1>1 DEF IsOccurrence, Steady
<1>6. ASSUME NEW i \in Nat PROVE IsOccurrence(s, TimeAt(s, i))
  <2>1. PICK x \in Int : x = start + p * i
    OBVIOUS
  <2>2. p * i \in Nat
    OBVIOUS
  <2>3. x - start = p * i + 0 /\ 0 \in 0..p - 1 /\ x - start \in Int
    BY <2>1, <2>2
  <2>4. (x - start) % p = 0
    BY <2>3, DividesOnly
  <2> QED BY <1>1, <1>5, <2>1, <2>2, <2>4
<1>7. ASSUME NEW t \in Int, NEW u \in Between(s, at, t)
      PROVE  /\ u \in Int /\ u < t
             /\ IsOccurrence(s, u) =>
                   \E j \in Nat : First(s, at) <= j /\ TimeAt(s, j) = u /\ u >= at
  <2>5. u \in Int /\ u < t /\ u >= at
    BY <1>1, BetweenIs DEF Steady
  <2>6. ASSUME IsOccurrence(s, u) PROVE \E j \in Nat : First(s, at) <= j /\ TimeAt(s, j) = u
    <3>1. u >= start /\ (u - start) % p = 0
      BY <1>5, <2>5, <2>6
    <3>0. PICK y \in Int : y = u - start
      BY <2>5
    <3>2. PICK j \in Int : j = y \div p
      BY Divides
    <3>3. y = p * j
      <4>1. y % p = 0 /\ p * j \in Int
        BY <3>0, <3>1
      <4> QED BY <3>2, <4>1, Divides
    <3>4. 0 <= j
      <4>1. p * 0 = 0 /\ p * j \in Int /\ p * (-1) = -p
        OBVIOUS
      <4>2. y >= 0
        BY <2>5, <3>0, <3>1
      <4>3. ~(j <= -1)
        <5> SUFFICES ASSUME j <= -1 PROVE FALSE
          OBVIOUS
        <5>1. p * j <= p * (-1)
          BY GrowsWeakly
        <5> QED BY <3>3, <4>1, <4>2, <5>1
      <4> QED BY <4>3
    <3>5. q <= j
      <4>1. PICK z \in Int : z = at - start
        OBVIOUS
      <4>2. z <= y
        BY <2>5, <3>0, <4>1
      <4>3. z \div p <= y \div p
        BY <4>2, DividesWeakly
      <4> QED BY <1>2, <3>2, <4>1, <4>3
    <3>6. First(s, at) <= j
      BY <1>4, <3>4, <3>5 DEF AtLeast
    <3>7. TimeAt(s, j) = u
      <4>1. TimeAt(s, j) = start + p * j
        BY <1>1
      <4>2. p * j \in Int
        OBVIOUS
      <4> QED BY <2>5, <3>0, <3>3, <4>1, <4>2
    <3> QED BY <3>4, <3>6, <3>7
  <2> QED BY <2>5, <2>6
<1>8. s.repeatable
  BY DEF Steady
<1> QED BY <1>6, <1>7, <1>8, SteadyGoes, NextTimeFirst


-----------------------------------------------------------------------------
(* Weeks. The n-th weekday is the i-th of the list in the w-th of the      *)
(* schedule's weeks, n = L * w + i - 1.                                    *)

Weekly(s) == s.repeatable /\ s.unit = "weeks"

(* What the arithmetic of weeks takes of a schedule: its start and the     *)
(* weekday of it, its weeks in minutes, the list and how many lie before.  *)
WeekNumbers(s, start, W, p, V, L, off) ==
    /\ start \in Int /\ start = Instant(s.start) /\ W \in 0..6 /\ W = Weekday(start)
    /\ p \in Nat \ {0} /\ p = s.period /\ V = 10080 * p
    /\ L \in Nat \ {0} /\ L = Len(s.weekdays) /\ off \in 0..L

WeekList(s, W, L, off) ==
    /\ \A i \in 1..L : s.weekdays[i] \in 0..6
    /\ \A i \in 1..L : s.weekdays[i] < W <=> i <= off
    /\ \A i, j \in 1..L : i <= j => s.weekdays[i] <= s.weekdays[j]

WeekTimes(s, start, W, V, L, off) ==
    \A w \in Nat, i \in 1..L, k \in Nat :
        k + off = L * w + i - 1 => TimeAt(s, k) = start + V * w + 1440 * (s.weekdays[i] - W)

WeekGuess(s, start, V, L) ==
    \A at \in Int : InitialMultiplier(s, at) = ((at - start) \div V) * L - 1

WeekFacts(s, start, W, p, V, L, off) ==
    /\ WeekNumbers(s, start, W, p, V, L, off) /\ WeekList(s, W, L, off)
    /\ WeekTimes(s, start, W, V, L, off) /\ WeekGuess(s, start, V, L)

(* The weekdays before the start in its week are the first ones. *)
LEMMA LeadingWeekdays ==
    ASSUME NEW wd, NEW L \in Nat, NEW W \in 0..6, DOMAIN wd = 1..L, \A i \in 1..L : wd[i] \in 0..6,
           \A i, j \in 1..L : i <= j => wd[i] <= wd[j]
    PROVE  \E off \in 0..L : /\ off = Cardinality({i \in DOMAIN wd : wd[i] < W})
                             /\ \A i \in 1..L : wd[i] < W <=> i <= off
<1> DEFINE Before == {i \in DOMAIN wd : wd[i] < W}
           Rest == {i \in 1..L : ~(wd[i] < W)}
<1>1. PICK off \in 0..L : \A i \in 1..L : wd[i] < W <=> i <= off
  <2>1. CASE Rest = {}
    <3>1. \A i \in 1..L : wd[i] < W <=> i <= L
      BY <2>1
    <3>2. L \in 0..L
      OBVIOUS
    <3> QED BY <3>1, <3>2
  <2>2. CASE Rest # {}
    <3>1. PICK m \in Rest : \A k \in Rest : m <= k
      <4>1. Rest \in SUBSET Nat
        OBVIOUS
      <4> HIDE DEF Rest
      <4> QED BY <2>2, <4>1, LeastNumber
    <3>2. m \in 1..L /\ ~(wd[m] < W) /\ m - 1 \in 0..L
      BY <3>1
    <3>3. ASSUME NEW i \in 1..L PROVE wd[i] < W <=> i <= m - 1
      <4>1. CASE i <= m - 1
        <5>1. i \notin Rest
          BY <3>1, <3>2, <4>1
        <5> QED BY <4>1, <5>1
      <4>2. CASE m <= i
        <5>1. wd[m] <= wd[i] /\ wd[m] \in 0..6 /\ wd[i] \in 0..6
          BY <3>2, <4>2
        <5> QED BY <3>2, <4>2, <5>1
      <4> QED BY <3>2, <4>1, <4>2
    <3> QED BY <3>2, <3>3
  <2> QED BY <2>1, <2>2
<1>2. Before = 1..off
  BY <1>1
<1>3. Cardinality(1..off) = off
  <2>1. 1 \in Int /\ off \in Int
    OBVIOUS
  <2>2. Cardinality(1..off) = IF 1 > off THEN 0 ELSE off - 1 + 1
    BY <2>1, FS_Interval
  <2> QED BY <2>2
<1> QED BY <1>1, <1>2, <1>3

(* Every weekly schedule has them. *)
LEMMA WeekFactsHold ==
    ASSUME NEW s, Accepted(s), Weekly(s)
    PROVE  \E start \in Int, W \in 0..6, p \in Nat \ {0}, V \in Nat \ {0}, L \in Nat \ {0}, off \in Nat :
              WeekFacts(s, start, W, p, V, L, off)
<1>1. PICK start \in Int : start = Instant(s.start)
  BY InstantTyped DEF Accepted
<1>2. PICK W \in 0..6 : W = Weekday(start)
  <2>1. PICK d \in Int : d = start \div Day
    BY Divides DEF Day
  <2> QED BY <2>1 DEF Weekday
<1>3. PICK p \in Nat \ {0} : p = s.period
  BY DEF Accepted, Weekly, AllUnits
<1>4. PICK V \in Nat \ {0} : V = 10080 * p
  <2>1. 10080 * p \in Nat \ {0}
    OBVIOUS
  <2> QED BY <2>1
<1>5. s.weekdays \in Seq(0..6) /\ s.weekdays # <<>>
  BY DEF Accepted, Weekly
<1>6. PICK L \in Nat \ {0} : L = Len(s.weekdays)
  BY <1>5
<1>7. DOMAIN s.weekdays = 1..L /\ \A i \in 1..L : s.weekdays[i] \in 0..6
  BY <1>5, <1>6
<1>8. \A i, j \in 1..L : i <= j => s.weekdays[i] <= s.weekdays[j]
  BY <1>7 DEF Accepted, Weekly
<1>9. PICK off \in 0..L : /\ off = WeekOffset(s)
                          /\ \A i \in 1..L : s.weekdays[i] < W <=> i <= off
  <2>1. PICK off \in 0..L : /\ off = Cardinality({i \in DOMAIN s.weekdays : s.weekdays[i] < W})
                            /\ \A i \in 1..L : s.weekdays[i] < W <=> i <= off
    BY <1>7, <1>8, LeadingWeekdays
  <2> QED BY <1>1, <1>2, <2>1 DEF WeekOffset
<1>10. ASSUME NEW w \in Nat, NEW i \in 1..L, NEW k \in Nat, k + off = L * w + i - 1
       PROVE  TimeAt(s, k) = start + V * w + 1440 * (s.weekdays[i] - W)
  <2>1. PICK n \in Int : n = k + off
    OBVIOUS
  <2>2. L * w \in Int /\ i - 1 \in 0..L - 1
    OBVIOUS
  <2>3. n = L * w + (i - 1)
    BY <1>10, <2>1, <2>2
  <2>4. n \div L = w /\ n % L = i - 1
    BY <2>2, <2>3, DividesOnly
  <2>5. TimeAt(s, k) = WeekdayAt(s, n)
    BY <1>9, <2>1 DEF TimeAt, Weekly
  <2>6. WeekdayAt(s, n) = start + w * p * 7 * Day + (s.weekdays[(i - 1) + 1] - W) * Day
    <3>1. WeekdayAt(s, n) = Instant(s.start) + (n \div Len(s.weekdays)) * s.period * 7 * Day
                              + (s.weekdays[(n % Len(s.weekdays)) + 1] - Weekday(Instant(s.start))) * Day
      BY DEF WeekdayAt
    <3>2. WeekdayAt(s, n) = start + (n \div L) * p * 7 * Day + (s.weekdays[(n % L) + 1] - W) * Day
      BY <1>1, <1>2, <1>3, <1>6, <3>1
    <3> QED BY <2>4, <3>2
  <2>7. PICK d \in 0..6 : d = s.weekdays[i]
    BY <1>7
  <2>8. (i - 1) + 1 = i
    OBVIOUS
  <2>9. w * p * 7 * Day = V * w
    <3>1. PICK x \in Int : x = w * p
      OBVIOUS
    <3>2. V * w = 10080 * x
      BY <1>4, <3>1
    <3> QED BY <3>1, <3>2 DEF Day
  <2>10. (d - W) * Day = 1440 * (d - W)
    BY DEF Day
  <2> QED BY <2>5, <2>6, <2>7, <2>8, <2>9, <2>10
<1>11. ASSUME NEW at \in Int PROVE InitialMultiplier(s, at) = ((at - start) \div V) * L - 1
  <2>1. InitialMultiplier(s, at) = ((at - start) \div (7 * Day * p)) * L - 1
    BY <1>1, <1>3, <1>6 DEF InitialMultiplier, Weekly
  <2>2. 7 * Day * p = V
    BY <1>4 DEF Day
  <2> QED BY <2>1, <2>2
<1>12. WeekFacts(s, start, W, p, V, L, off)
  <2>1. WeekNumbers(s, start, W, p, V, L, off)
    BY <1>1, <1>2, <1>3, <1>4, <1>6, <1>9 DEF WeekNumbers
  <2>2. WeekList(s, W, L, off)
    BY <1>7, <1>8, <1>9 DEF WeekList
  <2>3. WeekTimes(s, start, W, V, L, off)
    BY <1>10 DEF WeekTimes
  <2>4. WeekGuess(s, start, V, L)
    BY <1>11 DEF WeekGuess
  <2> QED BY <2>1, <2>2, <2>3, <2>4 DEF WeekFacts
<1>13. off \in Nat
  OBVIOUS
<1> WITNESS start \in Int, W \in 0..6, p \in Nat \ {0}, V \in Nat \ {0}, L \in Nat \ {0}, off \in Nat
<1> QED BY <1>12

(* Every iteration has its place, from the offset on. *)
LEMMA WeekPlace ==
    ASSUME NEW L \in Nat \ {0}, NEW n \in Nat
    PROVE  \E w \in Nat, i \in 1..L : n = L * w + i - 1
<1>1. n \in Int
  OBVIOUS
<1>2. PICK w \in Int, r \in 0..L - 1 : n = L * w + r
  BY <1>1, Divided
<1>3. L * w \in Int
  OBVIOUS
<1>4. ~(w <= -1)
  <2> SUFFICES ASSUME w <= -1 PROVE FALSE
    OBVIOUS
  <2>1. L * w <= L * (-1)
    BY GrowsWeakly
  <2> QED BY <1>2, <1>3, <2>1
<1>5. w \in Nat /\ r + 1 \in 1..L /\ n = L * w + (r + 1) - 1
  BY <1>2, <1>3, <1>4
<1> QED BY <1>5

(* An iteration with a place in the schedule's weeks has the time of it. *)
At(s, start, W, V, L, off, k, w, i) ==
    /\ WeekTimes(s, start, W, V, L, off) /\ w \in Nat /\ i \in 1..L /\ k \in Nat
    /\ k + off = L * w + i - 1

LEMMA TimeOfPlace ==
    ASSUME NEW s, NEW start, NEW W, NEW V, NEW L, NEW off, NEW k, NEW w, NEW i,
           At(s, start, W, V, L, off, k, w, i)
    PROVE  TimeAt(s, k) = start + V * w + 1440 * (s.weekdays[i] - W)
BY DEF At, WeekTimes

(* With a weekday that does not lie before the start. *)
Placed(s, start, W, V, L, off, k, w, i, d) ==
    /\ k + off = L * w + i - 1 /\ d = s.weekdays[i] /\ (w = 0 => W <= d)
    /\ TimeAt(s, k) = start + V * w + 1440 * (d - W)

(* The place of an iteration in the schedule's weeks, and its time. *)
LEMMA WeekPlaces ==
    ASSUME NEW s, NEW start \in Int, NEW W \in 0..6, NEW p \in Nat \ {0}, NEW V \in Nat \ {0},
           NEW L \in Nat \ {0}, NEW off \in Nat, WeekFacts(s, start, W, p, V, L, off),
           NEW k \in Nat
    PROVE  \E w \in Nat, i \in 1..L, d \in 0..6 : Placed(s, start, W, V, L, off, k, w, i, d)
<1>0. WeekList(s, W, L, off) /\ WeekTimes(s, start, W, V, L, off)
  BY DEF WeekFacts
<1>1. k + off \in Nat
  OBVIOUS
<1>2. PICK w \in Nat, i \in 1..L : k + off = L * w + i - 1
  BY <1>1, WeekPlace
<1>3. PICK d \in 0..6 : d = s.weekdays[i]
  BY <1>0 DEF WeekList
<1>4. TimeAt(s, k) = start + V * w + 1440 * (d - W)
  <2>1. TimeAt(s, k) = start + V * w + 1440 * (s.weekdays[i] - W)
    <3>1. At(s, start, W, V, L, off, k, w, i)
      BY <1>0, <1>2 DEF At
    <3> QED BY <3>1, TimeOfPlace
  <2> QED BY <1>3, <2>1
<1>5. ASSUME w = 0 PROVE W <= d
  <2>1. L * w = 0
    BY <1>5
  <2>2. ~(i <= off)
    BY <1>2, <2>1
  <2>3. ~(d < W)
    BY <1>0, <1>3, <2>2 DEF WeekList
  <2> QED BY <2>3
<1>6. Placed(s, start, W, V, L, off, k, w, i, d)
  BY <1>2, <1>3, <1>4, <1>5 DEF Placed
<1> QED BY <1>6

(* The iterations arrive, two weeks of the schedule after the first guess. *)
LEMMA WeeklyGoes ==
    ASSUME NEW s, NEW at \in Int, Accepted(s), Weekly(s), 2 * Len(s.weekdays) < MaxIterations
    PROVE  /\ Goes(s) /\ First(s, at) \in Nat /\ Arrives(s, at)
           /\ \A i, j \in Nat : i <= j => TimeAt(s, i) <= TimeAt(s, j)
           /\ \A later \in Int : at <= later => First(s, at) <= First(s, later)
<1>1. PICK start \in Int, W \in 0..6, p \in Nat \ {0}, V \in Nat \ {0}, L \in Nat \ {0}, off \in Nat :
         WeekFacts(s, start, W, p, V, L, off)
  BY WeekFactsHold
<1>2. V >= 10080 /\ L = Len(s.weekdays) /\ off <= L
  <2>1. V = 10080 * p /\ p >= 1
    BY <1>1 DEF WeekFacts, WeekNumbers
  <2>2. L = Len(s.weekdays) /\ off \in 0..L
    BY <1>1 DEF WeekFacts, WeekNumbers
  <2> QED BY <2>1, <2>2
<1>0. PICK since \in Int : since = at - start
  OBVIOUS
<1>3. PICK q \in Int, r \in 0..V - 1 : q = since \div V /\ since = V * q + r
  BY Divided
<1>4. at - start = V * q + r
  BY <1>0, <1>3
<1>5. V * q \in Int /\ q * L \in Int /\ L * q = q * L
  OBVIOUS
<1>6. First(s, at) = AtLeast(0, q * L - 1)
  <2>1. InitialMultiplier(s, at) = q * L - 1
    BY <1>0, <1>1, <1>3 DEF WeekFacts, WeekGuess
  <2> QED BY <2>1 DEF First
<1>7. PICK f \in Nat : f = First(s, at) /\ q * L - 1 <= f
  <2>1. PICK m \in Int : m = q * L - 1
    BY <1>5
  <2> QED BY <1>6, <2>1, AtLeastIs
<1>8. Goes(s)
  <2> SUFFICES ASSUME NEW k \in Nat PROVE TimeAt(s, k) \in Int
    BY DEF Goes
  <2>0. PICK w \in Nat, i \in 1..L, d \in 0..6 : Placed(s, start, W, V, L, off, k, w, i, d)
    BY <1>1, WeekPlaces
  <2>1. TimeAt(s, k) = start + V * w + 1440 * (d - W)
    BY <2>0 DEF Placed
  <2>2. V * w \in Int
    OBVIOUS
  <2> QED BY <2>1, <2>2
<1>9. Arrives(s, at)
  <2>1. PICK k \in Nat : k = f + 2 * L + 1
    OBVIOUS
  <2>0. PICK w \in Nat, i \in 1..L, d \in 0..6 : Placed(s, start, W, V, L, off, k, w, i, d)
    BY <1>1, WeekPlaces
  <2>2. k + off = L * w + i - 1 /\ TimeAt(s, k) = start + V * w + 1440 * (d - W)
    BY <2>0 DEF Placed
  <2>3. L * w \in Int /\ V * w \in Int
    OBVIOUS
  <2>4. ~(w <= q + 1)
    <3> SUFFICES ASSUME w <= q + 1 PROVE FALSE
      OBVIOUS
    <3>1. L * w <= L * (q + 1)
      BY GrowsWeakly
    <3>2. L * (q + 1) = L * q + L
      OBVIOUS
    <3>3. L * w <= q * L + L
      BY <1>5, <2>3, <3>1, <3>2
    <3>4. k + off = L * w + i - 1 /\ q * L - 1 <= f /\ k = f + 2 * L + 1
      BY <1>7, <2>1, <2>2
    <3>5. off >= 0 /\ i <= L /\ f >= 0
      OBVIOUS
    <3> QED BY ONLY <1>5, <2>3, <3>3, <3>4, <3>5, f \in Nat, k \in Nat, off \in Nat,
                    L \in Nat \ {0}, i \in 1..L
  <2>5. V * (q + 1) + V <= V * w
    BY <2>4, Grows
  <2>6. V * (q + 1) = V * q + V
    OBVIOUS
  <2>7. start + V * w + 1440 * (d - W) >= at
    BY <1>2, <1>4, <1>5, <2>3, <2>5, <2>6
  <2>8. k \in f..f + MaxIterations
    BY <1>2, <2>1 DEF MaxIterations
  <2> QED BY <1>7, <2>2, <2>7, <2>8 DEF Arrives
<1>10. ASSUME NEW j \in Nat, NEW k \in Nat, j <= k PROVE TimeAt(s, j) <= TimeAt(s, k)
  <2>a. PICK w \in Nat, i \in 1..L, d \in 0..6 : Placed(s, start, W, V, L, off, j, w, i, d)
    BY <1>1, WeekPlaces
  <2>1. /\ j + off = L * w + i - 1 /\ d = s.weekdays[i]
        /\ TimeAt(s, j) = start + V * w + 1440 * (d - W)
    BY <2>a DEF Placed
  <2>b. PICK x \in Nat, l \in 1..L, e \in 0..6 : Placed(s, start, W, V, L, off, k, x, l, e)
    BY <1>1, WeekPlaces
  <2>2. /\ k + off = L * x + l - 1 /\ e = s.weekdays[l]
        /\ TimeAt(s, k) = start + V * x + 1440 * (e - W)
    BY <2>b DEF Placed
  <2>3. L * w \in Int /\ L * x \in Int /\ V * w \in Int /\ V * x \in Int
    OBVIOUS
  <2>4. ~(x < w)
    <3> SUFFICES ASSUME x < w PROVE FALSE
      OBVIOUS
    <3>1. L * x + L <= L * w
      BY Grows
    <3>2. j + off <= k + off /\ j + off = L * w + i - 1 /\ k + off = L * x + l - 1
      BY <1>10, <2>1, <2>2
    <3>3. j + off \in Int /\ k + off \in Int
      OBVIOUS
    <3> QED BY <2>3, <3>1, <3>2, <3>3
  <2>5. CASE w < x
    <3>1. V * w + V <= V * x
      BY <2>5, Grows
    <3>2. start + V * w + 1440 * (d - W) <= start + V * x + 1440 * (e - W)
      BY ONLY <1>2, <2>3, <3>1, start \in Int, W \in 0..6, d \in 0..6, e \in 0..6, V \in Nat \ {0}
    <3> QED BY <2>1, <2>2, <3>2
  <2>6. CASE w = x
    <3>1. i <= l
      BY <1>10, <2>1, <2>2, <2>3, <2>6
    <3>2. d <= e
      BY <1>1, <2>1, <2>2, <3>1 DEF WeekFacts, WeekList
    <3>3. start + V * w + 1440 * (d - W) <= start + V * w + 1440 * (e - W)
      BY ONLY <2>3, <3>2, start \in Int, W \in 0..6, d \in 0..6, e \in 0..6
    <3> QED BY <2>1, <2>2, <2>6, <3>3
  <2> QED BY <2>4, <2>5, <2>6
<1>11. ASSUME NEW later \in Int, at <= later PROVE First(s, at) <= First(s, later)
  <2>0. PICK z \in Int : z = later - start
    OBVIOUS
  <2>1. PICK v \in Int : v = z \div V
    BY Divides
  <2>2. q <= v
    <3>1. since <= z
      BY <1>0, <1>11, <2>0
    <3>2. since \div V <= z \div V
      BY <3>1, DividesWeakly
    <3> QED BY <1>3, <2>1, <3>2
  <2>3. First(s, later) = AtLeast(0, v * L - 1)
    <3>1. InitialMultiplier(s, later) = v * L - 1
      BY <1>1, <2>0, <2>1 DEF WeekFacts, WeekGuess
    <3> QED BY <3>1 DEF First
  <2>4. L * q <= L * v
    BY <2>2, GrowsWeakly
  <2>5. v * L \in Int /\ L * v = v * L
    OBVIOUS
  <2> QED BY <1>5, <1>6, <2>3, <2>4, <2>5 DEF AtLeast
<1> QED BY <1>7, <1>8, <1>9, <1>10, <1>11

(* An instant u, c days after another, that lies z weeks and some days on. *)
Later(start, c, K, W, d, z, u) ==
    /\ start \in Int /\ c \in Int /\ K \in Int /\ z \in Int /\ W \in 0..6 /\ d \in 0..6
    /\ u = start + 1440 * c /\ W + c = 7 * z + d
    /\ K = WeekOf(start) /\ W = Weekday(start)

(* Its weekday and its week. *)
LEMMA DaysLater ==
    ASSUME NEW start, NEW c, NEW K, NEW W, NEW d, NEW z, NEW u, Later(start, c, K, W, d, z, u)
    PROVE  Weekday(u) = d /\ WeekOf(u) = K + z
<1>0. start \in Int /\ c \in Int /\ K \in Int /\ z \in Int /\ W \in 0..6 /\ d \in 0..6
  BY DEF Later
<1>1. PICK D \in Int, r \in 0..1439 : D = start \div 1440 /\ start = 1440 * D + r
  BY <1>0
<1>2. PICK x \in Int : x = D + 2
  OBVIOUS
<1>3. K = x \div 7 /\ W = x % 7
  BY <1>1, <1>2 DEF Later, WeekOf, Weekday, Day
<1>4. x = 7 * K + W
  BY <1>0, <1>3
<1>5. u \div 1440 = D + c
  BY <1>0, <1>1 DEF Later
<1>6. PICK y \in Int : y = (u \div 1440) + 2
  BY <1>0, <1>5
<1>7. PICK v \in Int : v = K + z
  BY <1>0
<1>8. y = 7 * v + d
  BY <1>0, <1>2, <1>4, <1>5, <1>6, <1>7 DEF Later
<1>9. y \div 7 = v
  BY ONLY <1>8, <1>0, y \in Int, v \in Int
<1>10. y % 7 = d
  BY ONLY <1>8, <1>0, y \in Int, v \in Int
<1> QED BY <1>6, <1>7, <1>9, <1>10 DEF Weekday, WeekOf, Day

(* None is skipped, and every iteration is an occurrence. *)
LEMMA WeeklyFirst ==
    ASSUME NEW s, NEW at \in Int, Accepted(s), Weekly(s), 2 * Len(s.weekdays) < MaxIterations
    PROVE  IsNext(s, at, NextTime(s, at))
<1>1. PICK start \in Int, W \in 0..6, p \in Nat \ {0}, V \in Nat \ {0}, L \in Nat \ {0}, off \in Nat :
         WeekFacts(s, start, W, p, V, L, off)
  BY WeekFactsHold
<1>2. /\ V >= 10080 /\ L = Len(s.weekdays) /\ off <= L /\ V = 10080 * p
      /\ start = Instant(s.start) /\ p = s.period /\ W = Weekday(start)
  <2>1. V = 10080 * p /\ p >= 1
    BY <1>1 DEF WeekFacts, WeekNumbers
  <2>2. L = Len(s.weekdays) /\ off \in 0..L
    BY <1>1 DEF WeekFacts, WeekNumbers
  <2>3. start = Instant(s.start) /\ p = s.period /\ W = Weekday(start)
    BY <1>1 DEF WeekFacts, WeekNumbers
  <2> QED BY <2>1, <2>2, <2>3
<1>3. DOMAIN s.weekdays = 1..L
  BY <1>2 DEF Accepted, Weekly
<1>4. PICK K \in Int : K = WeekOf(start)
  <2>1. PICK D \in Int : D = start \div 1440
    BY Divides
  <2>2. PICK x \in Int : x = D + 2
    OBVIOUS
  <2>3. x \div 7 \in Int
    BY Divides
  <2> QED BY <2>1, <2>2, <2>3 DEF WeekOf, Day
<1>5. ASSUME NEW t \in Int
      PROVE  IsOccurrence(s, t) <=>
                /\ t >= start /\ (t - start) % 1440 = 0
                /\ \E i \in 1..L : s.weekdays[i] = Weekday(t)
                /\ (WeekOf(t) - K) % p = 0
  BY <1>2, <1>3, <1>4 DEF IsOccurrence, Weekly, Day
<1>6. ASSUME NEW k \in Nat PROVE IsOccurrence(s, TimeAt(s, k))
  <2>1. PICK w \in Nat, i \in 1..L, d \in 0..6 : Placed(s, start, W, V, L, off, k, w, i, d)
    BY <1>1, WeekPlaces
  <2>2. /\ d = s.weekdays[i] /\ (w = 0 => W <= d)
        /\ TimeAt(s, k) = start + V * w + 1440 * (d - W)
    BY <2>1 DEF Placed
  <2>3. PICK z \in Nat : z = p * w
    OBVIOUS
  <2>4. PICK c \in Int : c = 7 * z + d - W
    OBVIOUS
  <2>5. V * w = 10080 * z
    BY <1>2, <2>3
  <2>6. TimeAt(s, k) = start + 1440 * c
    <3>1. start + V * w + 1440 * (d - W) = start + 10080 * z + 1440 * (d - W)
      BY <2>5
    <3>2. start + 10080 * z + 1440 * (d - W) = start + 1440 * c
      BY ONLY <2>4, start \in Int, z \in Nat, d \in 0..6, W \in 0..6, c \in Int
    <3> QED BY <2>2, <3>1, <3>2
  <2>7. PICK t \in Int : t = start + 1440 * c
    OBVIOUS
  <2>8. c >= 0
    <3>1. CASE w = 0
      <4>1. p * w = 0
        BY <3>1
      <4> QED BY <2>2, <2>3, <2>4, <3>1, <4>1
    <3>2. CASE w # 0
      <4>1. p * 1 <= p * w
        BY <3>2, GrowsWeakly
      <4> QED BY <2>3, <2>4, <4>1
    <3> QED BY <3>1, <3>2
  <2>9. Weekday(t) = d /\ WeekOf(t) = K + z
    <3>1. W + c = 7 * z + d /\ z \in Int
      BY <2>4
    <3>2. Later(start, c, K, W, d, z, t)
      BY <1>2, <1>4, <2>7, <3>1 DEF Later
    <3> QED BY <3>2, DaysLater
  <2>10. (t - start) % 1440 = 0
    <3>1. t - start = 1440 * c + 0 /\ 0 \in 0..1440 - 1 /\ t - start \in Int
      BY <2>7
    <3> QED BY <3>1, DividesOnly
  <2>11. (WeekOf(t) - K) % p = 0
    <3>1. z = p * w + 0 /\ 0 \in 0..p - 1 /\ z \in Int /\ w \in Int
      BY <2>3
    <3>2. z % p = 0
      BY <3>1, DividesOnly
    <3>3. (K + z) - K = z
      OBVIOUS
    <3> QED BY <2>9, <3>2, <3>3
  <2>12. t >= start
    BY <2>7, <2>8
  <2>13. IsOccurrence(s, t)
    <3>1. \E l \in 1..L : s.weekdays[l] = Weekday(t)
      BY <2>2, <2>9
    <3> QED BY <1>5, <2>10, <2>11, <2>12, <3>1
  <2> QED BY <2>6, <2>7, <2>13
<1>7. PICK since \in Int : since = at - start
  OBVIOUS
<1>8. PICK q \in Int, r \in 0..V - 1 : q = since \div V /\ since = V * q + r
  BY Divided
<1>9. First(s, at) = AtLeast(0, q * L - 1)
  <2>1. InitialMultiplier(s, at) = q * L - 1
    BY <1>1, <1>7, <1>8 DEF WeekFacts, WeekGuess
  <2> QED BY <2>1 DEF First
<1>10. ASSUME NEW u \in Int, u >= at, IsOccurrence(s, u)
       PROVE  \E j \in Nat : First(s, at) <= j /\ TimeAt(s, j) = u
  <2>1. /\ u >= start /\ (u - start) % 1440 = 0 /\ (WeekOf(u) - K) % p = 0
        /\ \E i \in 1..L : s.weekdays[i] = Weekday(u)
    BY <1>5, <1>10
  <2>2. PICK c \in Int : u = start + 1440 * c
    <3>1. PICK x \in Int : x = u - start
      OBVIOUS
    <3>2. x % 1440 = 0
      BY <2>1, <3>1
    <3>3. PICK c \in Int : x = 1440 * c
      BY <3>2
    <3> QED BY <3>1, <3>3
  <2>3. c >= 0
    BY <2>1, <2>2
  <2>4. PICK i \in 1..L, d \in 0..6 : d = s.weekdays[i] /\ d = Weekday(u)
    <3>1. PICK i \in 1..L : s.weekdays[i] = Weekday(u)
      BY <2>1
    <3>2. s.weekdays[i] \in 0..6
      BY <1>1 DEF WeekFacts, WeekList
    <3> QED BY <3>1, <3>2
  <2>5. PICK z \in Int : W + c = 7 * z + d
    <3>1. PICK y \in Int : y = W + c
      OBVIOUS
    <3>2. PICK z \in Int, e \in 0..6 : y = 7 * z + e
      <4>1. y = 7 * (y \div 7) + (y % 7) /\ y \div 7 \in Int /\ y % 7 \in 0..6
        BY ONLY y \in Int
      <4> QED BY ONLY <4>1
    <3>3. e \in 0..6 /\ W + c = 7 * z + e
      BY <3>1, <3>2
    <3>4. Weekday(u) = e
      <4>1. Later(start, c, K, W, e, z, u)
        BY <1>2, <1>4, <2>2, <3>3 DEF Later
      <4> QED BY <4>1, DaysLater
    <3> QED BY <2>4, <3>3, <3>4
  <2>6. WeekOf(u) = K + z
    <3>1. Later(start, c, K, W, d, z, u)
      BY <1>2, <1>4, <2>2, <2>5 DEF Later
    <3> QED BY <3>1, DaysLater
  <2>8. z >= 0
    BY <2>3, <2>5
  <2>7. PICK w \in Nat : z = p * w
    <3>1. (K + z) - K = z
      OBVIOUS
    <3>2. z % p = 0
      BY <2>1, <2>6, <3>1
    <3>3. PICK v \in Int : v = z \div p
      BY Divides
    <3>4. z = p * v + (z % p)
      BY <3>3, Divides
    <3>5. z = p * v /\ p * v \in Int
      BY <3>2, <3>4
    <3>6. ~(v <= -1)
      <4> SUFFICES ASSUME v <= -1 PROVE FALSE
        OBVIOUS
      <4>1. p * v <= p * (-1) /\ p * (-1) = -p
        BY GrowsWeakly
      <4> QED BY <2>8, <3>5, <4>1
    <3> QED BY <3>5, <3>6
  <2>10. w = 0 => i > off
    <3> SUFFICES ASSUME w = 0 PROVE i > off
      OBVIOUS
    <3>1. z = 0
      BY <2>7
    <3>2. ~(d < W)
      BY <2>3, <2>5, <3>1
    <3>3. d < W <=> i <= off
      BY <1>1, <2>4 DEF WeekFacts, WeekList
    <3> QED BY <3>2, <3>3
  <2>11. L * w \in Int /\ L * q \in Int /\ V * w \in Int /\ V * q \in Int /\ L * q = q * L
    OBVIOUS
  <2>12. L * w + i - 1 - off >= 0 /\ (w = 0 => L * w = 0) /\ (w # 0 => L <= L * w)
    <3>1. CASE w = 0
      <4>1. L * w = 0
        BY <3>1
      <4> QED BY <2>10, <3>1, <4>1
    <3>2. CASE w # 0
      <4>1. L * 1 <= L * w
        BY <3>2, GrowsWeakly
      <4> QED BY <1>2, <2>11, <3>2, <4>1
    <3> QED BY <3>1, <3>2
  <2>13. PICK j \in Nat : j + off = L * w + i - 1
    <3>1. L * w + i - 1 - off \in Nat
      BY <2>11, <2>12
    <3>2. (L * w + i - 1 - off) + off = L * w + i - 1
      BY <2>11
    <3> QED BY <3>1, <3>2
  <2>14. TimeAt(s, j) = u
    <3>1. TimeAt(s, j) = start + V * w + 1440 * (d - W)
      <4>1. WeekTimes(s, start, W, V, L, off)
        BY <1>1 DEF WeekFacts
      <4>2. TimeAt(s, j) = start + V * w + 1440 * (s.weekdays[i] - W)
        <5>1. At(s, start, W, V, L, off, j, w, i)
          BY <2>13, <4>1 DEF At
        <5> QED BY <5>1, TimeOfPlace
      <4>3. d = s.weekdays[i]
        BY <2>4
      <4> QED BY ONLY <4>2, <4>3
    <3>2. V * w = 10080 * z
      BY <1>2, <2>7
    <3> QED BY <2>2, <2>5, <3>1, <3>2
  <2>15. q <= w
    <3> SUFFICES ASSUME w < q PROVE FALSE
      OBVIOUS
    <3>1. V * w + V <= V * q
      BY Grows
    <3>2. V * w = 10080 * z
      BY <1>2, <2>7
    <3>3. start + 1440 * c >= start + V * q
      BY <1>7, <1>8, <1>10, <2>2, <2>11
    <3>4. PICK g \in Int, h \in Int : g = V * q /\ h = V * w
      BY <2>11
    <3>5. h + V <= g /\ h = 10080 * z /\ 1440 * c >= g /\ V >= 10080
      <4>1. h + V <= g
        BY ONLY <3>1, <3>4
      <4>a. h = 10080 * z
        BY ONLY <3>2, <3>4
      <4>b. V >= 10080
        BY <1>2
      <4>2. start + 1440 * c >= start + g
        BY ONLY <3>3, <3>4
      <4> QED BY ONLY <4>1, <4>2, <4>a, <4>b, start \in Int, c \in Int, g \in Int
    <3> QED BY ONLY <2>5, <3>5, g \in Int, h \in Int, c \in Int, z \in Int,
                    W \in 0..6, d \in 0..6, V \in Nat \ {0}
  <2>16. q * L - 1 <= j
    <3>1. CASE q = w
      <4>1. CASE w = 0
        <5>1. L * w = 0 /\ i > off
          BY <2>10, <2>12, <4>1
        <5> QED BY <2>11, <2>13, <3>1, <5>1
      <4>2. CASE w # 0
        <5>1. W <= d \/ d < W
          OBVIOUS
        <5>2. V * w + 1440 * (d - W) >= V * q
          <6>1. V * w = 10080 * z
            BY <1>2, <2>7
          <6> QED BY <1>7, <1>8, <1>10, <2>2, <2>5, <2>11, <6>1
        <5>3. ~(d < W)
          BY <2>11, <3>1, <5>2
        <5>4. i > off
          <6>1. d < W <=> i <= off
            BY <1>1, <2>4 DEF WeekFacts, WeekList
          <6> QED BY <5>3, <6>1
        <5> QED BY <2>11, <2>13, <3>1, <5>4
      <4> QED BY <4>1, <4>2
    <3>2. CASE q < w
      <4>1. L * q + L <= L * w
        BY <3>2, Grows
      <4> QED BY <1>2, <2>11, <2>13, <4>1
    <3> QED BY <2>15, <3>1, <3>2
  <2>17. First(s, at) <= j
    BY <1>9, <2>11, <2>16 DEF AtLeast
  <2> QED BY <2>14, <2>17
<1>11. ASSUME NEW t \in Int, NEW u \in Between(s, at, t)
       PROVE  /\ u \in Int /\ u < t
              /\ IsOccurrence(s, u) =>
                    \E j \in Nat : First(s, at) <= j /\ TimeAt(s, j) = u /\ u >= at
  <2>1. u \in Int /\ u < t /\ u >= at
    BY BetweenIs DEF Weekly
  <2> QED BY <1>10, <2>1
<1>12. s.repeatable
  BY DEF Weekly
<1> QED BY <1>6, <1>11, <1>12, WeeklyGoes, NextTimeFirst

-----------------------------------------------------------------------------
(* Months. An iteration lies in the month it is counted to, whatever is cut. *)

Monthly(s) == s.repeatable /\ s.unit = "months"

MonthNumber(date) == 12 * (date.y - 2020) + date.m - 1

(* n months later, the time lies in the n-th month. *)
LEMMA MonthOfTime ==
    ASSUME NEW date, IsDate(date), NEW n \in Nat, NEW base \in Nat,
           base = MonthNumber(date), NEW t, t = Instant(AddMonths(date, n))
    PROVE  t \in Int /\ 1440 * DaysBefore[base + n] <= t /\ t < 1440 * DaysBefore[base + n + 1]
<1>1. PICK y \in Nat, m \in 1..12 : y = date.y /\ m = date.m /\ y >= 2020
  BY DEF IsDate
<1>2. PICK x \in Int, q \in Int, r \in 0..11 :
         x = m - 1 + n /\ q = x \div 12 /\ r = x % 12 /\ x = 12 * q + r
  OBVIOUS
<1>3. PICK ML \in 28..31 : ML = MonthLength(y + q, r + 1)
  BY MonthIsLong
<1>4. DaysBefore[base + n + 1] = DaysBefore[base + n] + ML
  <2>1. PICK a \in Nat : a = base + n
    OBVIOUS
  <2>2. a = 12 * (y - 2020 + q) + r
    <3>1. base = 12 * (y - 2020) + m - 1
      BY <1>1 DEF MonthNumber
    <3>2. x = m - 1 + n /\ x = 12 * q + r
      BY <1>2
    <3> QED BY ONLY <2>1, <3>1, <3>2, y \in Nat, m \in 1..12, n \in Nat, base \in Nat,
                    q \in Int, r \in 0..11, x \in Int, a \in Nat
  <2>3. a \div 12 = y - 2020 + q /\ a % 12 = r
    <3>1. PICK v \in Int : v = y - 2020 + q
      OBVIOUS
    <3>2. a = 12 * v + r
      BY <2>2, <3>1
    <3>3. a \div 12 = v
      BY ONLY <3>2, a \in Nat, v \in Int, r \in 0..11
    <3>4. a % 12 = r
      BY ONLY <3>2, a \in Nat, v \in Int, r \in 0..11
    <3> QED BY <3>1, <3>3, <3>4
  <2>4. (a + 1) - 1 = a /\ 2020 + (y - 2020 + q) = y + q
    OBVIOUS
  <2>5. LengthOf(a + 1) = ML
    BY <1>3, <2>3, <2>4 DEF LengthOf
  <2>6. DaysBefore[a + 1] = DaysBefore[a] + LengthOf(a + 1)
    BY DaysBeforeIs
  <2> QED BY <2>1, <2>5, <2>6
<1>5. PICK d \in Nat : d = AtMost(date.d, ML) /\ d \in 1..ML
  <2>1. date.d \in Nat /\ date.d >= 1
    <3>1. MonthLength(date.y, date.m) \in 28..31
      BY MonthIsLong
    <3> QED BY <3>1 DEF IsDate
  <2> QED BY <2>1 DEF AtMost
<1>6. PICK min \in 0..1439 : min = date.min
  BY DEF IsDate, Day
<1>7. PICK new : new = AddMonths(date, n)
  OBVIOUS
<1>8. new = [date EXCEPT !.y = y + q, !.m = r + 1, !.d = AtMost(date.d, ML)]
  BY <1>1, <1>2, <1>3, <1>7 DEF AddMonths
<1>9. new.y = y + q /\ new.m = r + 1 /\ new.d = d /\ new.min = min
  BY <1>5, <1>6, <1>8 DEF IsDate
<1>10. 12 * (new.y - 2020) + new.m - 1 = base + n
  BY <1>1, <1>2, <1>9 DEF MonthNumber
<1>11. PICK b \in Nat : b = DaysBefore[base + n]
  <2>1. base + n \in Nat
    OBVIOUS
  <2> QED BY <2>1, DaysGrow
<1>12. Instant(new) = (b + d - 1) * 1440 + min
  BY <1>9, <1>10, <1>11 DEF Instant, Day
<1>13. DaysBefore[base + n + 1] = b + ML
  BY <1>4, <1>11
<1> QED BY <1>5, <1>7, <1>11, <1>12, <1>13

(* The iterations arrive, three turns after the first guess. *)
LEMMA MonthlyGoes ==
    ASSUME NEW s, NEW at \in Int, Accepted(s), Monthly(s)
    PROVE  /\ Goes(s) /\ First(s, at) \in Nat /\ Arrives(s, at)
           /\ \A i, j \in Nat : i <= j => TimeAt(s, i) <= TimeAt(s, j)
           /\ \A later \in Int : at <= later => First(s, at) <= First(s, later)
<1>1. IsDate(s.start)
  BY DEF Accepted
<1>2. PICK base \in Nat : base = MonthNumber(s.start)
  <2>1. s.start.y \in Nat /\ s.start.y >= 2020 /\ s.start.m \in 1..12
    BY <1>1 DEF IsDate
  <2> QED BY <2>1 DEF MonthNumber
<1>3. PICK p \in Nat \ {0} : p = s.period
  BY DEF Accepted, Monthly, AllUnits
<1>4. PICK start \in Int : start = Instant(s.start)
  BY <1>1, InstantTyped
<1>5. PICK b \in Nat : b = DaysBefore[base]
  BY DaysGrow
<1>6. start < 1440 * b + 44640
  <2>1. s.start.d \in 1..31 /\ s.start.min \in 0..1439
    <3>1. PICK date : date = s.start
      OBVIOUS
    <3>2. date.d \in 1..31 /\ date.min \in 0..Day - 1
      BY ONLY <1>1, <3>1 DEF IsDate
    <3> QED BY <3>1, <3>2 DEF Day
  <2>d. PICK d \in 1..31 : d = s.start.d
    BY ONLY <2>1
  <2>2. PICK min \in 0..1439 : min = s.start.min
    BY ONLY <2>1
  <2>3. start = (b + d - 1) * 1440 + min
    BY <1>2, <1>4, <1>5, <2>d, <2>2 DEF Instant, Day, MonthNumber
  <2> QED BY ONLY <2>3, start \in Int, b \in Nat, d \in 1..31, min \in 0..1439
<1>7. ASSUME NEW i \in Nat
      PROVE  /\ p * i \in Nat /\ TimeAt(s, i) \in Int
             /\ 1440 * DaysBefore[base + p * i] <= TimeAt(s, i)
             /\ TimeAt(s, i) < 1440 * DaysBefore[base + p * i + 1]
  <2>1. PICK n \in Nat : n = p * i
    OBVIOUS
  <2>2. TimeAt(s, i) = Instant(AddMonths(s.start, n))
    BY <1>3, <2>1 DEF TimeAt, Monthly
  <2>3. PICK t : t = TimeAt(s, i)
    OBVIOUS
  <2>4. t \in Int /\ 1440 * DaysBefore[base + n] <= t /\ t < 1440 * DaysBefore[base + n + 1]
    BY <1>1, <1>2, <2>2, <2>3, MonthOfTime
  <2> QED BY ONLY <2>1, <2>3, <2>4, n \in Nat
<1>8. Goes(s)
  BY <1>7 DEF Goes
<1>9. PICK V \in Nat \ {0} : V = 40320 * p
  <2>1. 40320 * p \in Nat \ {0}
    OBVIOUS
  <2> QED BY <2>1
<1>10. ASSUME NEW a \in Int PROVE InitialMultiplier(s, a) = (a - start) \div V
  <2>1. InitialMultiplier(s, a) = (a - start) \div (28 * Day * p)
    BY <1>3, <1>4 DEF InitialMultiplier, Monthly
  <2>2. 28 * Day * p = V
    BY <1>9 DEF Day
  <2> QED BY <2>1, <2>2
<1>11. PICK since \in Int : since = at - start
  OBVIOUS
<1>12. PICK q \in Int, r \in 0..V - 1 : q = since \div V /\ since = V * q + r
  BY Divided
<1>13. First(s, at) = AtLeast(0, q)
  BY <1>10, <1>11, <1>12 DEF First
<1>14. PICK f \in Nat : f = First(s, at) /\ q <= f
  BY <1>13, AtLeastIs
<1>15. Arrives(s, at)
  <2>1. PICK n \in Nat : n = p * (f + 3)
    OBVIOUS
  <2>2. p * q + p <= p * (f + 1) /\ p * (f + 1) + p <= p * (f + 2) /\ p * (f + 2) + p <= p * (f + 3)
    BY <1>14, Grows
  <2>3. p * q \in Int /\ p * (f + 1) \in Int /\ p * (f + 2) \in Int /\ p * (f + 3) \in Int
    OBVIOUS
  <2>4. p * q + 3 * p <= n
    BY <2>1, <2>2, <2>3
  <2>5. 1440 * DaysBefore[base + n] <= TimeAt(s, f + 3) /\ TimeAt(s, f + 3) \in Int
    <3>1. f + 3 \in Nat
      OBVIOUS
    <3> QED BY <1>7, <2>1, <3>1
  <2>6. b + 28 * n <= DaysBefore[base + n] /\ DaysBefore[base + n] \in Nat
    <3>1. base + n \in Nat
      OBVIOUS
    <3> QED BY <1>5, <3>1, DaysGrow
  <2>7. V * q = 40320 * (p * q)
    BY <1>9
  <2>8. PICK v \in Int : v = p * q
    BY <2>3
  <2>9. at < start + 40320 * v + V
    <3>1. V * q = 40320 * v
      BY <2>7, <2>8
    <3>2. since < 40320 * v + V
      BY <1>12, <3>1
    <3> QED BY <1>11, <3>2
  <2>10. v + 3 * p <= n
    BY <2>4, <2>8
  <2>11. at <= TimeAt(s, f + 3)
    <3>1. PICK T \in Int, D \in Nat : T = TimeAt(s, f + 3) /\ D = DaysBefore[base + n]
      BY <2>5, <2>6
    <3>2. 1440 * D <= T /\ b + 28 * n <= D
      BY <2>5, <2>6, <3>1
    <3>3. at <= T
      BY ONLY <1>6, <1>9, <2>9, <2>10, <3>2, T \in Int, D \in Nat, at \in Int, start \in Int,
              v \in Int, p \in Nat \ {0}, n \in Nat, b \in Nat, V \in Nat \ {0}
    <3> QED BY <3>1, <3>3
  <2>12. f + 3 \in f..f + MaxIterations
    BY DEF MaxIterations
  <2> QED BY <1>14, <2>5, <2>11, <2>12 DEF Arrives
<1>16. ASSUME NEW i \in Nat, NEW j \in Nat, i <= j PROVE TimeAt(s, i) <= TimeAt(s, j)
  <2>1. CASE i = j
    BY <1>8, <2>1 DEF Goes
  <2>2. CASE i < j
    <3>1. PICK n \in Nat, k \in Nat : n = p * i /\ k = p * j
      BY <1>7
    <3>2. p * i + p <= p * j
      BY <2>2, Grows
    <3>3. n + 1 <= k
      BY <3>1, <3>2
    <3>4. PICK a \in Nat, g \in Nat : a = base + n + 1 /\ g = k - (n + 1)
      BY <3>3
    <3>5. a + g = base + k /\ base + n \in Nat /\ base + k \in Nat
      BY <3>4
    <3>6. DaysBefore[a] + 28 * g <= DaysBefore[a + g] /\ DaysBefore[a] \in Nat /\ DaysBefore[a + g] \in Nat
      BY <3>5, DaysGrow
    <3>7. TimeAt(s, i) < 1440 * DaysBefore[a] /\ TimeAt(s, i) \in Int
      BY <1>7, <3>1, <3>4
    <3>8. 1440 * DaysBefore[a + g] <= TimeAt(s, j) /\ TimeAt(s, j) \in Int
      BY <1>7, <3>1, <3>5
    <3> QED BY <3>6, <3>7, <3>8
  <2> QED BY <1>16, <2>1, <2>2
<1>17. ASSUME NEW later \in Int, at <= later PROVE First(s, at) <= First(s, later)
  <2>1. PICK z \in Int : z = later - start
    OBVIOUS
  <2>2. PICK v \in Int : v = z \div V
    BY Divides
  <2>3. q <= v
    <3>1. since <= z
      BY <1>11, <1>17, <2>1
    <3>2. since \div V <= z \div V
      BY <3>1, DividesWeakly
    <3> QED BY <1>12, <2>2, <3>2
  <2>4. First(s, later) = AtLeast(0, v)
    BY <1>10, <2>1, <2>2 DEF First
  <2> QED BY <1>13, <2>3, <2>4 DEF AtLeast
<1> QED BY <1>8, <1>14, <1>15, <1>16, <1>17

-----------------------------------------------------------------------------
(* The three together. *)

(* What read_schedule_config lets through, with fewer weekdays than the    *)
(* loop of get_next_time has turns to go past.                             *)
Sound(s) == Accepted(s) /\ (Weekly(s) => 2 * Len(s.weekdays) < MaxIterations)

(* The iterations of any schedule that is repeated. *)
LEMMA ScheduleGoes ==
    ASSUME NEW s, NEW at \in Int, Sound(s), s.repeatable
    PROVE  /\ Goes(s) /\ First(s, at) \in Nat /\ Arrives(s, at)
           /\ \A i, j \in Nat : i <= j => TimeAt(s, i) <= TimeAt(s, j)
           /\ \A later \in Int : at <= later => First(s, at) <= First(s, later)
<1>1. Accepted(s) /\ (Steady(s) \/ Weekly(s) \/ Monthly(s))
  BY DEF Sound, Accepted, AllUnits, Steady, Weekly, Monthly
<1>2. CASE Steady(s)
  BY <1>1, <1>2, SteadyGoes
<1>3. CASE Weekly(s)
  <2>1. 2 * Len(s.weekdays) < MaxIterations
    BY <1>3 DEF Sound
  <2> QED BY <1>1, <1>3, <2>1, WeeklyGoes
<1>4. CASE Monthly(s)
  BY <1>1, <1>4, MonthlyGoes
<1> QED BY <1>1, <1>2, <1>3, <1>4

(* get_next_time keeps the promise the scheduler relies on, for every      *)
(* schedule of read_schedule_config and whatever the times: it ends ahead  *)
(* of its limit of iterations, its answer is not in the past, later calls  *)
(* do not go back, and a schedule that is not repeated has one time.       *)
THEOREM CalendarKeepsItsWord ==
    ASSUME NEW s, Sound(s), NEW at \in Int, NEW later \in Int, at <= later
    PROVE  /\ NextTime(s, at) \in Int
           /\ IF s.repeatable THEN NextTime(s, at) >= at ELSE NextTime(s, at) = Instant(s.start)
           /\ NextTime(s, at) <= NextTime(s, later)
<1>1. CASE ~s.repeatable
  <2>1. Instant(s.start) \in Int
    BY InstantTyped DEF Sound, Accepted
  <2>2. NextTime(s, at) = Instant(s.start) /\ NextTime(s, later) = Instant(s.start)
    BY <1>1 DEF NextTime
  <2> QED BY <1>1, <2>1, <2>2
<1>2. CASE s.repeatable
  <2>1. /\ Goes(s) /\ First(s, at) \in Nat /\ Arrives(s, at) /\ First(s, at) <= First(s, later)
        /\ \A i, j \in Nat : i <= j => TimeAt(s, i) <= TimeAt(s, j)
    BY <1>2, ScheduleGoes
  <2>2. First(s, later) \in Nat /\ Arrives(s, later)
    BY <1>2, ScheduleGoes
  <2>3. /\ NextTime(s, at) \in Int /\ NextTime(s, at) >= at
        /\ NextTime(s, at) <= NextTime(s, later)
    BY <1>2, <2>1, <2>2, NextTimeGrows
  <2> QED BY <1>2, <2>3
<1>3. s.repeatable \in BOOLEAN
  BY DEF Sound, Accepted
<1> QED BY <1>1, <1>2, <1>3

(* Of minutes, hours, days and weeks it skips no occurrence: no instant    *)
(* from now on, before its answer, is one.                                 *)
THEOREM NextTimeIsFirst ==
    ASSUME NEW s, Sound(s), s.repeatable, s.unit # "months", NEW at \in Int
    PROVE  IsNext(s, at, NextTime(s, at))
<1>1. Accepted(s) /\ (Steady(s) \/ Weekly(s))
  BY DEF Sound, Accepted, AllUnits, Steady, Weekly
<1>2. CASE Steady(s)
  BY <1>1, <1>2, SteadyFirst
<1>3. CASE Weekly(s)
  <2>1. 2 * Len(s.weekdays) < MaxIterations
    BY <1>3 DEF Sound
  <2> QED BY <1>1, <1>3, <2>1, WeeklyFirst
<1> QED BY <1>1, <1>2, <1>3

(* The property NextIsFirst of the run, for any timetables but those of    *)
(* months, which the code gets wrong after a year.                         *)
THEOREM NextOccurrenceIsFirst ==
    ASSUME "months" \notin Units
    PROVE  ScheduleSpec => []NextIsFirst
<1> DEFINE Asked == schedule \in Timetables /\ now \in Int
<1>1. ASSUME NEW s \in Timetables
      PROVE  Sound(s) /\ s.repeatable /\ s.unit # "months" /\ ClockStep(s) \in Int
  <2>1. Sound(s)
    BY TimetablesAssumption DEF Sound
  <2>2. s.repeatable /\ s.unit # "months"
    BY DEF Timetables
  <2>3. ClockStep(s) \in Int
    BY DEF ClockStep, Day
  <2> QED BY <2>1, <2>2, <2>3
<1>2. ScheduleInit => Asked
  <2> SUFFICES ASSUME ScheduleInit PROVE Asked
    OBVIOUS
  <2>1. schedule \in Timetables
    BY DEF ScheduleInit
  <2>2. Instant(schedule.start) \in Int /\ ClockStep(schedule) \in Int
    BY <1>1, <2>1, InstantTyped DEF Sound, Accepted
  <2>3. PICK d \in {-1, 0, 1} : now = Instant(schedule.start) - 2 * ClockStep(schedule) + d
    BY DEF ScheduleInit
  <2>4. now \in Int
    BY <2>2, <2>3
  <2> QED BY <2>1, <2>4
<1>3. Asked /\ [TimePasses]_scheduleVars => Asked'
  <2> SUFFICES ASSUME Asked, [TimePasses]_scheduleVars PROVE Asked'
    OBVIOUS
  <2>1. CASE TimePasses
    <3>1. ClockStep(schedule) \in Int
      BY <1>1
    <3> QED BY <2>1, <3>1 DEF TimePasses
  <2>2. CASE UNCHANGED scheduleVars
    BY <2>2 DEF scheduleVars
  <2> QED BY <2>1, <2>2
<1>4. Asked => NextIsFirst
  <2> SUFFICES ASSUME Asked PROVE IsNext(schedule, now, NextTime(schedule, now))
    BY DEF NextIsFirst
  <2>1. Sound(schedule) /\ schedule.repeatable /\ schedule.unit # "months"
    BY <1>1
  <2> QED BY <2>1, NextTimeIsFirst
<1> QED BY <1>2, <1>3, <1>4, PTL DEF ScheduleSpec
=============================================================================
