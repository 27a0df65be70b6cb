---------------------------- MODULE ScheduleService ----------------------------
(***************************************************************************)
(* ScheduleService and Scheduler: jobs kept in one file each, a queue in   *)
(* memory, one thread ("sched") that executes what is due, and the IOLoop  *)
(* ("main") that creates jobs. Files are deleted from outside: that is how *)
(* a job is cancelled. The server may stop between any two steps.          *)
(***************************************************************************)
EXTENDS Integers, Sequences, FiniteSets

CONSTANTS
    Schedules,          \* records [repeatable, start, end, arg]
    NextDue(_, _),     \* ScheduleConfig.get_next_time at a moment
    MaxId,              \* bound: jobs created
    MaxClock,           \* bound: the moments of a run
    MaxFaults           \* bound: stops of the server, failures to write a file, and
                        \* starts that raise when the script runs already

Clock == 0..MaxClock
Ids == 1..MaxId
Threads == {"main", "sched"}

ASSUME BoundsAssumption ==
    /\ MaxId \in Nat \ {0} /\ MaxClock \in Nat /\ MaxFaults \in Nat

ASSUME SchedulesAssumption ==
    /\ Schedules # {}
    /\ \A s \in Schedules : /\ s.repeatable \in BOOLEAN /\ s.start \in Int /\ s.arg \in Int
                            /\ s.end \in {"none", "end_datetime", "max_executions"}

ASSUME NextDueAssumption ==
    \A s \in Schedules, at \in Clock :
        /\ NextDue(s, at) \in Int
        /\ IF s.repeatable THEN NextDue(s, at) >= at ELSE NextDue(s, at) = s.start
        /\ \A later \in Clock : at <= later => NextDue(s, at) <= NextDue(s, later)

VARIABLES
    clock,      \* the moment
    nextId,     \* IdGenerator._next_id
    config,     \* the schedule of each job
    count,      \* executions_count of the job in memory
    file,       \* its file: "absent", "broken" (opened, not yet written) or "whole"
    saved,      \* executions_count in the file
    queue,      \* the events of sched.scheduler
    pc, job,    \* per thread: where it is, and the job in its hands
    due,        \* the time of the event the scheduler thread took
    todo,       \* the jobs that the constructor still has to schedule
    runs,       \* history: the due times for which the script was started
    faults

vars == <<clock, nextId, config, count, file, saved, queue, pc, job, due, todo,
          runs, faults>>
memory == <<config, count, nextId>>
disk == <<file, saved>>

Event == [id : Ids, due : Int]

Goto(t, label) == pc' = [pc EXCEPT ![t] = label]

Init ==
    /\ clock = 0
    /\ nextId = 1
    /\ config = [i \in Ids |-> CHOOSE s \in Schedules : TRUE]
    /\ count = [i \in Ids |-> 0]
    /\ file = [i \in Ids |-> "absent"]
    /\ saved = [i \in Ids |-> 0]
    /\ queue = {}
    /\ pc = [t \in Threads |-> "idle"]
    /\ job = [t \in Threads |-> 1]
    /\ due = 0
    /\ todo = {}
    /\ runs = [i \in Ids |-> <<>>]
    /\ faults = 0

Tick ==
    /\ clock < MaxClock
    /\ clock' = clock + 1
    /\ UNCHANGED <<memory, disk, queue, pc, job, due, todo, runs, faults>>

-----------------------------------------------------------------------------
(* create_job, up to save_job. A request that fails the checks changes nothing. *)

CreateJob(s) ==
    /\ pc["main"] = "idle"
    /\ nextId <= MaxId
    /\ s.repeatable \/ s.start >= clock
    /\ s.end = "end_datetime" => s.start <= s.arg
    /\ s.end = "max_executions" => s.arg > 0
    /\ nextId' = nextId + 1
    /\ config' = [config EXCEPT ![nextId] = s]
    /\ count' = [count EXCEPT ![nextId] = 0]
    /\ job' = [job EXCEPT !["main"] = nextId]
    /\ Goto("main", "open")
    /\ runs' = [runs EXCEPT ![nextId] = <<>>]
    /\ UNCHANGED <<clock, disk, queue, due, todo, faults>>

-----------------------------------------------------------------------------
(* save_job: write_file truncates the file when it opens it and then writes it. *)

OpenFile(t) ==
    /\ pc[t] = "open"
    /\ file' = [file EXCEPT ![job[t]] = "broken"]
    /\ Goto(t, "write")
    /\ UNCHANGED <<clock, memory, saved, queue, job, due, todo, runs, faults>>

(* What is written to a file deleted meanwhile is lost. *)
WriteFile(t) ==
    /\ pc[t] = "write"
    /\ IF file[job[t]] = "absent"
       THEN UNCHANGED disk
       ELSE /\ file' = [file EXCEPT ![job[t]] = "whole"]
            /\ saved' = [saved EXCEPT ![job[t]] = count[job[t]]]
    /\ Goto(t, "schedule")
    /\ UNCHANGED <<clock, memory, queue, job, due, todo, runs, faults>>

(* create_job fails with the exception, _execute_job catches it. *)
SaveFails(t) ==
    /\ pc[t] \in {"open", "write"}
    /\ faults < MaxFaults
    /\ faults' = faults + 1
    /\ Goto(t, IF t = "main" THEN "idle" ELSE "schedule")
    /\ UNCHANGED <<clock, memory, disk, queue, job, due, todo, runs>>

-----------------------------------------------------------------------------
(* schedule_job *)

(* The early returns of schedule_job, for a job that counts n executions. *)
HasNext(i, n) ==
    LET s == config[i]
    IN  /\ s.repeatable \/ s.start >= clock
        /\ s.end = "max_executions" => n < s.arg
        /\ s.end = "end_datetime" => NextDue(s, clock) <= s.arg

(* Mutant: the next time after the event, and not after now. *)
EnqueueFromDue(i) ==
    queue' = IF HasNext(i, count[i])
             THEN queue \union {[id |-> i, due |-> NextDue(config[i], due)]}
             ELSE queue

Enqueue(i) ==
    queue' = IF HasNext(i, count[i])
             THEN queue \union {[id |-> i, due |-> NextDue(config[i], clock)]}
             ELSE queue

(* The time is past the event's when it is read to reschedule the job. *)
ScheduleJob(t) ==
    /\ pc[t] = "schedule"
    /\ t = "sched" => clock > due
    /\ Enqueue(job[t])
    /\ Goto(t, "idle")
    /\ UNCHANGED <<clock, memory, disk, job, due, todo, runs, faults>>

-----------------------------------------------------------------------------
(* The scheduler thread: run() and _execute_job. *)

(* Mutant: an event whose time has gone by is left in the queue. *)
TakeOnTime ==
    /\ pc["sched"] = "idle"
    /\ \E e \in queue :
          /\ e.due = clock
          /\ queue' = queue \ {e}
          /\ job' = [job EXCEPT !["sched"] = e.id]
          /\ due' = e.due
    /\ Goto("sched", "check")
    /\ UNCHANGED <<clock, memory, disk, todo, runs, faults>>

(* The head of the heap, once it is due. *)
TakeDue ==
    /\ pc["sched"] = "idle"
    /\ \E e \in queue :
          /\ e.due <= clock
          /\ \A f \in queue : e.due <= f.due
          /\ queue' = queue \ {e}
          /\ job' = [job EXCEPT !["sched"] = e.id]
          /\ due' = e.due
    /\ Goto("sched", "check")
    /\ UNCHANGED <<clock, memory, disk, todo, runs, faults>>

CheckFile ==
    /\ pc["sched"] = "check"
    /\ Goto("sched", IF file[job["sched"]] = "absent" THEN "idle" ELSE "start")
    /\ UNCHANGED <<clock, memory, disk, queue, job, due, todo, runs, faults>>

(* Mutant: the count is left to the next save. *)
StartUncounted ==
    LET i == job["sched"]
    IN  /\ pc["sched"] = "start"
        /\ runs' = [runs EXCEPT ![i] = Append(@, due)]
        /\ Goto("sched", IF config[i].repeatable THEN "open" ELSE "schedule")
        /\ UNCHANGED <<clock, memory, disk, queue, job, due, todo, faults>>

(* Mutant: the job is scheduled when its script is started and once more after. *)
StartAndSchedule ==
    LET i == job["sched"]
    IN  /\ pc["sched"] = "start"
        /\ runs' = [runs EXCEPT ![i] = Append(@, due)]
        /\ Goto("sched", "schedule")
        /\ Enqueue(i)
        /\ UNCHANGED <<clock, memory, disk, job, due, todo, faults>>

StartScript ==
    LET i == job["sched"]
    IN  /\ pc["sched"] = "start"
        /\ runs' = [runs EXCEPT ![i] = Append(@, due)]
        /\ IF config[i].repeatable
           THEN /\ count' = [count EXCEPT ![i] = @ + 1]
                /\ Goto("sched", "open")
           ELSE /\ UNCHANGED count
                /\ Goto("sched", "schedule")
        /\ UNCHANGED <<clock, nextId, config, disk, queue, job, due, todo, faults>>

(* Mutant: the exception leaves _execute_job. *)
StartEscapes ==
    /\ pc["sched"] = "start"
    /\ Goto("sched", "idle")
    /\ UNCHANGED <<clock, memory, disk, queue, job, due, todo, runs, faults>>

(* load_config_model or validate_script_config raises, or no process starts. *)
StartFails ==
    /\ pc["sched"] = "start"
    /\ Goto("sched", "schedule")
    /\ UNCHANGED <<clock, memory, disk, queue, job, due, todo, runs, faults>>

(* The script runs, and then ScriptExecutor.start (its reader, the transfer *)
(* of the parameters) or the finish listener that cleans up raises: the     *)
(* execution is not counted and nothing is saved.                           *)
StartRaises ==
    LET i == job["sched"]
    IN  /\ pc["sched"] = "start"
        /\ faults < MaxFaults
        /\ faults' = faults + 1
        /\ runs' = [runs EXCEPT ![i] = Append(@, due)]
        /\ Goto("sched", "schedule")
        /\ UNCHANGED <<clock, memory, disk, queue, job, due, todo>>

-----------------------------------------------------------------------------
(* The outside: files are deleted, the server stops and comes back. *)

DeleteFile(i) ==
    /\ file[i] # "absent"
    /\ file' = [file EXCEPT ![i] = "absent"]
    /\ UNCHANGED <<clock, memory, saved, queue, pc, job, due, todo, runs, faults>>

Crash ==
    /\ pc["main"] # "down"
    /\ faults < MaxFaults
    /\ faults' = faults + 1
    /\ pc' = [t \in Threads |-> "down"]
    /\ queue' = {}
    /\ todo' = {}
    /\ UNCHANGED <<clock, memory, disk, job, due, runs>>

(* Mutant: the greatest id of the files is given again. *)
RestartLastId ==
    LET found == {i \in Ids : file[i] = "whole"}
    IN  /\ pc["main"] = "down"
        /\ clock < MaxClock
        /\ clock' = clock + 1
        /\ todo' = found
        /\ count' = [i \in Ids |-> IF i \in found THEN saved[i] ELSE count[i]]
        /\ \E n \in 0..MaxId : /\ n = 0 \/ n \in found
                               /\ \A i \in found : i <= n
                               /\ nextId' = n
        /\ pc' = [t \in Threads |-> IF t = "main" THEN "restore" ELSE "idle"]
        /\ UNCHANGED <<config, disk, queue, job, due, runs, faults>>

(* restore_jobs: a file that cannot be parsed gives neither a job nor an id. *)
Restart ==
    LET found == {i \in Ids : file[i] = "whole"}
    IN  /\ pc["main"] = "down"
        /\ clock < MaxClock
        /\ clock' = clock + 1
        /\ todo' = found
        /\ count' = [i \in Ids |-> IF i \in found THEN saved[i] ELSE count[i]]
        /\ \E n \in 1..MaxId + 1 : /\ n = 1 \/ n - 1 \in found
                                   /\ \A i \in found : i < n
                                   /\ nextId' = n
        /\ pc' = [t \in Threads |-> IF t = "main" THEN "restore" ELSE "idle"]
        /\ UNCHANGED <<config, disk, queue, job, due, runs, faults>>

(* The constructor schedules the jobs one by one; the thread runs already. *)
RestoreJob ==
    /\ pc["main"] = "restore"
    /\ IF todo = {}
       THEN /\ Goto("main", "idle")
            /\ UNCHANGED <<queue, todo>>
       ELSE /\ \E i \in todo : Enqueue(i) /\ todo' = todo \ {i}
            /\ UNCHANGED pc
    /\ UNCHANGED <<clock, memory, disk, job, due, runs, faults>>

-----------------------------------------------------------------------------
Save(t) == OpenFile(t) \/ WriteFile(t) \/ SaveFails(t)

MainStep ==
    \/ \E s \in Schedules : CreateJob(s)
    \/ Save("main")
    \/ ScheduleJob("main")
    \/ RestoreJob

SchedStep ==
    \/ TakeDue \/ CheckFile \/ StartScript \/ StartFails \/ StartRaises
    \/ Save("sched") \/ ScheduleJob("sched")

Outside == Tick \/ (\E i \in Ids : DeleteFile(i)) \/ Crash \/ Restart

Next == MainStep \/ SchedStep \/ Outside

Spec == Init /\ [][Next]_vars

(* The time passes and the scheduler thread runs; nothing else is assumed. *)
FairSpec == Spec /\ WF_vars(Tick) /\ WF_vars(SchedStep)

-----------------------------------------------------------------------------
\* Jobs, files, the queue and the two threads stay in the states they have in
\* the code: the one type invariant.
TypeOK ==
    /\ clock \in Clock
    /\ nextId \in 1..MaxId + 1
    /\ config \in [Ids -> Schedules]
    /\ count \in [Ids -> Nat]
    /\ file \in [Ids -> {"absent", "broken", "whole"}]
    /\ saved \in [Ids -> Nat]
    /\ queue \subseteq Event
    /\ pc \in [Threads -> {"idle", "check", "start", "open", "write", "schedule",
                           "restore", "down"}]
    /\ job \in [Threads -> Ids]
    /\ due \in Int
    /\ todo \subseteq Ids
    /\ runs \in [Ids -> Seq(Int)]
    /\ faults \in 0..MaxFaults

Up == pc["main"] # "down"

(* The job is in the hands of a thread that may still schedule it. *)
InHand(t, i) == job[t] = i /\ pc[t] \notin {"idle", "restore", "down"}

(* A job is in flight once at the most: it has one event in the queue, or  *)
(* it waits for the constructor, or one thread is about to schedule it. If *)
(* it were twice, it would run twice as often from then on.                *)
QueuedOnce ==
    \A i \in Ids :
        /\ \A e, f \in queue : e.id = i /\ f.id = i => e = f
        /\ (\E e \in queue : e.id = i) =>
               i \notin todo /\ ~InHand("main", i) /\ ~InHand("sched", i)
        /\ ~(InHand("main", i) /\ InHand("sched", i))
        /\ i \in todo => ~InHand("main", i) /\ ~InHand("sched", i)

(* Every job is in its place, and in one only, in the states of the code.  *)
JobsInPlace == TypeOK /\ QueuedOnce

(* No occurrence is executed twice, though a late job is rescheduled from  *)
(* now and a restarted server computes its times again.                    *)
RunsInOrder ==
    \A i \in Ids : \A m, n \in DOMAIN runs[i] : m < n => runs[i][m] < runs[i][n]

(* A repeatable job keeps to its end, but for three causes that cost one   *)
(* execution more each: a crash between the start of the script and the    *)
(* saving of the count, a count that could not be saved, and a start that  *)
(* raised when the script ran already, which is never counted.             *)
EndRespected ==
    \A i \in Ids :
        /\ config[i].end = "max_executions" /\ config[i].repeatable =>
               \A n \in DOMAIN runs[i] : n <= config[i].arg + faults
        /\ config[i].end = "end_datetime" =>
               \A n \in DOMAIN runs[i] : runs[i][n] <= config[i].arg

(* No job is forgotten: while the server runs, a job that has a whole file *)
(* and executions left is queued, about to be queued or being executed,    *)
(* whatever failed before.                                                 *)
NotForgotten ==
    Up => \A i \in Ids :
              file[i] = "whole" /\ HasNext(i, count[i]) =>
                  \/ \E e \in queue : e.id = i
                  \/ i \in todo
                  \/ \E t \in Threads : InHand(t, i)

(* A series of executions goes on to its end, and no further.              *)
SeriesKept == EndRespected /\ NotForgotten

Overdue(i) == \E e \in queue : e.id = i /\ e.due < MaxClock

(* What is due is taken from the queue, however many jobs came before it:  *)
(* one thread executes them all. (The last moment of a run is excepted.)   *)
DueIsTaken == \A i \in Ids : Overdue(i) ~> ~Overdue(i)

(* A new job gets an id, and so a file, that no other job has: the ids of  *)
(* restore_jobs are "list of ALL ids, including broken configs".           *)
IdsAreFresh == pc["main"] = "open" => file[job["main"]] = "absent"
=============================================================================
