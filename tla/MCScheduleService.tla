-------------------------- MODULE MCScheduleService --------------------------
(***************************************************************************)
(* Instances of ScheduleService for TLC, with the times of ScheduleConfig: *)
(* minutes from the beginning of the run.                                  *)
(***************************************************************************)
EXTENDS ScheduleService

Calendar == INSTANCE ScheduleConfig

MinutesNextTime(s, at) ==
    Calendar!NextTime(
        [repeatable |-> s.repeatable, unit |-> "minutes", period |-> s.period,
         start |-> [y |-> 2020, m |-> 1, d |-> 1, min |-> s.start], weekdays |-> <<>>], at)

Once(start) ==
    [repeatable |-> FALSE, start |-> start, end |-> "none", arg |-> 0, period |-> 1]

Every(period, start, end, arg) ==
    [repeatable |-> TRUE, start |-> start, end |-> end, arg |-> arg, period |-> period]

(* One of each kind; the last two would be refused. *)
AllKinds ==
    {Once(1), Every(1, 0, "none", 0), Every(2, 1, "end_datetime", 3),
     Every(1, 1, "max_executions", 2), Every(1, 3, "end_datetime", 2),
     Every(1, 0, "max_executions", 0)}

Endless == {Every(1, 0, "none", 0), Once(2)}
=============================================================================
