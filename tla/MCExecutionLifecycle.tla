------------------------ MODULE MCExecutionLifecycle ------------------------
(***************************************************************************)
(* Instances of ExecutionLifecycle for TLC.                                *)
(***************************************************************************)
EXTENDS ExecutionLifecycle

CONSTANTS e1, e2, e3

(* HTTP starts e1 on a terminal and e3 without one, the scheduler e2, which *)
(* cleans itself up.                                                       *)
SomeRequests ==
    ({"stop", "cleanup", "socket"} \X {e1}) \cup ({"stop", "kill"} \X {e2})
    \cup ({"stop", "cleanup"} \X {e3})
=============================================================================
