---------------------------- MODULE TabExecutors ----------------------------
(***************************************************************************)
(* The executors of one browser tab, which show the user's executions, and *)
(* the server they ask. Requests, answers and the events of the sockets    *)
(* come in any order; each handler of the tab is a step, and so is what    *)
(* Vue does at the end of it (View): the page watches the status of the    *)
(* executor it shows and has the execution cleaned up once it is over.     *)
(*                                                                         *)
(* An executor is an object of its own: one per execution that was active  *)
(* when the page was loaded and one per start. It is reached by an id in   *)
(* two ways, as a module of the store (modules, where 0 is the key 'temp') *)
(* and as an entry of the list the user sees (executors).                  *)
(***************************************************************************)
EXTENDS Naturals, FiniteSets

CONSTANTS ScriptNames,\* the names of the scripts
          Older,      \* ids of executions from before the page was loaded
          Newer,      \* ids the server may give to executions of this tab
          MaxBreaks,  \* connections and answers that are lost
          MaxActs     \* of the user, but for starts

ASSUME TabAssumption ==
    /\ Older \cup Newer \subseteq Nat \ {0}
    /\ \A o \in Older, n \in Newer : o < n
    /\ MaxBreaks \in Nat /\ MaxActs \in Nat

VARIABLES srv, active, post, loading, cleanups,
          exec, tab, selected, shown, breaks, acts, finishedHere, mixed

tabVars == <<srv, active, post, loading, cleanups,
             exec, tab, selected, shown, breaks, acts, finishedHere, mixed>>

Ids    == Older \cup Newer
Temp   == 0
Started == {"started"} \X (1..Cardinality(Newer))
Loads  == {"loaded"} \X Older
Doubles == {"loaded"} \X Newer
Objects == Started \cup Loads \cup Doubles
Nobody == <<"nobody", 0>>

Final == {"finished", "disconnected", "error"}

(* An executor is made with no id and no socket, in the state initializing *)
Executor(script) ==
    [id |-> 0, script |-> script, status |-> "initializing",
     kill |-> "none", socket |-> "none"]

AnyScript == CHOOSE s \in ScriptNames : TRUE

Unmade == [Executor(AnyScript) EXCEPT !.status = "unmade"]

Unstarted == [script |-> AnyScript, life |-> "none"]

Over(id) == srv[id].life = "over"

(* The least of them, if there is one. *)
Lowest(ids) == {i \in ids : \A j \in ids : i <= j}

TabInit ==
    /\ srv \in {s \in [Ids -> [script : ScriptNames, life : {"none", "running"}]] :
                  \A id \in Ids : id \in Newer => s[id] = Unstarted}
    /\ active = {id \in Ids : srv[id].life = "running"}
    /\ post = [o \in Started |-> [at |-> "none", id |-> 0]]
    /\ loading = [at |-> "list", ids |-> {}, left |-> {}, choose |-> FALSE]
    /\ cleanups = {}
    /\ exec = [o \in Objects |-> Unmade]
    /\ tab = [modules |-> [k \in Ids \cup {Temp} |-> Nobody],
              executors |-> [k \in Ids |-> Nobody], current |-> Nobody]
    /\ selected \in ScriptNames
    /\ shown = "none"
    /\ breaks \in 0..MaxBreaks /\ acts = 0 /\ finishedHere = {} /\ mixed = FALSE
-----------------------------------------------------------------------------
(* What a handler does to the store.                                       *)

StatusOf(o) == IF o = Nobody THEN "none" ELSE exec[o].status

(* An event names its executor by the id: it gets to the module that is    *)
(* registered under it now, if there is one.                               *)
SetStatus(ex, key, status) ==
    LET o == tab.modules[key]
    IN  IF o = Nobody THEN ex
        ELSE [ex EXCEPT ![o].status = status,
                        ![o].kill = IF @ = "counting" THEN "none" ELSE @]

(* start and reconnect: the executor is shown as executing, and opens its  *)
(* socket unless it has one.                                               *)
Attached(e, id) ==
    [e EXCEPT !.id = id, !.status = "executing",
              !.kill = IF @ = "counting" THEN "none" ELSE @,
              !.socket = IF @ = "none" THEN "open" ELSE @]

RemoveExecutor(t, id) ==
    IF t.executors[id] = Nobody THEN t
    ELSE [t EXCEPT !.modules[id] = Nobody, !.executors[id] = Nobody]

(* Mutant: the executor shown before is removed although it still runs.    *)
SelectAndRemove(t, ex, o) ==
    LET c == t.current
    IN  [(IF c # Nobody /\ ex[c].id # 0 THEN RemoveExecutor(t, ex[c].id) ELSE t)
            EXCEPT !.current = o]

(* The executor shown before is removed if it has nothing more to tell,    *)
(* unless it is the same execution.                                        *)
SelectExecutor(t, ex, o) ==
    LET c    == t.current
        same == c # Nobody /\ o # Nobody /\ ex[o].id # 0 /\ ex[o].id = ex[c].id
    IN  IF same THEN t
        ELSE [(IF c # Nobody /\ ex[c].id # 0 /\ ex[c].status \in Final
                 THEN RemoveExecutor(t, ex[c].id) ELSE t) EXCEPT !.current = o]

(* The watcher of the status, after a handler: it sees a change only.      *)
View ==
    LET o  == tab'.current
        id == IF o = Nobody THEN 0 ELSE exec'[o].id
    IN  /\ shown' = IF o = Nobody THEN "none" ELSE exec'[o].status
        /\ cleanups' =
              IF shown' = "finished" /\ shown # "finished" /\ tab'.modules[id] # Nobody
              THEN cleanups \cup {exec'[tab'.modules[id]].id} ELSE cleanups

(* History: the executions that turned finished before the user's eyes.    *)
Watch ==
    LET turned(o) == exec[o].status # "finished" /\ exec'[o].status = "finished"
    IN  finishedHere' = finishedHere \cup
            {exec[o].id : o \in {c \in Objects : c = tab.current /\ turned(c)}}

Rendered == View /\ Watch
-----------------------------------------------------------------------------
(* The user.                                                               *)

Listed(t, ex, s) == {id \in Ids : t.executors[id] # Nobody /\ ex[t.executors[id]].script = s}

SelectScript(s) ==
    /\ acts < MaxActs /\ acts' = acts + 1
    /\ s # selected
    /\ selected' = s
    /\ \/ /\ Listed(tab, exec, s) = {}
          /\ tab' = SelectExecutor(tab, exec, Nobody)
       \/ \E id \in Lowest(Listed(tab, exec, s)) :
             tab' = SelectExecutor(tab, exec, tab.executors[id])
    /\ UNCHANGED <<srv, active, post, loading, exec, breaks, mixed>>
    /\ Rendered

(* A tab of the list, or the one for a new execution.                      *)
ClickTab(o) ==
    /\ acts < MaxActs /\ acts' = acts + 1
    /\ o = Nobody \/ \E id \in Listed(tab, exec, selected) : o = tab.executors[id]
    /\ o # tab.current
    /\ tab' = SelectExecutor(tab, exec, o)
    /\ UNCHANGED <<srv, active, post, loading, exec, selected, breaks, mixed>>
    /\ Rendered

ExecuteEnabled == StatusOf(tab.current) \in Final \cup {"none"}

Waiting(o) == post[o].at \in {"sent", "created", "failed"}

StartExecution(o) ==
    /\ ExecuteEnabled
    /\ post[o].at = "none" /\ \A p \in Started : p[2] < o[2] => post[p].at # "none"
    /\ post' = [post EXCEPT ![o].at = "sent"]
    /\ exec' = [exec EXCEPT ![o] = Executor(selected)]
    /\ tab' = SelectExecutor([tab EXCEPT !.modules[Temp] = o], exec', o)
    /\ mixed' = (mixed \/ \E p \in Started : Waiting(p))
    /\ UNCHANGED <<srv, active, loading, selected, breaks, acts>>
    /\ Rendered

Counting(e) == [e EXCEPT !.kill = IF @ = "none" THEN "counting" ELSE @]

(* The first press on Stop asks the server to stop the script and starts   *)
(* the timer; a press on Kill, when that is over, asks the server only.    *)
StopScript ==
    /\ acts < MaxActs /\ acts' = acts + 1
    /\ StatusOf(tab.current) = "executing" /\ exec[tab.current].kill = "none"
    /\ LET o == tab.modules[exec[tab.current].id]
       IN  o # Nobody /\ exec' = [exec EXCEPT ![o] = Counting(@)]
    /\ UNCHANGED <<srv, active, post, loading, selected, tab, breaks, mixed>>
    /\ Rendered

(* stopAll, before a logout that the user has confirmed.                   *)
StopAll ==
    LET running == {o \in Objects : exec[o].status = "executing"
                                    /\ \E id \in Ids : tab.executors[id] = o}
    IN  /\ \E o \in running : exec[o].kill = "none"
        /\ acts < MaxActs /\ acts' = acts + 1
        /\ exec' = [o \in Objects |-> IF o \in running THEN Counting(exec[o])
                                      ELSE exec[o]]
        /\ UNCHANGED <<srv, active, post, loading, selected, tab, breaks, mixed>>
        /\ Rendered

(* Five ticks of the timer.                                                *)
TickKillInterval(o) ==
    /\ exec[o].kill = "counting"
    /\ exec' = [exec EXCEPT ![o].kill =
                   IF exec[o].status = "executing" THEN "enabled" ELSE "none"]
    /\ UNCHANGED <<srv, active, post, loading, selected, tab, breaks, mixed, acts>>
    /\ Rendered
-----------------------------------------------------------------------------
(* A start: the server's handler, and the answer.                          *)

CreateExecution(o) ==
    /\ post[o].at = "sent"
    /\ \E id \in Lowest({i \in Newer : srv[i].life = "none"}) :
           /\ srv' = [srv EXCEPT ![id] = [script |-> exec[o].script, life |-> "running"]]
           /\ active' = active \cup {id}
           /\ post' = [post EXCEPT ![o] = [at |-> "created", id |-> id]]
    /\ UNCHANGED <<loading, cleanups, exec, tab, selected, shown,
                   breaks, finishedHere, mixed, acts>>

(* The server refuses, or its answer is lost: the tab cannot tell.         *)
FailStart(o) ==
    /\ \/ post[o].at = "sent" /\ UNCHANGED breaks
       \/ post[o].at = "created" /\ breaks < MaxBreaks /\ breaks' = breaks + 1
    /\ post' = [post EXCEPT ![o].at = "failed"]
    /\ UNCHANGED <<srv, active, loading, cleanups, exec, tab, selected, shown,
                   finishedHere, mixed, acts>>

(* The module 'temp' goes, whosever it is, and the executor gets its id.   *)
StartAnswered(o) ==
    /\ post[o].at = "created"
    /\ LET id == post[o].id
       IN  /\ exec' = [exec EXCEPT ![o] = Attached(@, id)]
           /\ tab' = [tab EXCEPT !.modules = [@ EXCEPT ![Temp] = Nobody, ![id] = o],
                                 !.executors[id] = o]
    /\ post' = [post EXCEPT ![o].at = "done"]
    /\ UNCHANGED <<srv, active, loading, selected, breaks, mixed, acts>>
    /\ Rendered

(* Mutant: a refused start is not told to its executor.                    *)
RefusedSilently(o) ==
    /\ post[o].at = "failed"
    /\ tab' = [tab EXCEPT !.modules[Temp] = Nobody]
    /\ post' = [post EXCEPT ![o].at = "done"]
    /\ UNCHANGED <<srv, active, loading, exec, selected, breaks, mixed, acts>>
    /\ Rendered

StartRefused(o) ==
    /\ post[o].at = "failed"
    /\ exec' = SetStatus(exec, Temp, "error")
    /\ tab' = [tab EXCEPT !.modules[Temp] = Nobody]
    /\ post' = [post EXCEPT ![o].at = "done"]
    /\ UNCHANGED <<srv, active, loading, selected, breaks, mixed, acts>>
    /\ Rendered
-----------------------------------------------------------------------------
(* The executions that were active when the page was loaded.               *)

ListActive ==
    /\ loading.at = "list"
    /\ \/ /\ loading' = [at |-> "configs", ids |-> active, left |-> active,
                         choose |-> tab.current = Nobody]
          /\ mixed' = (mixed \/ active \cap Newer # {})
          /\ UNCHANGED breaks
       \/ /\ breaks < MaxBreaks /\ breaks' = breaks + 1
          /\ loading' = [loading EXCEPT !.at = "failed"]
          /\ UNCHANGED mixed
    /\ UNCHANGED <<srv, active, post, cleanups, exec, tab, selected, shown,
                   finishedHere, acts>>

(* The answer with the script of one of them, which makes its executor;    *)
(* with the last one, an executor of the selected script is shown. It may  *)
(* be one that the user has left in the meantime, after its end: then it   *)
(* is shown although it is in the list no more.                            *)
LoadConfig(id) ==
    /\ loading.at = "configs" /\ id \in loading.left
    /\ LET found == id \in active
           made  == [tab EXCEPT !.modules[id] = <<"loaded", id>>,
                                !.executors[id] = <<"loaded", id>>]
           fits  == {i \in loading.ids : srv[i].script = selected}
           last  == /\ found /\ loading.left = {id} /\ loading.choose
                    /\ tab.current = Nobody /\ fits # {}
       IN  /\ loading' = [loading EXCEPT !.left = @ \ {id}, !.choose = @ /\ found]
           /\ exec' = IF found
                      THEN [exec EXCEPT ![<<"loaded", id>>] =
                               Attached(Executor(srv[id].script), id)]
                      ELSE exec
           /\ \/ ~found /\ tab' = tab /\ mixed' = mixed
              \/ found /\ ~last /\ tab' = made /\ mixed' = mixed
              \/ /\ last
                 /\ \E i \in Lowest(fits) :
                       /\ tab' = SelectExecutor(made, exec', <<"loaded", i>>)
                       /\ mixed' = (mixed \/ made.modules[i] # <<"loaded", i>>)
    /\ UNCHANGED <<srv, active, post, selected, breaks, acts>>
    /\ Rendered
-----------------------------------------------------------------------------
(* The socket of an executor, on both sides. It opens for every execution  *)
(* there was, and is ended at once if that is over.                        *)

Socket(o, to) ==
    /\ exec[o].socket = "open"
    /\ exec' = [exec EXCEPT ![o].socket = to]
    /\ UNCHANGED <<srv, active, post, loading, cleanups, tab, selected, shown,
                   acts, finishedHere, mixed>>

(* The finish listener of the socket closes it, with the code 1000.        *)
SocketFinishes(o) == Socket(o, "ended") /\ Over(exec[o].id) /\ UNCHANGED breaks

(* Whatever else ends it makes the tab ask for the status.                 *)
SocketBreaks(o) ==
    breaks < MaxBreaks /\ breaks' = breaks + 1 /\ Socket(o, "asking")

CloseEvent(o) ==
    /\ exec[o].socket = "ended"
    /\ exec' = [SetStatus(exec, exec[o].id, "finished") EXCEPT ![o].socket = "closed"]
    /\ UNCHANGED <<srv, active, post, loading, tab, selected, breaks, mixed, acts>>
    /\ Rendered

(* Mutant: a socket that has gone counts as an execution that has ended.   *)
AnswerAssumed(o) ==
    /\ exec[o].socket = "asking"
    /\ exec' = [SetStatus(exec, exec[o].id, "finished") EXCEPT ![o].socket = "closed"]
    /\ UNCHANGED <<srv, active, post, loading, tab, selected, breaks, mixed, acts>>
    /\ Rendered

StatusAnswered(o) ==
    /\ exec[o].socket = "asking"
    /\ LET answer == IF srv[exec[o].id].life = "running" THEN "disconnected" ELSE "finished"
       IN  \E status \in {answer, "error"} :
             /\ status = "error" => breaks < MaxBreaks
             /\ breaks' = IF status = "error" THEN breaks + 1 ELSE breaks
             /\ exec' = [SetStatus(exec, exec[o].id, status) EXCEPT ![o].socket = "closed"]
    /\ UNCHANGED <<srv, active, post, loading, tab, selected, mixed, acts>>
    /\ Rendered
-----------------------------------------------------------------------------
(* The server.                                                             *)

ScriptEnds(id) ==
    /\ srv[id].life = "running"
    /\ srv' = [srv EXCEPT ![id].life = "over"]
    /\ UNCHANGED <<active, post, loading, cleanups, exec, tab, selected, shown,
                   breaks, finishedHere, mixed, acts>>

(* The request of this tab, or of another one that shows the execution.    *)
CleanupExecution(id) ==
    /\ id \in cleanups \/ (Over(id) /\ id \in active)
    /\ active' = IF Over(id) THEN active \ {id} ELSE active
    /\ cleanups' = cleanups \ {id}
    /\ UNCHANGED <<srv, post, loading, exec, tab, selected, shown, breaks,
                   finishedHere, mixed, acts>>

CleanupLost(id) ==
    /\ id \in cleanups /\ breaks < MaxBreaks /\ breaks' = breaks + 1
    /\ cleanups' = cleanups \ {id} /\ finishedHere' = finishedHere \ {id}
    /\ UNCHANGED <<srv, active, post, loading, exec, tab, selected, shown,
                   mixed, acts>>

Handle ==
    \/ \E o \in Started : StartAnswered(o) \/ StartRefused(o)
    \/ ListActive \/ \E id \in Ids : LoadConfig(id)
    \/ \E o \in Objects : CloseEvent(o) \/ StatusAnswered(o) \/ TickKillInterval(o)

Serve ==
    \/ \E o \in Started : CreateExecution(o) \/ FailStart(o)
    \/ \E o \in Objects : SocketFinishes(o) \/ SocketBreaks(o)
    \/ \E id \in Ids : ScriptEnds(id) \/ CleanupExecution(id) \/ CleanupLost(id)

Act ==
    \/ \E s \in ScriptNames : SelectScript(s)
    \/ \E o \in Objects \cup {Nobody} : ClickTab(o)
    \/ \E o \in Started : StartExecution(o)
    \/ StopScript \/ StopAll

TabNext == Handle \/ Serve \/ Act

TabSpec == TabInit /\ [][TabNext]_tabVars
-----------------------------------------------------------------------------
TabTypeOK ==
    /\ active \subseteq Ids /\ cleanups \subseteq Ids
    /\ exec \in [Objects -> [id : Ids \cup {0}, script : ScriptNames,
                    status : {"unmade", "initializing", "executing"} \cup Final,
                    kill : {"none", "counting", "enabled"},
                    socket : {"none", "open", "ended", "asking", "closed"}]]
    /\ tab.modules \in [Ids \cup {Temp} -> Objects \cup {Nobody}]
    /\ tab.executors \in [Ids -> Objects \cup {Nobody}]
    /\ tab.current \in Objects \cup {Nobody}

(* The tab never calls an execution finished, nor has it cleaned up, while *)
(* it runs, however its answers are ordered and its connections break.     *)
FinishedIsOver ==
    /\ \A o \in Objects : exec[o].status = "finished" => Over(exec[o].id)
    /\ \A id \in cleanups : Over(id)

(* One executor per execution: the list and the store agree, and what the  *)
(* user looks at, or what still runs, is the one that gets the events; but *)
(* where two starts, or a start and the first list, have overlapped, or    *)
(* that list has brought back what the user had left (mixed).              *)
OneExecutor ==
    /\ \A id \in Ids : tab.executors[id] = tab.modules[id]
    /\ ~mixed => \A o \in Objects :
          exec[o].id # 0 /\ (o = tab.current \/ exec[o].status = "executing")
              => tab.modules[exec[o].id] = o

(* No request, answer or event is under way.                               *)
TabQuiet ==
    /\ \A o \in Started : ~Waiting(o)
    /\ loading.at # "list" /\ loading.left = {} /\ cleanups = {}
    /\ \A o \in Objects :
          /\ exec[o].socket \notin {"ended", "asking"}
          /\ exec[o].socket = "open" => ~Over(exec[o].id)

(* Then the tab has come to agree with the server: what it shows as        *)
(* executing runs, no start goes on for ever, so that the button is back,  *)
(* and what has finished before the user's eyes is cleaned up.             *)
Settled ==
    TabQuiet =>
        /\ ~mixed => \A o \in Objects :
              /\ exec[o].status = "executing" => ~Over(exec[o].id)
              /\ exec[o].status # "initializing"
        /\ finishedHere \cap active = {}

TabAgrees == TabTypeOK /\ FinishedIsOver /\ OneExecutor /\ Settled
=============================================================================
