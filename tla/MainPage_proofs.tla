---------------------------- MODULE MainPage_proofs ----------------------------
(***************************************************************************)
(* Proofs about the main page of the browser, for any scripts, executions, *)
(* parameters, actions of the user and connections that break: the         *)
(* executors of a tab (TabExecutors), and the parameters of the script     *)
(* with the file that they include (ScriptConfigModel and                  *)
(* ScriptConfigSocket).                                                    *)
(***************************************************************************)
EXTENDS TabExecutors, ScriptConfigSocket, FiniteSetTheorems, SequenceTheorems,
        NaturalsInduction, WellFoundedInduction, TLAPS

-----------------------------------------------------------------------------
(* The inductive invariant, in named parts. *)

Statuses == {"unmade", "initializing", "executing"} \cup Final
ExecutorRecord ==
    [id : Ids \cup {0}, script : ScriptNames, status : Statuses,
     kill : {"none", "counting", "enabled"},
     socket : {"none", "open", "ended", "asking", "closed"}]
Somebody == Objects \cup {Nobody}
TabRecord ==
    [modules : [Ids \cup {Temp} -> Somebody], executors : [Ids -> Somebody], current : Somebody]
ServerRecord == [script : ScriptNames, life : {"none", "running", "over"}]
PostRecord == [at : {"none", "sent", "created", "failed", "done"}, id : Newer \cup {0}]
LoadingRecord ==
    [at : {"list", "configs", "failed"}, ids : SUBSET Ids, left : SUBSET Ids, choose : BOOLEAN]

(* The types of the executors, of the server's part and of the requests. *)
TabTypes ==
    /\ active \subseteq Ids
    /\ exec \in [Objects -> ExecutorRecord]
    /\ tab \in TabRecord
    /\ srv \in [Ids -> ServerRecord]
    /\ post \in [Started -> PostRecord]
    /\ loading \in LoadingRecord
    /\ selected \in ScriptNames

(* What has an id is or was an execution of the server, and the ids that   *)
(* it gives to the starts of this tab are all different.                   *)
Known(id) == srv[id].life # "none"

IdsKnown ==
    /\ \A id \in active : Known(id)
    /\ \A o \in Started : post[o].id # 0 => Known(post[o].id)
    /\ \A o \in Started : post[o].at = "created" => post[o].id # 0
    /\ \A o, p \in Started : post[o].id = post[p].id /\ post[o].id # 0 => o = p

(* An executor has the id of its own start or of its own execution.        *)
OwnIds ==
    /\ \A o \in Objects : exec[o].id # 0 => Known(exec[o].id)
    /\ \A o \in Started : exec[o].id # 0 => exec[o].id = post[o].id /\ post[o].at = "done"
    /\ \A id \in Ids : exec[<<"loaded", id>>].id \in {0, id}

(* What is registered under an id has it, in both places.                  *)
Registered ==
    \A id \in Ids : /\ tab.executors[id] = tab.modules[id]
                    /\ tab.modules[id] # Nobody => exec[tab.modules[id]].id = id

(* The status and the socket are those of the execution, and end with it.  *)
SocketsTell ==
    \A o \in Objects :
        /\ exec[o].status \in {"executing", "finished"} => exec[o].id # 0
        /\ exec[o].socket # "none" => exec[o].id # 0
        /\ exec[o].status = "executing" => exec[o].socket # "none"
        /\ exec[o].status = "finished" \/ exec[o].socket = "ended" => Over(exec[o].id)

(* One list at the start and one start at a time, unless mixed.            *)
OneAtATime ==
    ~mixed =>
        /\ loading.left \cap Newer = {}
        /\ \A id \in Newer : exec[<<"loaded", id>>].id = 0
        /\ \A o \in Started : Waiting(o) => tab.modules[Temp] = o
        /\ \A o \in Objects : exec[o].status = "initializing" => o \in Started /\ Waiting(o)
        /\ \A o \in Objects : exec[o].status = "executing" => exec[o].socket # "closed"

(* The executor that the user looks at, or that runs, gets the events.     *)
Reached ==
    ~mixed => \A o \in Objects :
        exec[o].id # 0 /\ (o = tab.current \/ exec[o].status = "executing")
            => tab.modules[exec[o].id] = o

(* What holds of the executors and the server. *)
Core ==
    /\ TabTypes /\ IdsKnown /\ OwnIds /\ Registered /\ SocketsTell /\ OneAtATime /\ Reached

(* What holds of the page: it shows the status of the executor selected,   *)
(* and what finished before the user's eyes and is still active is on its  *)
(* way to be cleaned up, which nothing is that runs.                       *)
Page ==
    /\ shown = StatusOf(tab.current)
    /\ finishedHere \cap active \subseteq cleanups
    /\ \A id \in finishedHere : id \in Ids /\ Known(id)
    /\ \A id \in cleanups : id \in Ids /\ Over(id)

TabInv == Core /\ Page

-----------------------------------------------------------------------------
(* Names and ids. *)

LEMMA OwnNames ==
    /\ 0 \notin Ids
    /\ Older \cap Newer = {}
    /\ Nobody \notin Objects
    /\ \A o \in Objects : \/ o \in Started
                          \/ \E id \in Ids : o = <<"loaded", id>>
    /\ \A id \in Ids : <<"loaded", id>> \in Objects /\ <<"loaded", id>> \notin Started
    /\ \A i, j \in Ids : <<"loaded", i>> = <<"loaded", j>> => i = j
BY TabAssumption DEF Ids, Objects, Started, Loads, Doubles, Nobody

(* What the helpers of the handlers return. *)
LEMMA SetStatusFields ==
    ASSUME TabTypes, NEW k \in Ids \cup {0}, NEW s \in Statuses
    PROVE  /\ SetStatus(exec, k, s) \in [Objects -> ExecutorRecord]
           /\ \A o \in Objects :
                 /\ SetStatus(exec, k, s)[o].id = exec[o].id
                 /\ SetStatus(exec, k, s)[o].socket = exec[o].socket
                 /\ SetStatus(exec, k, s)[o].status =
                       IF o = tab.modules[k] THEN s ELSE exec[o].status
<1>1. tab.modules[k] \in Somebody
  BY DEF TabTypes, TabRecord, Temp
<1>2. CASE tab.modules[k] = Nobody
  BY <1>2, OwnNames DEF SetStatus, TabTypes
<1>3. CASE tab.modules[k] # Nobody
  <2>1. PICK m \in Objects : m = tab.modules[k]
    BY <1>1, <1>3 DEF Somebody
  <2>2. exec[m] \in ExecutorRecord /\ exec \in [Objects -> ExecutorRecord]
    BY DEF TabTypes
  <2>3. SetStatus(exec, k, s) =
          [exec EXCEPT ![m].status = s, ![m].kill = IF @ = "counting" THEN "none" ELSE @]
    BY <1>3, <2>1 DEF SetStatus
  <2>4. PICK e : e = [exec[m] EXCEPT !.status = s,
                                     !.kill = IF @ = "counting" THEN "none" ELSE @]
    OBVIOUS
  <2>5. /\ e \in ExecutorRecord /\ e.id = exec[m].id /\ e.socket = exec[m].socket
        /\ e.status = s
    BY <2>2, <2>4 DEF ExecutorRecord
  <2>6. SetStatus(exec, k, s) = [exec EXCEPT ![m] = e]
    BY <2>2, <2>3, <2>4
  <2> QED BY <2>1, <2>2, <2>5, <2>6
<1> QED BY <1>2, <1>3

LEMMA AttachedFields ==
    ASSUME NEW e \in ExecutorRecord, NEW id \in Ids
    PROVE  /\ Attached(e, id) \in ExecutorRecord
           /\ Attached(e, id).id = id /\ Attached(e, id).status = "executing"
           /\ Attached(e, id).socket = IF e.socket = "none" THEN "open" ELSE e.socket
BY DEF Attached, ExecutorRecord, Statuses

LEMMA ExecutorFields ==
    ASSUME NEW s \in ScriptNames
    PROVE  /\ Executor(s) \in ExecutorRecord
           /\ Executor(s).id = 0 /\ Executor(s).status = "initializing"
           /\ Executor(s).socket = "none"
BY DEF Executor, ExecutorRecord, Statuses

LEMMA CountingFields ==
    ASSUME NEW e \in ExecutorRecord
    PROVE  /\ Counting(e) \in ExecutorRecord
           /\ Counting(e).id = e.id /\ Counting(e).status = e.status
           /\ Counting(e).socket = e.socket
BY DEF Counting, ExecutorRecord, Statuses

LEMMA RemovedFields ==
    ASSUME NEW t \in TabRecord, NEW id \in Ids
    PROVE  /\ RemoveExecutor(t, id) \in TabRecord
           /\ RemoveExecutor(t, id).current = t.current
           /\ \A k \in Ids \cup {Temp} :
                 RemoveExecutor(t, id).modules[k] =
                    IF k = id /\ t.executors[id] # Nobody THEN Nobody ELSE t.modules[k]
           /\ \A k \in Ids :
                 RemoveExecutor(t, id).executors[k] =
                    IF k = id THEN Nobody ELSE t.executors[k]
<1>1. CASE t.executors[id] = Nobody
  BY <1>1 DEF RemoveExecutor, TabRecord
<1>2. CASE t.executors[id] # Nobody
  <2>1. RemoveExecutor(t, id) =
          [modules |-> [t.modules EXCEPT ![id] = Nobody],
           executors |-> [t.executors EXCEPT ![id] = Nobody], current |-> t.current]
    BY <1>2 DEF RemoveExecutor, TabRecord
  <2> QED BY <1>2, <2>1 DEF TabRecord, Somebody
<1> QED BY <1>1, <1>2

(* The executor o is selected: the one shown before may go, if it is over. *)
Selects(t, ex, o, r) ==
    /\ r \in TabRecord
    /\ \/ /\ r = t /\ t.current # Nobody /\ o # Nobody
          /\ ex[o].id # 0 /\ ex[o].id = ex[t.current].id
       \/ /\ r.current = o
          /\ r.modules = t.modules /\ r.executors = t.executors
       \/ /\ r.current = o
          /\ t.current # Nobody /\ ex[t.current].id # 0 /\ ex[t.current].status \in Final
          /\ o # Nobody => ex[o].id # ex[t.current].id
          /\ \A k \in Ids \cup {Temp} :
                r.modules[k] = IF k = ex[t.current].id /\ t.executors[k] # Nobody
                               THEN Nobody ELSE t.modules[k]
          /\ \A k \in Ids :
                r.executors[k] = IF k = ex[t.current].id THEN Nobody ELSE t.executors[k]

LEMMA SelectFields ==
    ASSUME NEW t \in TabRecord, NEW ex \in [Objects -> ExecutorRecord], NEW o \in Somebody
    PROVE  Selects(t, ex, o, SelectExecutor(t, ex, o))
<1> DEFINE c == t.current
           same == c # Nobody /\ o # Nobody /\ ex[o].id # 0 /\ ex[o].id = ex[c].id
           goes == c # Nobody /\ ex[c].id # 0 /\ ex[c].status \in Final
<1>1. CASE same
  BY <1>1 DEF SelectExecutor, Selects
<1>2. CASE ~same /\ goes
  <2>1. SelectExecutor(t, ex, o) = [RemoveExecutor(t, ex[c].id) EXCEPT !.current = o]
    BY <1>2 DEF SelectExecutor
  <2>2. c \in Objects
    BY <1>2 DEF TabRecord, Somebody
  <2>3. PICK id \in Ids : id = ex[c].id
    BY <1>2, <2>2 DEF ExecutorRecord
  <2>4. PICK r \in TabRecord : r = RemoveExecutor(t, id)
    BY RemovedFields
  <2>5. /\ SelectExecutor(t, ex, o) = [modules |-> r.modules, executors |-> r.executors, current |-> o]
    BY <2>1, <2>3, <2>4 DEF TabRecord
  <2>6. /\ SelectExecutor(t, ex, o) \in TabRecord
        /\ SelectExecutor(t, ex, o).current = o
        /\ SelectExecutor(t, ex, o).modules = r.modules
        /\ SelectExecutor(t, ex, o).executors = r.executors
    BY <2>5 DEF TabRecord
  <2>7. /\ \A k \in Ids \cup {Temp} :
             r.modules[k] = IF k = id /\ t.executors[k] # Nobody THEN Nobody ELSE t.modules[k]
        /\ \A k \in Ids : r.executors[k] = IF k = id THEN Nobody ELSE t.executors[k]
    BY <2>4, RemovedFields
  <2> QED BY <1>2, <2>3, <2>6, <2>7 DEF Selects
<1>3. CASE ~same /\ ~goes
  <2>1. SelectExecutor(t, ex, o) = [modules |-> t.modules, executors |-> t.executors, current |-> o]
    BY <1>3 DEF SelectExecutor, TabRecord
  <2> QED BY <2>1 DEF Selects, TabRecord
<1> QED BY <1>1, <1>2, <1>3

-----------------------------------------------------------------------------
(* The page follows from the executors, once Vue has rendered it. *)

Turns(o) == exec[o].status # "finished" /\ exec'[o].status = "finished"

LEMMA PageRendered ==
    ASSUME TabInv, Core', Rendered, srv' = srv, active' = active,
           \A o \in Objects : Turns(o) =>
               /\ tab' = tab /\ exec'[o].id = exec[o].id
               /\ tab.modules[exec[o].id] = o
    PROVE  Page'
<1>1. /\ tab \in TabRecord /\ tab' \in TabRecord
      /\ exec \in [Objects -> ExecutorRecord] /\ exec' \in [Objects -> ExecutorRecord]
  BY DEF TabInv, Core, TabTypes
<1>2. tab.current \in Somebody /\ tab'.current \in Somebody
  BY <1>1 DEF TabRecord
<1>3. shown' = IF tab'.current = Nobody THEN "none" ELSE exec'[tab'.current].status
  BY DEF Rendered, View
<1>4. shown = IF tab.current = Nobody THEN "none" ELSE exec[tab.current].status
  BY DEF TabInv, Page, StatusOf
<1> DEFINE c == tab'.current
           id == exec'[c].id
           m == tab'.modules[id]
<1>5. cleanups' = IF shown' = "finished" /\ shown # "finished" /\ m # Nobody
                  THEN cleanups \cup {exec'[m].id} ELSE cleanups
  <2>1. CASE c = Nobody
    BY <1>3, <2>1 DEF Rendered, View
  <2>2. CASE c # Nobody
    BY <2>2 DEF Rendered, View
  <2> QED BY <2>1, <2>2
<1>6. ASSUME shown' = "finished", m # Nobody
      PROVE  exec'[m].id \in Ids /\ srv'[exec'[m].id].life = "over" /\ exec'[m].id = id
  <2>1. c \in Objects /\ exec'[c].status = "finished"
    BY <1>2, <1>3, <1>6 DEF Somebody
  <2>2. PICK n \in Ids : n = id /\ srv'[n].life = "over"
    <3>1. id # 0 /\ srv'[id].life = "over"
      BY <2>1 DEF Core, SocketsTell, Over
    <3>2. id \in Ids
      BY <1>1, <2>1, <3>1 DEF ExecutorRecord
    <3> QED BY <3>1, <3>2
  <2>3. tab'.modules[n] # Nobody => exec'[tab'.modules[n]].id = n
    BY DEF Core, Registered
  <2> QED BY <1>6, <2>2, <2>3
<1>7. \A i \in cleanups' : i \in Ids /\ srv'[i].life = "over"
  <2>1. \A i \in cleanups : i \in Ids /\ srv'[i].life = "over"
    BY DEF TabInv, Page, Over
  <2> QED BY <1>5, <1>6, <2>1
<1>8. ASSUME NEW i \in finishedHere', i \notin finishedHere
      PROVE  /\ tab.current \in Objects /\ Turns(tab.current)
             /\ i = exec[tab.current].id
  BY <1>2, <1>8 DEF Rendered, Watch, Turns, Nobody, Somebody
<1>9. ASSUME NEW i \in finishedHere', i \notin finishedHere
      PROVE  i \in Ids /\ Known(i)' /\ i \in cleanups'
  <2>1. /\ tab.current \in Objects /\ tab.current # Nobody /\ Turns(tab.current)
        /\ i = exec[tab.current].id
        /\ tab' = tab /\ exec'[tab.current].id = i /\ tab.modules[i] = tab.current
    BY <1>8, <1>9, OwnNames
  <2>2. shown' = "finished" /\ shown # "finished"
    BY <1>3, <1>4, <2>1 DEF Turns
  <2>3. m = tab.current /\ id = i
    BY <2>1
  <2>4. i \in cleanups'
    BY <1>5, <2>1, <2>2, <2>3
  <2>5. i \in Ids /\ srv'[i].life = "over"
    BY <1>7, <2>4
  <2> QED BY <2>4, <2>5 DEF Known
<1>10. cleanups \subseteq cleanups'
  BY <1>5
<1>11. \A i \in finishedHere' : i \in Ids /\ Known(i)'
  BY <1>9 DEF TabInv, Page, Known
<1>12. (finishedHere \cap active)' \subseteq cleanups'
  BY <1>9, <1>10 DEF TabInv, Page
<1> QED BY <1>3, <1>7, <1>11, <1>12 DEF Page, StatusOf, Over

-----------------------------------------------------------------------------
(* The executors agree with the server after each step. First the facts    *)
(* that the steps share.                                                   *)

LEMMA Typed ==
    ASSUME Core
    PROVE  /\ tab \in TabRecord /\ tab.modules \in [Ids \cup {Temp} -> Somebody]
           /\ tab.executors \in [Ids -> Somebody] /\ tab.current \in Somebody
           /\ exec \in [Objects -> ExecutorRecord]
           /\ \A o \in Objects : exec[o] \in ExecutorRecord /\ exec[o].id \in Ids \cup {0}
           /\ post \in [Started -> PostRecord] /\ srv \in [Ids -> ServerRecord]
           /\ \A o \in Started : o \in Objects
BY DEF Core, TabTypes, TabRecord, ExecutorRecord, Objects

(* What is registered has the id that it is registered under. *)
LEMMA RegisteredHas ==
    ASSUME Core, NEW k \in Ids, NEW o \in Objects, tab.modules[k] = o \/ tab.executors[k] = o
    PROVE  exec[o].id = k /\ tab.modules[k] = o /\ tab.executors[k] = o
BY OwnNames DEF Core, Registered

(* An executor that is selected, and one that goes, leave the others. *)
LEMMA SelectedCore ==
    ASSUME Core, NEW o \in Somebody, o = Nobody \/ \E k \in Ids : tab.executors[k] = o,
           Selects(tab, exec, o, tab'), selected' \in ScriptNames,
           UNCHANGED <<srv, active, post, loading, exec, mixed>>
    PROVE  Core'
<1>1. TabTypes' /\ IdsKnown' /\ OwnIds' /\ SocketsTell'
  BY DEF Core, TabTypes, IdsKnown, OwnIds, SocketsTell, Selects, Known, Over
<1>2. Registered'
  <2> SUFFICES ASSUME NEW k \in Ids
               PROVE  /\ tab'.executors[k] = tab'.modules[k]
                      /\ tab'.modules[k] # Nobody => exec[tab'.modules[k]].id = k
    BY DEF Registered
  <2>1. /\ tab.executors[k] = tab.modules[k]
        /\ tab.modules[k] # Nobody => exec[tab.modules[k]].id = k
    BY DEF Core, Registered
  <2>2. \/ tab'.modules[k] = tab.modules[k] /\ tab'.executors[k] = tab.executors[k]
        \/ tab'.modules[k] = Nobody /\ tab'.executors[k] = Nobody
    BY <2>1 DEF Selects
  <2> QED BY <2>1, <2>2
<1>3. tab'.modules[Temp] = tab.modules[Temp]
  BY DEF Selects, Temp
<1>4. OneAtATime'
  BY <1>3 DEF Core, OneAtATime, Waiting
<1>5. Reached'
  <2> SUFFICES ASSUME ~mixed, NEW x \in Objects, exec[x].id # 0,
                      x = tab'.current \/ exec[x].status = "executing"
               PROVE  tab'.modules[exec[x].id] = x
    BY DEF Reached
  <2>1. \A u \in Objects : exec[u].id # 0 /\ (u = tab.current \/ exec[u].status = "executing")
                            => tab.modules[exec[u].id] = u
    BY DEF Core, Reached
  <2>2. x = o => tab.modules[exec[x].id] = x
    BY RegisteredHas, OwnNames
  <2>3. CASE tab' = tab
    BY <2>1, <2>3
  <2>4. CASE tab'.current = o /\ tab'.modules = tab.modules
    BY <2>1, <2>2, <2>4
  <2>5. CASE /\ tab'.current = o
             /\ tab.current # Nobody /\ exec[tab.current].id # 0
             /\ exec[tab.current].status \in Final
             /\ o # Nobody => exec[o].id # exec[tab.current].id
             /\ \A k \in Ids \cup {Temp} :
                   tab'.modules[k] = IF k = exec[tab.current].id /\ tab.executors[k] # Nobody
                                     THEN Nobody ELSE tab.modules[k]
    <3>1. tab.modules[exec[x].id] = x
      BY <2>1, <2>2, <2>5
    <3>2. tab.current \in Objects /\ tab.modules[exec[tab.current].id] = tab.current
      BY <2>1, <2>5, Typed DEF Somebody
    <3>3. exec[x].id # exec[tab.current].id
      <4>1. CASE x = o
        BY <2>5, <4>1, OwnNames
      <4>2. CASE x # o
        <5>1. exec[x].status = "executing"
          BY <2>5, <4>2
        <5>2. x # tab.current
          BY <5>1, <2>5 DEF Final
        <5> QED BY <3>1, <3>2, <5>2
      <4> QED BY <4>1, <4>2
    <3>4. exec[x].id \in Ids
      BY Typed
    <3> QED BY <2>5, <3>1, <3>3, <3>4
  <2> QED BY <2>3, <2>4, <2>5 DEF Selects
<1> QED BY <1>1, <1>2, <1>4, <1>5 DEF Core

(* Counting to the kill button is nothing to the execution. *)
LEMMA KillCore ==
    ASSUME Core, UNCHANGED <<srv, active, post, loading, selected, tab, mixed>>,
           exec' \in [Objects -> ExecutorRecord],
           \A o \in Objects : /\ exec'[o].id = exec[o].id /\ exec'[o].status = exec[o].status
                              /\ exec'[o].socket = exec[o].socket
    PROVE  Core'
<1>1. TabTypes' /\ IdsKnown'
  BY DEF Core, TabTypes, IdsKnown, Known
<1>2. OwnIds'
  BY OwnNames, Typed DEF Core, OwnIds, Known
<1>3. Registered'
  BY Typed DEF Core, Registered, Somebody
<1>4. SocketsTell'
  BY DEF Core, SocketsTell, Over
<1>5. \A i \in Newer : <<"loaded", i>> \in Objects
  BY OwnNames DEF Ids
<1>6. OneAtATime'
  BY <1>5 DEF Core, OneAtATime, Waiting
<1>7. Reached'
  BY DEF Core, Reached
<1> QED BY <1>1, <1>2, <1>3, <1>4, <1>6, <1>7 DEF Core

(* A start has been asked for: its executor is the one that waits. *)
LEMMA StartCore ==
    ASSUME Core, NEW o \in Started, StartExecution(o)
    PROVE  Core'
<1> DEFINE t1 == [tab EXCEPT !.modules[Temp] = o]
           c  == tab.current
<1>1. /\ post' = [post EXCEPT ![o].at = "sent"] /\ post[o].at = "none"
      /\ exec' = [exec EXCEPT ![o] = Executor(selected)]
      /\ UNCHANGED <<srv, active, loading, selected>>
      /\ mixed' = (mixed \/ \E p \in Started : Waiting(p))
  BY DEF StartExecution
<1>2. o \in Objects /\ o # Nobody
  BY OwnNames DEF Objects
<1>3. /\ exec' \in [Objects -> ExecutorRecord]
      /\ exec'[o].id = 0 /\ exec'[o].status = "initializing" /\ exec'[o].socket = "none"
      /\ \A x \in Objects : x # o => exec'[x] = exec[x]
  BY <1>1, <1>2, Typed, ExecutorFields DEF Core, TabTypes
<1>4. exec[o].id = 0
  BY <1>1 DEF Core, OwnIds
<1>5. /\ post' \in [Started -> PostRecord] /\ post'[o].at = "sent"
      /\ \A p \in Started : post'[p].id = post[p].id
      /\ \A p \in Started : p # o => post'[p] = post[p]
  BY <1>1, Typed DEF PostRecord
<1>6. /\ t1 \in TabRecord /\ t1.modules[Temp] = o /\ t1.executors = tab.executors
      /\ t1.current = c /\ \A k \in Ids : t1.modules[k] = tab.modules[k]
  <2>1. t1 = [modules |-> [tab.modules EXCEPT ![Temp] = o], executors |-> tab.executors,
              current |-> c]
    BY Typed DEF TabRecord
  <2> QED BY <1>2, <2>1, Typed, OwnNames DEF TabRecord, Somebody, Temp
<1>7. Selects(t1, exec', o, tab')
  <2>1. tab' = SelectExecutor(t1, exec', o)
    BY DEF StartExecution
  <2>2. o \in Somebody
    BY <1>2 DEF Somebody
  <2> QED BY <1>3, <1>6, <2>1, <2>2, SelectFields
<1>8. /\ tab' \in TabRecord /\ tab'.current = o /\ tab'.modules[Temp] = o
      /\ \A k \in Ids : \/ /\ tab'.modules[k] = tab.modules[k]
                           /\ tab'.executors[k] = tab.executors[k]
                        \/ /\ c # Nobody /\ k = exec'[c].id /\ exec'[c].id # 0
                           /\ exec'[c].status \in Final
                           /\ tab'.executors[k] = Nobody
                           /\ tab'.modules[k] = IF tab.executors[k] # Nobody THEN Nobody
                                                ELSE tab.modules[k]
  <2>1. exec'[o].id = 0 /\ Temp = 0 /\ Temp \notin Ids
    BY <1>3, OwnNames DEF Temp
  <2> HIDE DEF t1
  <2>2. tab' \in TabRecord /\ tab'.current = o
    BY <1>6, <1>7, <2>1 DEF Selects
  <2>3. CASE tab'.modules = t1.modules /\ tab'.executors = t1.executors
    BY <1>6, <2>2, <2>3
  <2>4. CASE /\ c # Nobody /\ exec'[c].id # 0 /\ exec'[c].status \in Final
             /\ \A k \in Ids \cup {Temp} :
                   tab'.modules[k] = IF k = exec'[c].id /\ t1.executors[k] # Nobody
                                     THEN Nobody ELSE t1.modules[k]
             /\ \A k \in Ids :
                   tab'.executors[k] = IF k = exec'[c].id THEN Nobody ELSE t1.executors[k]
    BY <1>6, <2>1, <2>2, <2>4
  <2> QED BY <1>6, <1>7, <2>1, <2>3, <2>4 DEF Selects
<1>9. \A k \in Ids : tab.modules[k] # o /\ tab.executors[k] # o
  BY <1>2, <1>4, RegisteredHas, OwnNames
<1>10. TabTypes'
  BY <1>1, <1>3, <1>5, <1>8 DEF Core, TabTypes
<1>11. IdsKnown'
  BY <1>1, <1>5 DEF Core, IdsKnown, Known
<1>12. OwnIds'
  <2>1. \A x \in Objects : exec'[x].id # 0 => exec'[x] = exec[x] /\ x # o
    BY <1>3
  <2>2. \A k \in Ids : <<"loaded", k>> \in Objects /\ <<"loaded", k>> # o
    BY OwnNames
  <2> QED BY <1>1, <1>3, <1>5, <2>1, <2>2, Typed DEF Core, OwnIds, Known
<1>13. Registered'
  <2> SUFFICES ASSUME NEW k \in Ids
               PROVE  /\ tab'.executors[k] = tab'.modules[k]
                      /\ tab'.modules[k] # Nobody => exec'[tab'.modules[k]].id = k
    BY DEF Registered
  <2>1. /\ tab.executors[k] = tab.modules[k]
        /\ tab.modules[k] # Nobody => exec[tab.modules[k]].id = k
    BY DEF Core, Registered
  <2>2. tab.modules[k] # Nobody => exec'[tab.modules[k]] = exec[tab.modules[k]]
    BY <1>3, <1>9, Typed DEF Somebody
  <2>3. tab'.modules[k] = tab'.executors[k] /\ tab'.modules[k] \in {tab.modules[k], Nobody}
    BY <1>8, <2>1
  <2> QED BY <2>1, <2>2, <2>3
<1>14. SocketsTell'
  BY <1>1, <1>3 DEF Core, SocketsTell, Over
<1>15. ASSUME ~mixed'
       PROVE  ~mixed /\ \A p \in Started : ~Waiting(p)
  BY <1>1, <1>15
<1>16. OneAtATime'
  <2> SUFFICES ASSUME ~mixed'
               PROVE  /\ loading'.left \cap Newer = {}
                      /\ \A i \in Newer : exec'[<<"loaded", i>>].id = 0
                      /\ \A p \in Started : Waiting(p)' => tab'.modules[Temp] = p
                      /\ \A x \in Objects :
                            exec'[x].status = "initializing" => x \in Started /\ Waiting(x)'
                      /\ \A x \in Objects :
                            exec'[x].status = "executing" => exec'[x].socket # "closed"
    BY DEF OneAtATime, Waiting
  <2>1. ASSUME NEW i \in Newer
        PROVE  <<"loaded", i>> \in Objects /\ <<"loaded", i>> # o
    <3>1. i \in Ids
      BY DEF Ids
    <3> QED BY <3>1, OwnNames
  <2>2. \A p \in Started : p # o => post'[p].at \notin {"sent", "created", "failed"}
    BY <1>5, <1>15 DEF Waiting
  <2>3. \A x \in Objects : x # o => exec'[x].status # "initializing"
    BY <1>3, <1>15 DEF Core, OneAtATime
  <2> QED BY <1>1, <1>3, <1>5, <1>8, <1>15, <2>1, <2>2, <2>3 DEF Core, OneAtATime, Waiting
<1>17. Reached'
  <2> SUFFICES ASSUME ~mixed', NEW x \in Objects, exec'[x].id # 0,
                      x = tab'.current \/ exec'[x].status = "executing"
               PROVE  tab'.modules[exec'[x].id] = x
    BY DEF Reached
  <2>1. x # o /\ exec'[x] = exec[x] /\ exec[x].status = "executing" /\ exec[x].id \in Ids
    BY <1>3, <1>8, Typed
  <2>2. tab.modules[exec[x].id] = x
    BY <1>15, <2>1, OwnNames DEF Core, Reached
  <2>3. ~(c # Nobody /\ exec[x].id = exec'[c].id /\ exec'[c].id # 0 /\ exec'[c].status \in Final)
    <3> SUFFICES ASSUME c # Nobody, exec[x].id = exec'[c].id, exec'[c].id # 0,
                        exec'[c].status \in Final
                 PROVE  FALSE
      OBVIOUS
    <3>1. c \in Objects /\ exec'[c] = exec[c]
      BY <1>3, Typed DEF Somebody
    <3>2. tab.modules[exec[c].id] = c
      BY <1>15, <3>1 DEF Core, Reached
    <3> QED BY <2>1, <2>2, <3>1, <3>2 DEF Final
  <2> QED BY <1>8, <2>1, <2>2, <2>3
<1> QED BY <1>10, <1>11, <1>12, <1>13, <1>14, <1>16, <1>17 DEF Core

(* Its answer gives the executor an id of its own, under which it is       *)
(* registered: the one that waited is done.                                *)
LEMMA AnsweredCore ==
    ASSUME Core, NEW o \in Started, StartAnswered(o)
    PROVE  Core'
<1>1. PICK k \in Newer : k = post[o].id
  BY Typed, OwnNames DEF StartAnswered, Core, IdsKnown, PostRecord
<1>2. /\ post[o].at = "created" /\ post' = [post EXCEPT ![o].at = "done"]
      /\ exec' = [exec EXCEPT ![o] = Attached(exec[o], k)]
      /\ tab' = [tab EXCEPT !.modules = [@ EXCEPT ![Temp] = Nobody, ![k] = o],
                            !.executors[k] = o]
      /\ UNCHANGED <<srv, active, loading, selected, mixed>>
  BY <1>1 DEF StartAnswered
<1>3. k \in Ids /\ k # 0 /\ o \in Objects /\ o # Nobody /\ k # Temp
  BY OwnNames DEF Objects, Ids, Temp
<1>4. exec[o].id = 0
  BY <1>2 DEF Core, OwnIds
<1>5. exec[o].socket = "none"
  BY <1>3, <1>4 DEF Core, SocketsTell
<1>6. /\ exec' \in [Objects -> ExecutorRecord]
      /\ exec'[o].id = k /\ exec'[o].status = "executing" /\ exec'[o].socket = "open"
      /\ \A x \in Objects : x # o => exec'[x] = exec[x]
  BY <1>2, <1>3, <1>5, Typed, AttachedFields
<1>7. /\ tab' \in TabRecord /\ tab'.current = tab.current
      /\ tab'.modules[k] = o /\ tab'.executors[k] = o
      /\ \A i \in Ids : i # k => /\ tab'.modules[i] = tab.modules[i]
                                 /\ tab'.executors[i] = tab.executors[i]
  <2>1. tab' = [modules |-> [tab.modules EXCEPT ![Temp] = Nobody, ![k] = o],
                executors |-> [tab.executors EXCEPT ![k] = o], current |-> tab.current]
    BY <1>2, Typed DEF TabRecord
  <2> QED BY <1>3, <2>1, Typed, OwnNames DEF TabRecord, Somebody, Temp
<1>8. /\ post' \in [Started -> PostRecord] /\ post'[o].at = "done"
      /\ \A p \in Started : post'[p].id = post[p].id
      /\ \A p \in Started : p # o => post'[p] = post[p]
  BY <1>2, Typed DEF PostRecord
<1>9. \A i \in Ids : tab.modules[i] # o /\ tab.executors[i] # o
  BY <1>3, <1>4, RegisteredHas, OwnNames
<1>10. TabTypes'
  BY <1>2, <1>6, <1>7, <1>8 DEF Core, TabTypes
<1>11. IdsKnown'
  BY <1>2, <1>8 DEF Core, IdsKnown, Known
<1>12. OwnIds'
  <2>1. \A i \in Ids : <<"loaded", i>> \in Objects /\ <<"loaded", i>> # o
    BY OwnNames
  <2>2. srv[k].life # "none"
    BY <1>1, <1>3 DEF Core, IdsKnown, Known
  <2>3. \A p \in Started : p # o /\ exec'[p].id # 0 => exec'[p].id = post'[p].id /\ post'[p].at = "done"
    BY <1>6, <1>8, Typed DEF Core, OwnIds
  <2>4. exec'[o].id = post'[o].id /\ post'[o].at = "done"
    BY <1>1, <1>6, <1>8
  <2>5. \A x \in Objects : exec'[x].id # 0 => srv'[exec'[x].id].life # "none"
    BY <1>2, <1>6, <2>2 DEF Core, OwnIds, Known
  <2>6. \A i \in Ids : exec'[<<"loaded", i>>].id \in {0, i}
    BY <1>6, <2>1 DEF Core, OwnIds
  <2> QED BY <2>3, <2>4, <2>5, <2>6 DEF OwnIds, Known
<1>13. Registered'
  <2> SUFFICES ASSUME NEW i \in Ids
               PROVE  /\ tab'.executors[i] = tab'.modules[i]
                      /\ tab'.modules[i] # Nobody => exec'[tab'.modules[i]].id = i
    BY DEF Registered
  <2>1. /\ tab.executors[i] = tab.modules[i]
        /\ tab.modules[i] # Nobody => exec[tab.modules[i]].id = i
    BY DEF Core, Registered
  <2>2. tab.modules[i] # Nobody => exec'[tab.modules[i]] = exec[tab.modules[i]]
    BY <1>6, <1>9, Typed DEF Somebody
  <2> QED BY <1>6, <1>7, <2>1, <2>2
<1>14. SocketsTell'
  BY <1>2, <1>3, <1>6 DEF Core, SocketsTell, Over
<1>15. ASSUME ~mixed, NEW p \in Started, p # o
       PROVE  ~Waiting(p)
  BY <1>2, <1>15 DEF Core, OneAtATime, Waiting
<1>16. OneAtATime'
  <2> SUFFICES ASSUME ~mixed
               PROVE  /\ loading'.left \cap Newer = {}
                      /\ \A i \in Newer : exec'[<<"loaded", i>>].id = 0
                      /\ \A p \in Started : Waiting(p)' => tab'.modules[Temp] = p
                      /\ \A x \in Objects :
                            exec'[x].status = "initializing" => x \in Started /\ Waiting(x)'
                      /\ \A x \in Objects :
                            exec'[x].status = "executing" => exec'[x].socket # "closed"
    BY <1>2 DEF OneAtATime, Waiting
  <2>1. ASSUME NEW i \in Newer
        PROVE  <<"loaded", i>> \in Objects /\ <<"loaded", i>> # o
    <3>1. i \in Ids
      BY DEF Ids
    <3> QED BY <3>1, OwnNames
  <2>2. \A p \in Started : post'[p].at \notin {"sent", "created", "failed"}
    BY <1>8, <1>15 DEF Waiting
  <2>3. \A x \in Objects : exec'[x].status # "initializing"
    BY <1>6, <1>15 DEF Core, OneAtATime
  <2> QED BY <1>2, <1>6, <2>1, <2>2, <2>3 DEF Core, OneAtATime, Waiting
<1>17. Reached'
  <2> SUFFICES ASSUME ~mixed, NEW x \in Objects, exec'[x].id # 0, x # o,
                      x = tab'.current \/ exec'[x].status = "executing"
               PROVE  tab'.modules[exec'[x].id] = x
    BY <1>2, <1>6, <1>7 DEF Reached
  <2>1. exec'[x] = exec[x] /\ tab.modules[exec[x].id] = x /\ exec[x].id \in Ids
    BY <1>6, <1>7, Typed DEF Core, Reached
  <2>2. exec[x].id # k
    <3>1. CASE x \in Started
      BY <1>1, <2>1, <3>1, OwnNames DEF Core, OwnIds, IdsKnown
    <3>2. CASE \E i \in Ids : x = <<"loaded", i>>
      BY <2>1, <3>2, OwnNames DEF Core, OwnIds, OneAtATime
    <3> QED BY <3>1, <3>2, OwnNames
  <2> QED BY <1>7, <2>1, <2>2
<1> QED BY <1>10, <1>11, <1>12, <1>13, <1>14, <1>16, <1>17 DEF Core

(* A refusal is told to the executor that waits, which is an error then. *)
LEMMA RefusedCore ==
    ASSUME Core, NEW o \in Started, StartRefused(o)
    PROVE  Core'
<1>1. /\ post[o].at = "failed" /\ post' = [post EXCEPT ![o].at = "done"]
      /\ exec' = SetStatus(exec, Temp, "error")
      /\ tab' = [tab EXCEPT !.modules[Temp] = Nobody]
      /\ UNCHANGED <<srv, active, loading, selected, mixed>>
  BY DEF StartRefused
<1>2. /\ exec' \in [Objects -> ExecutorRecord]
      /\ \A x \in Objects :
            /\ exec'[x].id = exec[x].id /\ exec'[x].socket = exec[x].socket
            /\ exec'[x].status = IF x = tab.modules[Temp] THEN "error" ELSE exec[x].status
  BY <1>1, SetStatusFields DEF Core, Temp, Statuses, Final
<1>3. /\ tab' \in TabRecord /\ tab'.current = tab.current
      /\ \A i \in Ids : /\ tab'.modules[i] = tab.modules[i]
                        /\ tab'.executors[i] = tab.executors[i]
  <2>1. tab' = [modules |-> [tab.modules EXCEPT ![Temp] = Nobody],
                executors |-> tab.executors, current |-> tab.current]
    BY <1>1, Typed DEF TabRecord
  <2> QED BY <2>1, Typed, OwnNames DEF TabRecord, Somebody, Temp
<1>4. /\ post' \in [Started -> PostRecord] /\ post'[o].at = "done"
      /\ \A p \in Started : post'[p].id = post[p].id
      /\ \A p \in Started : p # o => post'[p] = post[p]
  BY <1>1, Typed DEF PostRecord
<1>5. TabTypes'
  BY <1>1, <1>2, <1>3, <1>4 DEF Core, TabTypes
<1>6. IdsKnown'
  BY <1>1, <1>4 DEF Core, IdsKnown, Known
<1>7. OwnIds'
  <2>1. \A p \in Started : exec'[p].id # 0 => exec'[p].id = post'[p].id /\ post'[p].at = "done"
    BY <1>2, <1>4, Typed DEF Core, OwnIds
  <2>2. \A i \in Ids : exec'[<<"loaded", i>>].id \in {0, i}
    BY <1>2, OwnNames DEF Core, OwnIds
  <2> QED BY <1>1, <1>2, <2>1, <2>2 DEF Core, OwnIds, Known
<1>8. Registered'
  BY <1>2, <1>3, Typed DEF Core, Registered, Somebody
<1>9. SocketsTell'
  BY <1>1, <1>2 DEF Core, SocketsTell, Over
<1>10. OneAtATime'
  <2> SUFFICES ASSUME ~mixed
               PROVE  /\ loading'.left \cap Newer = {}
                      /\ \A i \in Newer : exec'[<<"loaded", i>>].id = 0
                      /\ \A p \in Started : Waiting(p)' => tab'.modules[Temp] = p
                      /\ \A x \in Objects :
                            exec'[x].status = "initializing" => x \in Started /\ Waiting(x)'
                      /\ \A x \in Objects :
                            exec'[x].status = "executing" => exec'[x].socket # "closed"
    BY <1>1 DEF OneAtATime, Waiting
  <2>1. \A i \in Newer : <<"loaded", i>> \in Objects
    BY OwnNames DEF Ids
  <2>2. tab.modules[Temp] = o /\ \A p \in Started : Waiting(p) => p = o
    BY <1>1 DEF Core, OneAtATime, Waiting
  <2>3. \A p \in Started : post'[p].at \notin {"sent", "created", "failed"}
    BY <1>4, <2>2 DEF Waiting
  <2>4. \A x \in Objects : exec'[x].status # "initializing"
    BY <1>2, <2>2 DEF Core, OneAtATime
  <2> QED BY <1>1, <1>2, <2>1, <2>3, <2>4 DEF Core, OneAtATime, Waiting
<1>11. Reached'
  <2> SUFFICES ASSUME ~mixed, NEW x \in Objects, exec'[x].id # 0,
                      x = tab'.current \/ exec'[x].status = "executing"
               PROVE  tab'.modules[exec'[x].id] = x
    BY <1>1 DEF Reached
  <2>1. /\ exec[x].id = exec'[x].id /\ exec[x].id \in Ids
        /\ x = tab.current \/ exec[x].status = "executing"
    BY <1>2, <1>3, Typed
  <2>2. tab.modules[exec[x].id] = x
    BY <2>1, OwnNames DEF Core, Reached
  <2> QED BY <1>3, <2>1, <2>2
<1> QED BY <1>5, <1>6, <1>7, <1>8, <1>9, <1>10, <1>11 DEF Core

(* The server gives a start an id that nothing had. *)
LEMMA CreatedCore ==
    ASSUME Core, NEW o \in Started, CreateExecution(o)
    PROVE  Core'
<1>1. PICK k \in Newer :
        /\ srv[k].life = "none" /\ active' = active \cup {k}
        /\ srv' = [srv EXCEPT ![k] = [script |-> exec[o].script, life |-> "running"]]
        /\ post' = [post EXCEPT ![o] = [at |-> "created", id |-> k]]
  BY DEF CreateExecution, Lowest
<1>2. /\ post[o].at = "sent"
      /\ UNCHANGED <<loading, exec, tab, selected, mixed>>
  BY DEF CreateExecution
<1>3. k \in Ids /\ k # 0 /\ o \in Objects
  BY OwnNames DEF Objects, Ids
<1>4. /\ post' \in [Started -> PostRecord] /\ post'[o].at = "created" /\ post'[o].id = k
      /\ \A p \in Started : p # o => post'[p] = post[p]
  BY <1>1, Typed DEF PostRecord
<1>5. /\ srv' \in [Ids -> ServerRecord] /\ srv'[k].life = "running"
      /\ \A i \in Ids : i # k => srv'[i] = srv[i]
  <2>1. exec[o].script \in ScriptNames
    BY <1>3, Typed DEF ExecutorRecord
  <2> QED BY <1>1, <1>3, <2>1, Typed DEF ServerRecord
<1>6. TabTypes'
  BY <1>1, <1>2, <1>3, <1>4, <1>5 DEF Core, TabTypes
<1>7. \A i \in Ids : (Known(i) => srv'[i].life # "none") /\ (Over(i) => srv'[i].life = "over")
  BY <1>1, <1>5 DEF Known, Over
<1>8. IdsKnown'
  <2>1. ASSUME NEW p \in Started, p # o
        PROVE  post'[p] = post[p] /\ post[p].id # k
    BY <1>1, <1>3, <1>4, <2>1 DEF Core, IdsKnown, Known
  <2>2. \A i \in active' : srv'[i].life # "none"
    BY <1>1, <1>5, <1>7 DEF Core, TabTypes, IdsKnown
  <2>3. \A p \in Started : post'[p].id # 0 => srv'[post'[p].id].life # "none"
    <3> TAKE p \in Started
    <3>1. CASE p = o
      BY <1>4, <1>5, <3>1
    <3>2. CASE p # o
      <4>1. post'[p] = post[p] /\ post[p].id \in Newer \cup {0}
        BY <1>4, <3>2, Typed DEF PostRecord
      <4> QED BY <1>7, <4>1 DEF Core, IdsKnown, Ids
    <3> QED BY <3>1, <3>2
  <2>4. \A p \in Started : post'[p].at = "created" => post'[p].id # 0
    BY <1>3, <1>4 DEF Core, IdsKnown
  <2>5. \A p, q \in Started : post'[p].id = post'[q].id /\ post'[p].id # 0 => p = q
    BY <1>4, <2>1 DEF Core, IdsKnown
  <2> QED BY <2>2, <2>3, <2>4, <2>5 DEF IdsKnown, Known
<1>9. OwnIds'
  <2>1. exec[o].id = 0
    BY <1>2 DEF Core, OwnIds
  <2>2. \A p \in Started : exec[p].id # 0 => exec[p].id = post'[p].id /\ post'[p].at = "done"
    BY <1>4, <2>1 DEF Core, OwnIds
  <2>3. \A x \in Objects : exec[x].id # 0 => srv'[exec[x].id].life # "none"
    BY <1>7, Typed DEF Core, OwnIds
  <2> QED BY <1>2, <2>2, <2>3 DEF Core, OwnIds, Known
<1>10. Registered' /\ Reached'
  BY <1>2 DEF Core, Registered, Reached
<1>11. SocketsTell'
  <2> SUFFICES ASSUME NEW x \in Objects, exec[x].status = "finished" \/ exec[x].socket = "ended"
               PROVE  srv'[exec[x].id].life = "over"
    BY <1>2 DEF Core, SocketsTell, Over
  <2>1. exec[x].id \in Ids /\ Over(exec[x].id)
    BY Typed DEF Core, SocketsTell
  <2> QED BY <1>7, <2>1
<1>12. OneAtATime'
  <2>1. \A p \in Started : Waiting(p) <=> post'[p].at \in {"sent", "created", "failed"}
    BY <1>2, <1>4 DEF Waiting
  <2> QED BY <1>2, <2>1 DEF Core, OneAtATime, Waiting
<1> QED BY <1>6, <1>8, <1>9, <1>10, <1>11, <1>12 DEF Core

LEMMA FailedCore ==
    ASSUME Core, NEW o \in Started, FailStart(o)
    PROVE  Core'
<1>1. /\ post[o].at \in {"sent", "created"} /\ post' = [post EXCEPT ![o].at = "failed"]
      /\ UNCHANGED <<srv, active, loading, exec, tab, selected, mixed>>
  BY DEF FailStart
<1>2. /\ post' \in [Started -> PostRecord] /\ post'[o].at = "failed"
      /\ \A p \in Started : post'[p].id = post[p].id
      /\ \A p \in Started : p # o => post'[p] = post[p]
  BY <1>1, Typed DEF PostRecord
<1>3. TabTypes' /\ IdsKnown'
  BY <1>1, <1>2 DEF Core, TabTypes, IdsKnown, Known
<1>4. OwnIds'
  <2>1. \A p \in Started : exec[p].id # 0 => p # o /\ exec[p].id = post[p].id /\ post[p].at = "done"
    BY <1>1 DEF Core, OwnIds
  <2>2. \A p \in Started : exec[p].id # 0 => exec[p].id = post'[p].id /\ post'[p].at = "done"
    BY <1>2, <2>1
  <2> QED BY <1>1, <2>2 DEF Core, OwnIds, Known
<1>5. Registered' /\ Reached' /\ SocketsTell'
  BY <1>1 DEF Core, Registered, Reached, SocketsTell, Over
<1>6. OneAtATime'
  <2>1. \A p \in Started : Waiting(p) <=> post'[p].at \in {"sent", "created", "failed"}
    BY <1>1, <1>2 DEF Waiting
  <2> QED BY <1>1, <2>1 DEF Core, OneAtATime, Waiting
<1> QED BY <1>3, <1>4, <1>5, <1>6 DEF Core

(* The list of the first load. *)
LEMMA ListedCore ==
    ASSUME Core, ListActive
    PROVE  Core'
<1>1. UNCHANGED <<srv, active, post, exec, tab, selected>>
  BY DEF ListActive
<1>2. \/ /\ loading' = [at |-> "configs", ids |-> active, left |-> active,
                        choose |-> tab.current = Nobody]
         /\ mixed' = (mixed \/ active \cap Newer # {})
      \/ loading' = [loading EXCEPT !.at = "failed"] /\ mixed' = mixed
  BY DEF ListActive
<1>3. /\ loading' \in LoadingRecord
      /\ ~mixed' => ~mixed /\ loading'.left \cap Newer = {}
  <2>1. active \in SUBSET Ids /\ loading \in LoadingRecord
    BY DEF Core, TabTypes
  <2>2. CASE /\ loading' = [at |-> "configs", ids |-> active, left |-> active,
                            choose |-> tab.current = Nobody]
             /\ mixed' = (mixed \/ active \cap Newer # {})
    BY <2>1, <2>2 DEF LoadingRecord
  <2>3. CASE loading' = [loading EXCEPT !.at = "failed"] /\ mixed' = mixed
    BY <2>1, <2>3 DEF LoadingRecord, Core, OneAtATime
  <2> QED BY <1>2, <2>2, <2>3
<1>4. TabTypes'
  BY <1>1, <1>3 DEF Core, TabTypes
<1>5. IdsKnown' /\ OwnIds' /\ Registered' /\ SocketsTell'
  BY <1>1 DEF Core, IdsKnown, OwnIds, Registered, SocketsTell, Known, Over
<1>6. OneAtATime' /\ Reached'
  BY <1>1, <1>3 DEF Core, OneAtATime, Reached, Waiting
<1> QED BY <1>4, <1>5, <1>6 DEF Core

(* The executor of an execution that was there before is made when its     *)
(* script is known, with its own id, and registered under it.              *)
LEMMA LoadedCore ==
    ASSUME Core, NEW id \in Ids, LoadConfig(id)
    PROVE  Core'
<1> DEFINE q == <<"loaded", id>>
           made == [tab EXCEPT !.modules[id] = q, !.executors[id] = q]
           fits == {i \in loading.ids : srv[i].script = selected}
           last == /\ id \in active /\ loading.left = {id} /\ loading.choose
                   /\ tab.current = Nobody /\ fits # {}
<1>1. /\ id \in loading.left
      /\ UNCHANGED <<srv, active, post, selected>>
      /\ loading' = [loading EXCEPT !.left = @ \ {id}, !.choose = @ /\ id \in active]
  BY DEF LoadConfig
<1>2. loading' \in LoadingRecord /\ loading'.left = loading.left \ {id}
  <2>1. loading \in LoadingRecord
    BY DEF Core, TabTypes
  <2>2. loading' = [at |-> loading.at, ids |-> loading.ids, left |-> loading.left \ {id},
                    choose |-> loading.choose /\ id \in active]
    BY <1>1, <2>1 DEF LoadingRecord
  <2> QED BY <2>1, <2>2 DEF LoadingRecord
<1>3. CASE id \notin active
  <2>1. exec' = exec /\ tab' = tab /\ mixed' = mixed
    BY <1>3 DEF LoadConfig
  <2>2. TabTypes'
    BY <1>1, <1>2, <2>1 DEF Core, TabTypes
  <2>3. IdsKnown' /\ OwnIds' /\ Registered' /\ SocketsTell'
    BY <1>1, <2>1 DEF Core, IdsKnown, OwnIds, Registered, SocketsTell, Known, Over
  <2>4. OneAtATime' /\ Reached'
    BY <1>1, <1>2, <2>1 DEF Core, OneAtATime, Reached, Waiting
  <2> QED BY <2>2, <2>3, <2>4 DEF Core
<1>4. CASE id \in active
  <2>1. q \in Objects /\ q \notin Started /\ q # Nobody /\ id # 0 /\ Known(id)
    BY <1>4, OwnNames DEF Core, IdsKnown
  <2>2. /\ exec' \in [Objects -> ExecutorRecord]
        /\ exec'[q].id = id /\ exec'[q].status = "executing" /\ exec'[q].socket = "open"
        /\ \A x \in Objects : x # q => exec'[x] = exec[x]
    <3>1. srv[id].script \in ScriptNames
      BY Typed DEF ServerRecord
    <3>2. exec' = [exec EXCEPT ![q] = Attached(Executor(srv[id].script), id)]
      BY <1>4 DEF LoadConfig
    <3>3. PICK e \in ExecutorRecord : e = Executor(srv[id].script) /\ e.socket = "none"
      BY <3>1, ExecutorFields
    <3> QED BY <2>1, <3>2, <3>3, Typed, AttachedFields
  <2>3. /\ made \in TabRecord /\ made.current = tab.current
        /\ made.modules[id] = q /\ made.executors[id] = q
        /\ made.modules[Temp] = tab.modules[Temp]
        /\ \A i \in Ids : i # id => /\ made.modules[i] = tab.modules[i]
                                    /\ made.executors[i] = tab.executors[i]
    <3>1. q \in Somebody /\ id # Temp /\ tab \in TabRecord
      BY <2>1, Typed DEF Somebody, Temp
    <3> HIDE DEF q
    <3>2. PICK r : r = [tab EXCEPT !.modules[id] = q, !.executors[id] = q]
      OBVIOUS
    <3>3. r = [modules |-> [tab.modules EXCEPT ![id] = q],
               executors |-> [tab.executors EXCEPT ![id] = q], current |-> tab.current]
      BY <3>1, <3>2 DEF TabRecord
    <3>4. /\ r \in TabRecord /\ r.current = tab.current
          /\ r.modules[id] = q /\ r.executors[id] = q
          /\ r.modules[Temp] = tab.modules[Temp]
          /\ \A i \in Ids : i # id => /\ r.modules[i] = tab.modules[i]
                                      /\ r.executors[i] = tab.executors[i]
      BY <3>1, <3>3 DEF TabRecord
    <3>5. made = r
      BY <3>2
    <3> HIDE DEF made
    <3> QED BY <3>4, <3>5
  <2>4. \/ tab' = made /\ mixed' = mixed
        \/ \E i \in Ids : /\ tab.current = Nobody
                          /\ tab' = SelectExecutor(made, exec', <<"loaded", i>>)
                          /\ mixed' = (mixed \/ made.modules[i] # <<"loaded", i>>)
    <3>1. \A i \in Lowest(fits) : i \in Ids
      BY DEF Lowest, Core, TabTypes, LoadingRecord
    <3> QED BY <1>4, <3>1 DEF LoadConfig
  <2> HIDE DEF made
  <2>5. /\ tab' \in TabRecord /\ (~mixed' => ~mixed)
        /\ tab'.modules = made.modules /\ tab'.executors = made.executors
        /\ \/ tab'.current = tab.current
           \/ \E i \in Ids : /\ tab'.current = <<"loaded", i>>
                             /\ ~mixed' => made.modules[i] = <<"loaded", i>>
    <3>1. CASE tab' = made /\ mixed' = mixed
      BY <2>3, <3>1
    <3>2. ASSUME NEW i \in Ids, tab.current = Nobody,
                 tab' = SelectExecutor(made, exec', <<"loaded", i>>),
                 mixed' = (mixed \/ made.modules[i] # <<"loaded", i>>)
          PROVE  /\ tab' \in TabRecord /\ (~mixed' => ~mixed)
                 /\ tab'.modules = made.modules /\ tab'.executors = made.executors
                 /\ tab'.current = <<"loaded", i>>
                 /\ ~mixed' => made.modules[i] = <<"loaded", i>>
      <4>1. <<"loaded", i>> \in Somebody
        BY OwnNames DEF Somebody
      <4>2. Selects(made, exec', <<"loaded", i>>, tab')
        BY <2>2, <2>3, <3>2, <4>1, SelectFields
      <4>3. /\ tab' \in TabRecord /\ tab'.current = <<"loaded", i>>
            /\ tab'.modules = made.modules /\ tab'.executors = made.executors
        BY <2>3, <3>2, <4>2 DEF Selects
      <4> QED BY <3>2, <4>3
    <3> QED BY <2>4, <3>1, <3>2
  <2>6. TabTypes'
    BY <1>1, <1>2, <2>2, <2>5 DEF Core, TabTypes
  <2>7. IdsKnown'
    BY <1>1 DEF Core, IdsKnown, Known
  <2>8. OwnIds'
    <3>1. \A p \in Started : p \in Objects /\ p # q
      BY <2>1, Typed
    <3>2. \A i \in Ids : <<"loaded", i>> \in Objects /\ (<<"loaded", i>> = q => i = id)
      BY OwnNames
    <3>3. \A p \in Started : exec'[p] = exec[p]
      BY <2>2, <3>1
    <3>4. \A i \in Ids : exec'[<<"loaded", i>>].id \in {0, i}
      BY <2>2, <3>2 DEF Core, OwnIds
    <3>5. \A x \in Objects : exec'[x].id # 0 => srv[exec'[x].id].life # "none"
      BY <2>1, <2>2 DEF Core, OwnIds, Known
    <3> QED BY <1>1, <3>3, <3>4, <3>5 DEF Core, OwnIds, Known
  <2>9. Registered'
    <3> SUFFICES ASSUME NEW i \in Ids
                 PROVE  /\ tab'.executors[i] = tab'.modules[i]
                        /\ tab'.modules[i] # Nobody => exec'[tab'.modules[i]].id = i
      BY DEF Registered
    <3>1. CASE i = id
      BY <2>2, <2>3, <2>5, <3>1
    <3>2. CASE i # id
      <4>1. tab.modules[i] # q
        <5>1. exec[q].id \in {0, id}
          BY DEF Core, OwnIds
        <5> QED BY <2>1, <3>2, <5>1, RegisteredHas, OwnNames
      <4>2. tab.modules[i] # Nobody => exec'[tab.modules[i]] = exec[tab.modules[i]]
        BY <2>2, <4>1, Typed DEF Somebody
      <4> QED BY <2>3, <2>5, <3>2, <4>2 DEF Core, Registered
    <3> QED BY <3>1, <3>2
  <2>10. SocketsTell'
    BY <1>1, <2>1, <2>2 DEF Core, SocketsTell, Over
  <2>11. OneAtATime'
    <3> SUFFICES ASSUME ~mixed'
                 PROVE  /\ loading'.left \cap Newer = {}
                        /\ \A i \in Newer : exec'[<<"loaded", i>>].id = 0
                        /\ \A p \in Started : Waiting(p)' => tab'.modules[Temp] = p
                        /\ \A x \in Objects :
                              exec'[x].status = "initializing" => x \in Started /\ Waiting(x)'
                        /\ \A x \in Objects :
                              exec'[x].status = "executing" => exec'[x].socket # "closed"
      BY DEF OneAtATime, Waiting
    <3>1. loading.left \cap Newer = {} /\ id \notin Newer
      BY <1>1, <2>5 DEF Core, OneAtATime
    <3>2. ASSUME NEW i \in Newer
          PROVE  exec'[<<"loaded", i>>].id = 0
      <4>1. i \in Ids /\ <<"loaded", i>> \in Objects /\ <<"loaded", i>> # q
        BY <3>1, OwnNames DEF Ids
      <4> QED BY <2>2, <2>5, <4>1 DEF Core, OneAtATime
    <3> QED BY <1>1, <1>2, <2>2, <2>3, <2>5, <3>1, <3>2 DEF Core, OneAtATime, Waiting
  <2>12. Reached'
    <3> SUFFICES ASSUME ~mixed', NEW x \in Objects, exec'[x].id # 0, x # q,
                        x = tab'.current \/ exec'[x].status = "executing"
                 PROVE  tab'.modules[exec'[x].id] = x
      BY <2>2, <2>3, <2>5 DEF Reached
    <3>1. exec'[x] = exec[x] /\ exec[x].id \in Ids
      BY <2>2, Typed
    <3>2. exec[x].id # id
      <4>1. CASE x \in Started
        <5>1. exec[x].id = post[x].id /\ post[x].id \in Newer
          BY <3>1, <4>1, OwnNames, Typed DEF Core, OwnIds, PostRecord
        <5> QED BY <1>1, <2>5, <5>1 DEF Core, OneAtATime
      <4>2. CASE \E i \in Ids : x = <<"loaded", i>>
        BY <3>1, <4>2, OwnNames DEF Core, OwnIds
      <4> QED BY <4>1, <4>2, OwnNames
    <3>3. CASE x = tab.current \/ exec[x].status = "executing"
      <4>1. tab.modules[exec[x].id] = x
        BY <2>5, <3>1, <3>3, OwnNames DEF Core, Reached
      <4> QED BY <2>3, <2>5, <3>1, <3>2, <4>1
    <3>4. CASE \E i \in Ids : x = <<"loaded", i>> /\ made.modules[i] = x
      BY <2>5, <3>1, <3>4, OwnNames DEF Core, OwnIds
    <3> QED BY <2>5, <3>1, <3>3, <3>4
  <2> QED BY <2>6, <2>7, <2>8, <2>9, <2>10, <2>11, <2>12 DEF Core
<1> QED BY <1>3, <1>4

(* A socket that is ended, at the end of the execution, or breaks. *)
LEMMA SocketCore ==
    ASSUME Core, NEW o \in Objects, NEW to \in {"ended", "asking"}, Socket(o, to),
           to = "ended" => Over(exec[o].id)
    PROVE  Core'
<1>1. /\ exec[o].socket = "open" /\ exec' = [exec EXCEPT ![o].socket = to]
      /\ UNCHANGED <<srv, active, post, loading, tab, selected, mixed>>
  BY DEF Socket
<1>2. /\ exec' \in [Objects -> ExecutorRecord] /\ exec'[o].socket = to
      /\ \A x \in Objects : x # o => exec'[x].socket = exec[x].socket
      /\ \A x \in Objects : exec'[x].id = exec[x].id /\ exec'[x].status = exec[x].status
  BY <1>1, Typed DEF ExecutorRecord
<1>3. TabTypes' /\ IdsKnown'
  BY <1>1, <1>2 DEF Core, TabTypes, IdsKnown, Known
<1>4. OwnIds'
  BY <1>1, <1>2, OwnNames, Typed DEF Core, OwnIds, Known
<1>5. Registered'
  BY <1>1, <1>2, Typed DEF Core, Registered, Somebody
<1>6. SocketsTell'
  BY <1>1, <1>2 DEF Core, SocketsTell, Over
<1>7. \A i \in Newer : <<"loaded", i>> \in Objects
  BY OwnNames DEF Ids
<1>8. OneAtATime' /\ Reached'
  BY <1>1, <1>2, <1>7 DEF Core, OneAtATime, Reached, Waiting
<1> QED BY <1>3, <1>4, <1>5, <1>6, <1>8 DEF Core

(* The end of a socket is told to the executor registered under its id. *)
EventTold(o, s) ==
    exec' = [SetStatus(exec, exec[o].id, s) EXCEPT ![o].socket = "closed"]

LEMMA EventFields ==
    ASSUME Core, NEW o \in Objects, exec[o].socket # "none",
           NEW s \in Final, EventTold(o, s)
    PROVE  /\ exec[o].id \in Ids /\ exec' \in [Objects -> ExecutorRecord]
           /\ exec'[o].socket = "closed"
           /\ \A x \in Objects : x # o => exec'[x].socket = exec[x].socket
           /\ \A x \in Objects :
                 /\ exec'[x].id = exec[x].id
                 /\ exec'[x].status = IF x = tab.modules[exec[o].id] THEN s ELSE exec[x].status
<1>1. exec[o].id \in Ids
  BY Typed DEF Core, SocketsTell
<1>2. PICK told \in [Objects -> ExecutorRecord] :
        /\ exec' = [told EXCEPT ![o].socket = "closed"]
        /\ \A x \in Objects :
              /\ told[x].id = exec[x].id /\ told[x].socket = exec[x].socket
              /\ told[x].status = IF x = tab.modules[exec[o].id] THEN s ELSE exec[x].status
  <2>1. s \in Statuses
    BY DEF Statuses
  <2>2. SetStatus(exec, exec[o].id, s) \in [Objects -> ExecutorRecord]
    BY <1>1, <2>1, SetStatusFields DEF Core
  <2>3. PICK k \in Ids : k = exec[o].id
    BY <1>1
  <2>4. \A x \in Objects :
           /\ SetStatus(exec, k, s)[x].id = exec[x].id
           /\ SetStatus(exec, k, s)[x].socket = exec[x].socket
           /\ SetStatus(exec, k, s)[x].status = IF x = tab.modules[k] THEN s ELSE exec[x].status
    BY <2>1, SetStatusFields DEF Core
  <2>5. exec' = [SetStatus(exec, k, s) EXCEPT ![o].socket = "closed"]
    BY <2>3 DEF EventTold
  <2> QED BY <2>2, <2>3, <2>4, <2>5
<1>3. \A x \in Objects : told[x] \in ExecutorRecord
  OBVIOUS
<1> QED BY <1>1, <1>2, <1>3 DEF ExecutorRecord

LEMMA EventCore ==
    ASSUME Core, NEW o \in Objects, exec[o].socket # "none",
           NEW s \in Final, s = "finished" => Over(exec[o].id), EventTold(o, s),
           UNCHANGED <<srv, active, post, loading, tab, selected, mixed>>
    PROVE  Core'
<1> DEFINE k == exec[o].id
           m == tab.modules[k]
<1>1. /\ k \in Ids /\ exec' \in [Objects -> ExecutorRecord]
      /\ exec'[o].socket = "closed"
      /\ \A x \in Objects : x # o => exec'[x].socket = exec[x].socket
      /\ \A x \in Objects : /\ exec'[x].id = exec[x].id
                            /\ exec'[x].status = IF x = m THEN s ELSE exec[x].status
  BY EventFields
<1>2. m \in Objects => exec[m].id = k
  BY <1>1, RegisteredHas
<1>3. TabTypes' /\ IdsKnown'
  BY <1>1 DEF Core, TabTypes, IdsKnown, Known
<1>4. OwnIds'
  BY <1>1, OwnNames, Typed DEF Core, OwnIds, Known
<1>5. Registered'
  BY <1>1, Typed DEF Core, Registered, Somebody
<1>6. SocketsTell'
  <2> SUFFICES ASSUME NEW x \in Objects
               PROVE  /\ exec'[x].status \in {"executing", "finished"} => exec'[x].id # 0
                      /\ exec'[x].socket # "none" => exec'[x].id # 0
                      /\ exec'[x].status = "executing" => exec'[x].socket # "none"
                      /\ exec'[x].status = "finished" \/ exec'[x].socket = "ended"
                           => srv[exec'[x].id].life = "over"
    BY DEF SocketsTell, Over
  <2>1. /\ exec[x].status \in {"executing", "finished"} => exec[x].id # 0
        /\ exec[x].socket # "none" => exec[x].id # 0
        /\ exec[x].status = "executing" => exec[x].socket # "none"
        /\ exec[x].status = "finished" \/ exec[x].socket = "ended" => srv[exec[x].id].life = "over"
    BY DEF Core, SocketsTell, Over
  <2>2. CASE x = m
    BY <1>1, <1>2, <2>1, <2>2, OwnNames DEF Over, Final
  <2>3. CASE x # m
    BY <1>1, <2>1, <2>3, OwnNames
  <2> QED BY <2>2, <2>3
<1>7. OneAtATime'
  <2> SUFFICES ASSUME ~mixed
               PROVE  /\ \A i \in Newer : exec'[<<"loaded", i>>].id = 0
                      /\ \A x \in Objects :
                            exec'[x].status = "initializing" => exec[x].status = "initializing"
                      /\ \A x \in Objects :
                            exec'[x].status = "executing" => exec'[x].socket # "closed"
    BY DEF Core, OneAtATime, Waiting
  <2>1. \A i \in Newer : <<"loaded", i>> \in Objects
    BY OwnNames DEF Ids
  <2>2. \A x \in Objects : exec'[x].status \in {"initializing", "executing"} =>
           x # m /\ exec[x].status = exec'[x].status
    BY <1>1 DEF Final
  <2>3. ASSUME NEW x \in Objects, exec'[x].status = "executing"
        PROVE  exec'[x].socket # "closed"
    <3>1. x # m /\ exec[x].status = "executing"
      BY <2>2, <2>3
    <3>2. exec[x].socket # "closed" /\ exec[x].id # 0 /\ tab.modules[exec[x].id] = x
      BY <3>1 DEF Core, OneAtATime, Reached, SocketsTell
    <3>3. x # o
      BY <3>1, <3>2
    <3> QED BY <1>1, <3>2, <3>3
  <2> QED BY <1>1, <2>1, <2>2, <2>3 DEF Core, OneAtATime
<1>8. Reached'
  <2>1. \A x \in Objects : exec'[x].status = "executing" => exec[x].status = "executing"
    BY <1>1 DEF Final
  <2> QED BY <1>1, <2>1 DEF Core, Reached
<1> QED BY <1>3, <1>4, <1>5, <1>6, <1>7, <1>8 DEF Core

(* On the server: what was an execution stays one, what is over stays so. *)
LEMMA EndsCore ==
    ASSUME Core, NEW id \in Ids, ScriptEnds(id)
    PROVE  Core'
<1>1. /\ srv[id].life = "running" /\ srv' = [srv EXCEPT ![id].life = "over"]
      /\ UNCHANGED <<active, post, loading, exec, tab, selected, mixed>>
  BY DEF ScriptEnds
<1>2. /\ srv' \in [Ids -> ServerRecord]
      /\ \A i \in Ids : /\ (srv[i].life # "none" => srv'[i].life # "none")
                        /\ (srv[i].life = "over" => srv'[i].life = "over")
  BY <1>1, Typed DEF ServerRecord
<1>3. TabTypes'
  BY <1>1, <1>2 DEF Core, TabTypes
<1>4. IdsKnown'
  <2>1. \A p \in Started : post[p].id # 0 => post[p].id \in Ids
    BY Typed DEF PostRecord, Ids
  <2> QED BY <1>1, <1>2, <2>1 DEF Core, TabTypes, IdsKnown, Known
<1>5. OwnIds'
  BY <1>1, <1>2, Typed DEF Core, OwnIds, Known
<1>6. SocketsTell'
  <2> SUFFICES ASSUME NEW x \in Objects, exec[x].status = "finished" \/ exec[x].socket = "ended"
               PROVE  srv'[exec[x].id].life = "over"
    BY <1>1 DEF Core, SocketsTell, Over
  <2>1. exec[x].id \in Ids /\ srv[exec[x].id].life = "over"
    BY Typed DEF Core, SocketsTell, Over
  <2> QED BY <1>2, <2>1
<1>7. Registered' /\ OneAtATime' /\ Reached'
  BY <1>1 DEF Core, Registered, OneAtATime, Reached, Waiting
<1> QED BY <1>3, <1>4, <1>5, <1>6, <1>7 DEF Core

LEMMA CleanedCore ==
    ASSUME Core, active' \subseteq active,
           UNCHANGED <<srv, post, loading, exec, tab, selected, mixed>>
    PROVE  Core'
<1>1. TabTypes' /\ IdsKnown'
  BY DEF Core, TabTypes, IdsKnown, Known
<1>2. OwnIds' /\ Registered' /\ SocketsTell'
  BY DEF Core, OwnIds, Registered, SocketsTell, Known, Over
<1>3. OneAtATime' /\ Reached'
  BY DEF Core, OneAtATime, Reached, Waiting
<1> QED BY <1>1, <1>2, <1>3 DEF Core

-----------------------------------------------------------------------------
(* Every step, with its page. *)

LEMMA SelectSteps ==
    ASSUME TabInv,
           (\E s \in ScriptNames : SelectScript(s)) \/ (\E o \in Somebody : ClickTab(o))
    PROVE  TabInv'
<1>1. /\ UNCHANGED <<srv, active, post, loading, exec, mixed>> /\ Rendered
      /\ selected' \in ScriptNames
  BY DEF SelectScript, ClickTab, TabInv, Core, TabTypes
<1>2. Core
  BY DEF TabInv
<1>3. \E o \in Somebody : /\ tab' = SelectExecutor(tab, exec, o)
                          /\ o = Nobody \/ \E k \in Ids : tab.executors[k] = o
  BY <1>2, Typed DEF SelectScript, ClickTab, Lowest, Listed, Somebody
<1>4. Core'
  BY <1>1, <1>2, <1>3, Typed, SelectFields, SelectedCore
<1> QED BY <1>1, <1>4, PageRendered DEF TabInv, Turns

LEMMA StartSteps ==
    ASSUME TabInv, NEW o \in Started,
           StartExecution(o) \/ StartAnswered(o) \/ StartRefused(o)
    PROVE  TabInv'
<1>1. Core /\ o \in Objects
  BY DEF TabInv, Objects
<1>2. Core'
  BY <1>1, StartCore, AnsweredCore, RefusedCore
<1>3. Rendered /\ srv' = srv /\ active' = active
  BY DEF StartExecution, StartAnswered, StartRefused
<1>4. ASSUME NEW x \in Objects
      PROVE  ~Turns(x)
  <2>1. CASE StartExecution(o)
    <3>1. PICK e \in ExecutorRecord : e = Executor(selected) /\ e.status = "initializing"
      BY <1>1, ExecutorFields DEF Core, TabTypes
    <3>2. exec' = [exec EXCEPT ![o] = e]
      BY <2>1, <3>1 DEF StartExecution
    <3> QED BY <1>1, <3>1, <3>2, Typed DEF Turns
  <2>2. CASE StartAnswered(o)
    <3>1. PICK k \in Ids : k = post[o].id
      BY <1>1, <2>2, Typed DEF StartAnswered, Core, IdsKnown, PostRecord, Ids
    <3>2. exec' = [exec EXCEPT ![o] = Attached(exec[o], k)]
      BY <2>2, <3>1 DEF StartAnswered
    <3>3. PICK e \in ExecutorRecord : e = Attached(exec[o], k) /\ e.status = "executing"
      BY <1>1, Typed, AttachedFields
    <3> QED BY <1>1, <3>2, <3>3, Typed DEF Turns
  <2>3. CASE StartRefused(o)
    <3>1. exec' = SetStatus(exec, Temp, "error")
      BY <2>3 DEF StartRefused
    <3>2. exec'[x].status \in {"error", exec[x].status}
      BY <1>1, <3>1, SetStatusFields DEF Core, Temp, Statuses, Final
    <3> QED BY <3>2 DEF Turns
  <2> QED BY <2>1, <2>2, <2>3
<1>5. Page'
  BY <1>2, <1>3, <1>4, PageRendered
<1> QED BY <1>2, <1>5 DEF TabInv

LEMMA KillSteps ==
    ASSUME TabInv, StopScript \/ StopAll \/ (\E o \in Objects : TickKillInterval(o))
    PROVE  TabInv'
<1>1. Core
  BY DEF TabInv
<1>2. UNCHANGED <<srv, active, post, loading, selected, tab, mixed>> /\ Rendered
  BY DEF StopScript, StopAll, TickKillInterval
<1>3. /\ exec' \in [Objects -> ExecutorRecord]
      /\ \A x \in Objects : /\ exec'[x].id = exec[x].id /\ exec'[x].status = exec[x].status
                            /\ exec'[x].socket = exec[x].socket
  <2>1. CASE StopScript
    <3>1. PICK o \in Objects : exec' = [exec EXCEPT ![o] = Counting(exec[o])]
      <4> DEFINE o == tab.modules[exec[tab.current].id]
      <4>1. tab.current \in Objects
        BY <1>1, <2>1, Typed DEF StopScript, StatusOf, Somebody
      <4>2. o # Nobody /\ exec' = [exec EXCEPT ![o] = Counting(@)]
        BY <2>1 DEF StopScript
      <4>3. o \in Objects
        BY <1>1, <4>1, <4>2, Typed DEF Somebody, Temp
      <4> QED BY <4>2, <4>3
    <3>2. PICK e \in ExecutorRecord :
            /\ e = Counting(exec[o]) /\ e.id = exec[o].id
            /\ e.status = exec[o].status /\ e.socket = exec[o].socket
      BY <1>1, Typed, CountingFields
    <3> QED BY <1>1, <3>1, <3>2, Typed
  <2>2. CASE StopAll
    <3> DEFINE running == {o \in Objects : exec[o].status = "executing"
                                           /\ \E id \in Ids : tab.executors[id] = o}
    <3>1. exec' = [o \in Objects |-> IF o \in running THEN Counting(exec[o]) ELSE exec[o]]
      BY <2>2 DEF StopAll
    <3>2. ASSUME NEW x \in Objects
          PROVE  /\ exec'[x] \in ExecutorRecord
                 /\ exec'[x].id = exec[x].id /\ exec'[x].status = exec[x].status
                 /\ exec'[x].socket = exec[x].socket
      <4>1. exec'[x] = Counting(exec[x]) \/ exec'[x] = exec[x]
        BY <3>1
      <4> QED BY <1>1, <4>1, Typed, CountingFields
    <3> QED BY <3>1, <3>2
  <2>3. CASE \E o \in Objects : TickKillInterval(o)
    <3>1. PICK o \in Objects, k \in {"enabled", "none"} : exec' = [exec EXCEPT ![o].kill = k]
      BY <2>3 DEF TickKillInterval
    <3> QED BY <1>1, <3>1, Typed DEF ExecutorRecord
  <2> QED BY <2>1, <2>2, <2>3
<1>4. Core'
  BY <1>1, <1>2, <1>3, KillCore
<1>5. Page'
  BY <1>2, <1>3, <1>4, PageRendered DEF Turns
<1> QED BY <1>4, <1>5 DEF TabInv

LEMMA LoadSteps ==
    ASSUME TabInv, NEW id \in Ids, LoadConfig(id)
    PROVE  TabInv'
<1>1. Core /\ Core'
  BY LoadedCore DEF TabInv
<1>2. Rendered /\ srv' = srv /\ active' = active
  BY DEF LoadConfig
<1>3. ASSUME NEW x \in Objects
      PROVE  ~Turns(x)
  <2>1. CASE exec' = exec
    BY <2>1 DEF Turns
  <2>2. CASE exec' = [exec EXCEPT ![<<"loaded", id>>] = Attached(Executor(srv[id].script), id)]
    <3>1. srv[id].script \in ScriptNames /\ <<"loaded", id>> \in Objects
      BY <1>1, OwnNames, Typed DEF ServerRecord
    <3>2. PICK e \in ExecutorRecord :
            e = Attached(Executor(srv[id].script), id) /\ e.status = "executing"
      BY <3>1, ExecutorFields, AttachedFields
    <3> QED BY <1>1, <2>2, <3>1, <3>2, Typed DEF Turns
  <2> QED BY <2>1, <2>2 DEF LoadConfig
<1>4. Page'
  BY <1>1, <1>2, <1>3, PageRendered
<1> QED BY <1>1, <1>4 DEF TabInv

LEMMA EventSteps ==
    ASSUME TabInv, NEW o \in Objects, CloseEvent(o) \/ StatusAnswered(o)
    PROVE  TabInv'
<1>1. Core
  BY DEF TabInv
<1>2. /\ UNCHANGED <<srv, active, post, loading, tab, selected, mixed>> /\ Rendered
      /\ exec[o].socket # "none"
  BY DEF CloseEvent, StatusAnswered
<1>3. exec[o].id \in Ids
  BY <1>1, <1>2, Typed DEF Core, SocketsTell
<1>4. PICK s \in Final : EventTold(o, s) /\ (s = "finished" => Over(exec[o].id))
  <2>1. CASE CloseEvent(o)
    <3>1. EventTold(o, "finished") /\ exec[o].socket = "ended"
      BY <2>1 DEF CloseEvent, EventTold
    <3> QED BY <1>1, <3>1 DEF Core, SocketsTell, Final
  <2>2. CASE StatusAnswered(o)
    <3>1. srv[exec[o].id].life \in {"running", "over"}
      BY <1>1, <1>3, OwnNames, Typed DEF ServerRecord, Core, OwnIds, Known
    <3> QED BY <2>2, <3>1 DEF StatusAnswered, EventTold, Over, Final
  <2> QED BY <2>1, <2>2
<1>5. Core'
  BY <1>1, <1>2, <1>4, EventCore
<1>6. ASSUME NEW x \in Objects, Turns(x)
      PROVE  exec'[x].id = exec[x].id /\ tab.modules[exec[x].id] = x
  <2>1. /\ exec'[x].id = exec[x].id
        /\ exec'[x].status = IF x = tab.modules[exec[o].id] THEN s ELSE exec[x].status
    BY <1>1, <1>2, <1>4, EventFields
  <2>2. tab.modules[exec[o].id] = x
    BY <1>6, <2>1 DEF Turns
  <2> QED BY <1>1, <1>3, <2>1, <2>2, RegisteredHas
<1>7. Page'
  BY <1>2, <1>5, <1>6, PageRendered
<1> QED BY <1>5, <1>7 DEF TabInv

(* The page is not rendered where no handler of the tab runs. *)
LEMMA QuietPage ==
    ASSUME Page, active' \subseteq active,
           \A x \in Objects : exec'[x].status = exec[x].status,
           tab.current \in Somebody,
           UNCHANGED <<srv, cleanups, tab, shown, finishedHere>>
    PROVE  Page'
BY DEF Page, StatusOf, Known, Over, Somebody

LEMMA ServeSteps ==
    ASSUME TabInv, ListActive \/ Serve
    PROVE  TabInv'
<1>1. Core /\ Page
  BY DEF TabInv
<1>2. CASE ListActive
  <2>1. /\ exec' = exec /\ active' = active
        /\ UNCHANGED <<srv, cleanups, tab, shown, finishedHere>>
    BY <1>2 DEF ListActive
  <2> QED BY <1>1, <1>2, <2>1, ListedCore, QuietPage, Typed DEF TabInv
<1>3. CASE \E o \in Started : CreateExecution(o)
  <2>1. PICK o \in Started : CreateExecution(o)
    BY <1>3
  <2>2. PICK k \in Newer :
          /\ srv[k].life = "none" /\ active' = active \cup {k}
          /\ srv' = [srv EXCEPT ![k] = [script |-> exec[o].script, life |-> "running"]]
    BY <2>1 DEF CreateExecution, Lowest
  <2>3. UNCHANGED <<cleanups, exec, tab, shown, finishedHere>>
    BY <2>1 DEF CreateExecution
  <2>4. k \in Ids /\ k \notin finishedHere /\ k \notin cleanups
    BY <1>1, <2>2 DEF Page, Known, Over, Ids
  <2>5. \A i \in Ids : i # k => srv'[i] = srv[i]
    BY <1>1, <2>2, Typed
  <2>6. \A i \in finishedHere : i \in Ids /\ srv'[i].life # "none"
    BY <1>1, <2>4, <2>5 DEF Page, Known
  <2>7. \A i \in cleanups : i \in Ids /\ srv'[i].life = "over"
    BY <1>1, <2>4, <2>5 DEF Page, Over
  <2>8. Page'
    BY <1>1, <2>2, <2>3, <2>4, <2>6, <2>7 DEF Page, StatusOf, Known, Over
  <2> QED BY <1>1, <2>1, <2>8, CreatedCore DEF TabInv
<1>4. CASE \E o \in Started : FailStart(o)
  <2>1. PICK o \in Started : FailStart(o)
    BY <1>4
  <2>2. exec' = exec /\ active' = active /\ UNCHANGED <<srv, cleanups, tab, shown, finishedHere>>
    BY <2>1 DEF FailStart
  <2> QED BY <1>1, <2>1, <2>2, FailedCore, QuietPage, Typed DEF TabInv
<1>5. CASE \E o \in Objects : SocketFinishes(o) \/ SocketBreaks(o)
  <2>1. PICK o \in Objects, to \in {"ended", "asking"} :
          Socket(o, to) /\ (to = "ended" => Over(exec[o].id))
    BY <1>5 DEF SocketFinishes, SocketBreaks
  <2>2. /\ active' = active /\ exec' = [exec EXCEPT ![o].socket = to]
        /\ UNCHANGED <<srv, cleanups, tab, shown, finishedHere>>
    BY <2>1 DEF Socket
  <2>3. \A x \in Objects : exec'[x].status = exec[x].status
    BY <1>1, <2>2, Typed DEF ExecutorRecord
  <2>4. Page'
    BY <1>1, <2>2, <2>3, QuietPage, Typed
  <2> QED BY <1>1, <2>1, <2>4, SocketCore DEF TabInv
<1>6. CASE \E id \in Ids : ScriptEnds(id)
  <2>1. PICK id \in Ids : ScriptEnds(id)
    BY <1>6
  <2>2. /\ srv[id].life = "running" /\ srv' = [srv EXCEPT ![id].life = "over"]
        /\ UNCHANGED <<active, cleanups, exec, tab, shown, finishedHere>>
    BY <2>1 DEF ScriptEnds
  <2>3. \A i \in Ids : /\ (srv[i].life # "none" => srv'[i].life # "none")
                       /\ (srv[i].life = "over" => srv'[i].life = "over")
    BY <1>1, <2>2, Typed DEF ServerRecord
  <2>4. Page'
    BY <1>1, <2>2, <2>3 DEF Page, StatusOf, Known, Over
  <2> QED BY <1>1, <2>1, <2>4, EndsCore DEF TabInv
<1>7. CASE \E id \in Ids : CleanupExecution(id)
  <2>1. PICK id \in Ids : CleanupExecution(id)
    BY <1>7
  <2>2. /\ Over(id)
        /\ active' = active \ {id} /\ cleanups' = cleanups \ {id}
        /\ UNCHANGED <<srv, post, loading, exec, tab, selected, shown, finishedHere, mixed>>
    BY <1>1, <2>1 DEF CleanupExecution, Page
  <2>3. Page'
    BY <1>1, <2>2 DEF Page, StatusOf, Known, Over
  <2> QED BY <1>1, <2>2, <2>3, CleanedCore DEF TabInv
<1>8. CASE \E id \in Ids : CleanupLost(id)
  <2>1. PICK id \in Ids : CleanupLost(id)
    BY <1>8
  <2>2. /\ cleanups' = cleanups \ {id} /\ finishedHere' = finishedHere \ {id}
        /\ UNCHANGED <<srv, active, post, loading, exec, tab, selected, shown, mixed>>
    BY <2>1 DEF CleanupLost
  <2>3. Page'
    BY <1>1, <2>2 DEF Page, StatusOf, Known, Over
  <2> QED BY <1>1, <2>2, <2>3, CleanedCore DEF TabInv
<1> QED BY <1>2, <1>3, <1>4, <1>5, <1>6, <1>7, <1>8 DEF Serve

LEMMA TabInitial ==
    ASSUME TabInit
    PROVE  TabInv
<1>1. /\ \A id \in Ids : srv[id].life \in {"none", "running"}
      /\ \A id \in Newer : srv[id] = Unstarted
      /\ active = {id \in Ids : srv[id].life = "running"}
      /\ post = [o \in Started |-> [at |-> "none", id |-> 0]]
      /\ loading = [at |-> "list", ids |-> {}, left |-> {}, choose |-> FALSE]
      /\ cleanups = {} /\ exec = [o \in Objects |-> Unmade]
      /\ tab = [modules |-> [k \in Ids \cup {Temp} |-> Nobody],
                executors |-> [k \in Ids |-> Nobody], current |-> Nobody]
      /\ selected \in ScriptNames /\ shown = "none" /\ finishedHere = {} /\ mixed = FALSE
  BY DEF TabInit, Ids
<1>2. srv \in [Ids -> ServerRecord]
  BY DEF TabInit, ServerRecord
<1>3. AnyScript \in ScriptNames
  BY <1>1 DEF AnyScript
<1>4. /\ Unmade \in ExecutorRecord /\ Unmade.id = 0 /\ Unmade.status = "unmade"
      /\ Unmade.socket = "none"
  BY <1>3 DEF Unmade, Executor, ExecutorRecord, Statuses
<1>5. TabTypes
  BY <1>1, <1>2, <1>4 DEF TabTypes, TabRecord, PostRecord, LoadingRecord, Somebody
<1>6. IdsKnown
  BY <1>1 DEF IdsKnown, Known
<1>7. OwnIds
  BY <1>1, <1>4, OwnNames DEF OwnIds, Objects
<1>8. Registered
  BY <1>1 DEF Registered
<1>9. SocketsTell
  BY <1>1, <1>4 DEF SocketsTell
<1>10. OneAtATime
  BY <1>1, <1>4, OwnNames DEF OneAtATime, Waiting, Ids
<1>11. Reached
  BY <1>1, <1>4 DEF Reached
<1>12. Page
  BY <1>1 DEF Page, StatusOf
<1> QED BY <1>5, <1>6, <1>7, <1>8, <1>9, <1>10, <1>11, <1>12 DEF TabInv, Core

LEMMA TabSteps ==
    ASSUME TabInv, [TabNext]_tabVars
    PROVE  TabInv'
<1>1. CASE Handle
  BY <1>1, StartSteps, ServeSteps, LoadSteps, EventSteps, KillSteps DEF Handle
<1>2. CASE Serve
  BY <1>2, ServeSteps
<1>3. CASE Act
  BY <1>3, SelectSteps, StartSteps, KillSteps DEF Act, Somebody
<1>4. CASE UNCHANGED tabVars
  BY <1>4 DEF tabVars, TabInv, Core, Page, TabTypes, IdsKnown, OwnIds, Registered, SocketsTell,
              OneAtATime, Reached, StatusOf, Known, Over, Waiting
<1> QED BY <1>1, <1>2, <1>3, <1>4 DEF TabNext

(* The invariant holds however the requests, their answers and the events  *)
(* of the sockets are ordered, lost or broken, and whatever the user does. *)
THEOREM TabInvariant == TabSpec => []TabInv
<1>1. TabInit => TabInv
  BY TabInitial
<1>2. TabInv /\ [TabNext]_tabVars => TabInv'
  BY TabSteps
<1> QED BY <1>1, <1>2, PTL DEF TabSpec

LEMMA TabHolds ==
    ASSUME TabInv
    PROVE  TabAgrees
<1>1. Core /\ Page
  BY DEF TabInv
<1>2. TabTypeOK
  BY <1>1 DEF TabTypeOK, Core, TabTypes, Page, TabRecord, ExecutorRecord, Statuses, Somebody
<1>3. FinishedIsOver
  BY <1>1 DEF FinishedIsOver, Core, SocketsTell, Page
<1>4. OneExecutor
  BY <1>1 DEF OneExecutor, Core, Registered, Reached
<1>5. Settled
  <2> SUFFICES ASSUME TabQuiet
               PROVE  /\ ~mixed => \A o \in Objects :
                            /\ exec[o].status = "executing" => ~Over(exec[o].id)
                            /\ exec[o].status # "initializing"
                      /\ finishedHere \cap active = {}
    BY DEF Settled
  <2>1. finishedHere \cap active = {}
    BY <1>1 DEF Page, TabQuiet
  <2>2. ASSUME ~mixed, NEW o \in Objects
        PROVE  /\ exec[o].status = "executing" => ~Over(exec[o].id)
               /\ exec[o].status # "initializing"
    <3>1. exec[o].socket \in {"none", "open", "ended", "asking", "closed"}
      BY <1>1, Typed DEF ExecutorRecord
    <3>2. exec[o].status = "executing" => exec[o].socket = "open"
      BY <1>1, <2>2, <3>1 DEF Core, SocketsTell, OneAtATime, TabQuiet
    <3>3. exec[o].status # "initializing"
      BY <1>1, <2>2 DEF Core, OneAtATime, TabQuiet
    <3> QED BY <3>2, <3>3 DEF TabQuiet
  <2> QED BY <2>1, <2>2
<1> QED BY <1>2, <1>3, <1>4, <1>5 DEF TabAgrees

(* The tab agrees with the server: what it calls finished, or has cleaned  *)
(* up, is over (the watchers of the components and the cleanup request);   *)
(* the list and the store have the same executor, and it is the one that   *)
(* the user looks at and that runs; and once nothing is under way, what is *)
(* shown as executing runs and no start goes on for ever.                  *)
THEOREM TabsAgree == TabSpec => []TabAgrees
<1>1. TabInv => TabAgrees
  BY TabHolds
<1> QED BY <1>1, TabInvariant, PTL

-----------------------------------------------------------------------------
(* A model of a script: its parameters, the list of the shown ones, and    *)
(* the values.                                                             *)

Stored == Values \cup {None, Unset}
Object == [def : DefIds, allowed : SUBSET Values]
ModelRecord ==
    [objects : Seq(Object), shown : Seq(Nat), values : [Names -> Stored],
     included : Values \cup {None}, watching : BOOLEAN]
IsModel(m) == m \in ModelRecord /\ \A k \in DOMAIN m.shown : m.shown[k] \in DOMAIN m.objects

(* A chain of observers that holds a model.                                *)
IsChain(s) ==
    /\ s = [m |-> s.m, frames |-> s.frames, raised |-> s.raised]
    /\ IsModel(s.m)

(* The list and the parameters are the same, but for options and values.   *)
SameList(m, r) ==
    /\ r.shown = m.shown /\ r.included = m.included /\ r.watching = m.watching
    /\ DOMAIN r.objects = DOMAIN m.objects
    /\ \A i \in DOMAIN m.objects : r.objects[i].def = m.objects[i].def

(* The same list stays the same from step to step.                         *)
LEMMA SameListOn ==
    ASSUME NEW m, NEW t, NEW r, SameList(m, t), SameList(t, r)
    PROVE  SameList(m, r)
BY DEF SameList

(* The options of a parameter are values.                                  *)
LEMMA OptionsTyped ==
    ASSUME NEW d \in DefIds, NEW values \in [Names -> Stored]
    PROVE  Options(d, values) \in SUBSET Values
<1>1. CASE \E n \in Defs[d].needs : Empty(values[n])
  BY <1>1 DEF Options
<1>2. CASE ~ \E n \in Defs[d].needs : Empty(values[n])
  <2>1. \A n \in Defs[d].needs : values[n] \in Values
    BY <1>2, DefsAssumption DEF Stored, Empty
  <2>2. [n \in Defs[d].needs |-> values[n]] \in [Defs[d].needs -> Values]
    BY <2>1
  <2>3. Defs[d].options \in [[Defs[d].needs -> Values] -> SUBSET Values]
    BY DefsAssumption
  <2>4. Options(d, values) = Defs[d].options[[n \in Defs[d].needs |-> values[n]]]
    BY <1>2 DEF Options
  <2> HIDE DEF Options
  <2> QED BY <2>2, <2>3, <2>4
<1> QED BY <1>1, <1>2

(* A frame is a step of a chain to the given model.                        *)
LEMMA FrameIs ==
    ASSUME NEW s, NEW m, NEW event, s = [m |-> s.m, frames |-> s.frames, raised |-> s.raised]
    PROVE  LET r == Frame(s, m, event)
           IN  /\ r = [m |-> r.m, frames |-> r.frames, raised |-> r.raised]
               /\ r.m = m /\ r.raised = s.raised
BY DEF Frame

(* An observer that computes its options anew changes nothing else.        *)
LEMMA RecomputeKeeps ==
    ASSUME NEW s, IsChain(s), NEW i \in DOMAIN s.m.objects
    PROVE  LET r == Recompute(s, i)
           IN  /\ IsChain(r) /\ SameList(s.m, r.m)
               /\ r.m.values = s.m.values /\ r.raised = s.raised
<1> DEFINE allowed == Options(s.m.objects[i].def, s.m.values)
           m == [s.m EXCEPT !.objects[i].allowed = allowed]
<1>1. s.m \in ModelRecord /\ s.m.objects[i] \in Object /\ s.m.objects \in Seq(Object)
  BY DEF IsChain, IsModel, ModelRecord
<1>2. allowed \in SUBSET Values
  BY <1>1, OptionsTyped DEF Object, ModelRecord
<1> HIDE DEF allowed
<1>3. m \in ModelRecord /\ SameList(s.m, m) /\ m.values = s.m.values
  <2>1. [s.m.objects[i] EXCEPT !.allowed = allowed] \in Object
    BY <1>1, <1>2 DEF Object
  <2>2. PICK o \in Object : /\ o = [s.m.objects[i] EXCEPT !.allowed = allowed]
                            /\ o.def = s.m.objects[i].def
    BY <2>1, <1>1 DEF Object
  <2>3. m = [s.m EXCEPT !.objects = [s.m.objects EXCEPT ![i] = o]]
    BY <2>2, <1>1 DEF ModelRecord
  <2>4. PICK q : q = [s.m.objects EXCEPT ![i] = o]
    OBVIOUS
  <2>5. q \in Seq(Object) /\ DOMAIN q = DOMAIN s.m.objects
    BY <2>4, <1>1
  <2>6. \A j \in DOMAIN s.m.objects : q[j].def = s.m.objects[j].def
    BY <2>4, <2>2, <1>1
  <2>7. m = [s.m EXCEPT !.objects = q]
    BY <2>3, <2>4
  <2> HIDE DEF m
  <2> QED BY <2>5, <2>6, <2>7, <1>1 DEF ModelRecord, SameList
<1>4. IsModel(m)
  BY <1>3 DEF IsModel, SameList, IsChain
<1> HIDE DEF m
<1>5. CASE allowed = s.m.objects[i].allowed
  BY <1>5 DEF Recompute, SameList, allowed
<1>6. CASE allowed # s.m.objects[i].allowed
  <2>1. PICK event : Recompute(s, i) = Frame(s, m, event)
    BY <1>6 DEF Recompute, allowed, m
  <2> QED BY <2>1, <1>3, <1>4, FrameIs DEF IsChain
<1> QED BY <1>5, <1>6

(* A set of numbers has a least one.                                       *)
LEMMA LeastNumber ==
    ASSUME NEW S \in SUBSET Nat, S # {}
    PROVE  \E m \in S : \A k \in S : m <= k
<1> DEFINE R == {ss \in Nat \X Nat : ss[1] < ss[2]}
<1>1. IsWellFoundedOn(R, Nat)
  BY NatLessThanWellFounded DEF OpToRel
<1> HIDE DEF R
<1>2. PICK m \in S : \A k \in S : ~(<<k, m>> \in R)
  BY <1>1, WFMin
<1>3. \A k \in S : ~(k < m)
  BY <1>2 DEF R
<1>4. m \in Nat /\ \A k \in S : k \in Nat
  OBVIOUS
<1> QED BY <1>3, <1>4

(* What holds at first and from each step to the next holds at all.        *)
LEMMA Upwards ==
    ASSUME NEW n \in Nat, NEW S, 0 \in S, \A k \in 1..n : k - 1 \in S => k \in S
    PROVE  \A k \in 0..n : k \in S
<1> DEFINE Bad == {k \in 0..n : k \notin S}
<1> SUFFICES ASSUME Bad # {} PROVE FALSE
  OBVIOUS
<1>1. PICK l \in Bad : \A k \in Bad : l <= k
  <2>1. Bad \in SUBSET Nat
    OBVIOUS
  <2> QED BY <2>1, LeastNumber
<1>2. l # 0 /\ l \in 1..n /\ l - 1 \in 0..n
  BY <1>1
<1>3. l - 1 \notin Bad
  BY <1>1, <1>2
<1> QED BY <1>1, <1>2, <1>3

(* What a parameter does about a change of a value, and the first n ones.  *)
NextTold(t, s, name, k) == IF name \in DefOf(s.m, k).needs THEN Recompute(t, k) ELSE t
Tells(f, s, name, n) ==
    f = [k \in 0..n |-> IF k = 0 THEN s ELSE NextTold(f[k - 1], s, name, k)]

(* There is a function that does so up to any number.                      *)
LEMMA TellsExists ==
    ASSUME NEW s, NEW name, NEW n \in Nat
    PROVE  \E f : Tells(f, s, name, n)
<1> DEFINE Bad == {k \in Nat : ~ \E f : Tells(f, s, name, k)}
<1> SUFFICES ASSUME Bad # {} PROVE FALSE
  OBVIOUS
<1>1. PICK l \in Bad : \A k \in Bad : l <= k
  BY LeastNumber
<1>2. CASE l = 0
  <2> DEFINE f == [k \in 0..0 |-> s]
  <2>1. Tells(f, s, name, 0)
    BY DEF Tells
  <2> QED BY <1>1, <1>2, <2>1
<1>3. CASE l # 0
  <2>1. l - 1 \in Nat /\ l - 1 \notin Bad
    BY <1>1, <1>3
  <2>2. PICK f : Tells(f, s, name, l - 1)
    BY <2>1
  <2> DEFINE g == [k \in 0..l |-> IF k < l THEN f[k] ELSE NextTold(f[l - 1], s, name, l)]
  <2>3. \A k \in 0..l - 1 : f[k] = IF k = 0 THEN s ELSE NextTold(f[k - 1], s, name, k)
    BY <2>1, <2>2 DEF Tells
  <2>4. ASSUME NEW k \in 0..l
        PROVE  g[k] = IF k = 0 THEN s ELSE NextTold(g[k - 1], s, name, k)
    <3>1. CASE k < l
      <4>1. k \in 0..l - 1 /\ (k # 0 => k - 1 \in 0..l /\ k - 1 < l)
        BY <1>1, <3>1
      <4> QED BY <2>3, <3>1, <4>1
    <3>2. CASE k = l
      <4>1. k # 0 /\ k - 1 \in 0..l /\ k - 1 < l
        BY <1>1, <1>3, <3>2
      <4> QED BY <3>2, <4>1
    <3> QED BY <1>1, <3>1, <3>2
  <2>5. Tells(g, s, name, l)
    <3>1. g = [k \in 0..l |-> g[k]]
      OBVIOUS
    <3> HIDE DEF g
    <3> QED BY <2>4, <3>1 DEF Tells
  <2> QED BY <1>1, <2>5
<1> QED BY <1>2, <1>3


(* Telling the parameters of a change of a value leaves the list as it     *)
(* was.                                                                    *)
LEMMA NotifyKeeps ==
    ASSUME NEW s, IsChain(s), NEW name
    PROVE  LET r == Notify(s, name)
           IN  /\ IsChain(r) /\ SameList(s.m, r.m)
               /\ r.m.values = s.m.values /\ r.raised = s.raised
<1> DEFINE n == Len(s.m.objects)
<1>1. s.m.objects \in Seq(Object) /\ n \in Nat /\ DOMAIN s.m.objects = 1..n
  BY DEF IsChain, IsModel, ModelRecord
<1> HIDE DEF n
<1>2. PICK f : Tells(f, s, name, n) /\ Notify(s, name) = f[n]
  <2>1. Notify(s, name) = (CHOOSE f : Tells(f, s, name, n))[n]
    BY DEF Notify, Tells, NextTold, n
  <2> QED BY <2>1, <1>1, TellsExists
<1> DEFINE Kept(t) == /\ IsChain(t) /\ SameList(s.m, t.m)
                      /\ t.m.values = s.m.values /\ t.raised = s.raised
           Good == {k \in 0..n : Kept(f[k])}
<1>3. 0 \in Good
  <2>1. f[0] = s
    BY <1>1, <1>2 DEF Tells
  <2> QED BY <1>1, <2>1 DEF SameList
<1>4. ASSUME NEW k \in 1..n, k - 1 \in Good PROVE k \in Good
  <2>1. f[k] = NextTold(f[k - 1], s, name, k)
    <3>1. k \in 0..n /\ k # 0
      BY <1>1
    <3> QED BY <1>2, <3>1 DEF Tells
  <2>2. Kept(f[k - 1])
    BY <1>4
  <2>3. k \in DOMAIN f[k - 1].m.objects
    BY <1>1, <2>2 DEF SameList
  <2> DEFINE t == f[k - 1]
  <2>4. Kept(Recompute(t, k))
    <3> DEFINE r == Recompute(t, k)
    <3>1. IsChain(t) /\ k \in DOMAIN t.m.objects
      BY <2>2, <2>3
    <3> HIDE DEF t
    <3>2. IsChain(r) /\ SameList(t.m, r.m) /\ r.m.values = t.m.values /\ r.raised = t.raised
      BY <3>1, RecomputeKeeps
    <3>3. Kept(t)
      BY <2>2 DEF t
    <3>4. SameList(s.m, r.m)
      BY <3>2, <3>3, SameListOn
    <3> QED BY <3>2, <3>3, <3>4
  <2>5. Kept(f[k])
    <3> HIDE DEF Kept
    <3> QED BY <2>1, <2>2, <2>4 DEF NextTold
  <2> QED BY <1>1, <2>5
<1>5. n \in Good
  <2> HIDE DEF Good
  <2>1. \A k \in 1..n : k - 1 \in Good => k \in Good
    BY <1>4
  <2>2. \A k \in 0..n : k \in Good
    BY <1>1, <1>3, <2>1, Upwards
  <2> QED BY <1>1, <2>2
<1> QED BY <1>2, <1>5

(* The name of the k-th parameter of the list                              *)
NameAt(m, k) == DefOf(m, m.shown[k]).name

Shows(m, name) == \E k \in DOMAIN m.shown : NameAt(m, k) = name

(* The parameters of the list are those of the script and the given ones,  *)
(* each of these once.                                                     *)
Lists(m, given) ==
    /\ \A j, k \in DOMAIN m.shown :
          NameAt(m, j) = NameAt(m, k) /\ NameAt(m, j) \notin Originals => j = k
    /\ \A name : Shows(m, name) <=> name \in Originals \cup given

(* What is listed is a parameter with one of the names.                    *)
LEMMA ShownTyped ==
    ASSUME NEW m, IsModel(m), NEW k \in DOMAIN m.shown
    PROVE  /\ m.shown[k] \in DOMAIN m.objects /\ m.shown[k] # 0 /\ m.shown[k] \in Nat
           /\ k \in Nat /\ k # 0
           /\ m.objects[m.shown[k]] \in Object /\ NameAt(m, k) \in Names
<1>1. m.shown \in Seq(Nat) /\ m.objects \in Seq(Object)
  BY DEF IsModel, ModelRecord
<1>2. m.shown[k] \in DOMAIN m.objects
  BY DEF IsModel
<1>3. m.objects[m.shown[k]] \in Object /\ m.shown[k] # 0 /\ m.shown[k] \in Nat
  BY <1>1, <1>2
<1>4. m.objects[m.shown[k]].def \in DefIds
  BY <1>3 DEF Object
<1>5. NameAt(m, k) \in Names
  BY <1>4, DefsAssumption DEF NameAt, DefOf
<1>6. k \in Nat /\ k # 0
  BY <1>1
<1> QED BY <1>2, <1>3, <1>5, <1>6

(* The same list has the same parameters.                                  *)
LEMMA ListsSame ==
    ASSUME NEW m, NEW r, IsModel(m), SameList(m, r), NEW given, Lists(m, given)
    PROVE  Lists(r, given)
<1>1. \A k \in DOMAIN m.shown : NameAt(r, k) = NameAt(m, k)
  BY DEF NameAt, DefOf, SameList, IsModel
<1>2. r.shown = m.shown
  BY DEF SameList
<1> QED BY <1>1, <1>2 DEF Lists, Shows

(* find_parameter finds a parameter by its name if it is listed.           *)
LEMMA PlaceIs ==
    ASSUME NEW m, IsModel(m), NEW name
    PROVE  /\ Shows(m, name) => /\ Place(m, name) \in DOMAIN m.shown
                                /\ NameAt(m, Place(m, name)) = name
                                /\ Find(m, name) \in DOMAIN m.objects /\ Find(m, name) # 0
                                /\ DefOf(m, Find(m, name)).name = name
           /\ ~Shows(m, name) => Find(m, name) = 0
<1> DEFINE named == {k \in DOMAIN m.shown : NameAt(m, k) = name}
<1>1. named \in SUBSET Nat
  BY ShownTyped
<1>2. Place(m, name) = IF named = {} THEN 0 ELSE Min(named)
  BY DEF Place, NameAt
<1>3. ASSUME Shows(m, name)
      PROVE  Place(m, name) \in named
  <2>1. named # {}
    BY <1>3 DEF Shows
  <2> HIDE DEF named
  <2>2. \E l \in named : \A k \in named : l <= k
    BY <1>1, <2>1, LeastNumber
  <2>3. Min(named) \in named
    BY <2>2 DEF Min
  <2> QED BY <1>2, <2>1, <2>3
<1>4. ASSUME Shows(m, name)
      PROVE  /\ Place(m, name) \in DOMAIN m.shown /\ NameAt(m, Place(m, name)) = name
             /\ Place(m, name) # 0
  <2>1. PICK p : p = Place(m, name)
    OBVIOUS
  <2>2. p \in DOMAIN m.shown /\ NameAt(m, p) = name
    BY <1>3, <1>4, <2>1
  <2> QED BY <2>1, <2>2, ShownTyped
<1>5. ASSUME Shows(m, name)
      PROVE  /\ Find(m, name) \in DOMAIN m.objects /\ Find(m, name) # 0
             /\ DefOf(m, Find(m, name)).name = name
  <2>1. Find(m, name) = m.shown[Place(m, name)]
    BY <1>4, <1>5 DEF Find
  <2> QED BY <2>1, <1>4, <1>5, ShownTyped DEF NameAt
<1>6. ASSUME ~Shows(m, name) PROVE Find(m, name) = 0
  <2>1. named = {}
    BY <1>6 DEF Shows
  <2> QED BY <1>2, <2>1 DEF Find
<1> QED BY <1>4, <1>5, <1>6

(* A part of a list, counted from its first place.                         *)
LEMMA PartOfList ==
    ASSUME NEW q, NEW from \in Int, NEW upto \in Int, \A i \in from..upto : q[i] \in Nat
    PROVE  /\ SubSeq(q, from, upto) \in Seq(Nat)
           /\ from <= upto + 1 => Len(SubSeq(q, from, upto)) = upto - from + 1
           /\ \A i \in 1..upto - from + 1 : SubSeq(q, from, upto)[i] = q[from + i - 1]
<1> DEFINE c == SubSeq(q, from, upto)
<1>1. /\ c \in Seq(Nat) /\ Len(c) = IF from <= upto THEN upto - from + 1 ELSE 0
      /\ \A i \in 1..upto - from + 1 : c[i] = q[from + i - 1]
  BY SubSeqProperties
<1> HIDE DEF c
<1>2. from <= upto + 1 => Len(c) = upto - from + 1
  BY <1>1
<1> QED BY <1>1, <1>2 DEF c

(* Taking out one place of a list moves up what comes after it.            *)
LEMMA RemovedAt ==
    ASSUME NEW q \in Seq(Nat), NEW p \in DOMAIN q
    PROVE  /\ RemoveAt(q, p) \in Seq(Nat)
           /\ DOMAIN RemoveAt(q, p) = 1..Len(q) - 1
           /\ \A k \in 1..Len(q) - 1 : RemoveAt(q, p)[k] = q[IF k < p THEN k ELSE k + 1]
<1>1. p \in 1..Len(q) /\ Len(q) \in Nat
  OBVIOUS
<1>2. PICK a \in Seq(Nat) : /\ a = SubSeq(q, 1, p - 1) /\ Len(a) = p - 1
                            /\ \A k \in 1..p - 1 : a[k] = q[k]
  <2>1. \A i \in 1..p - 1 : q[i] \in Nat
    BY <1>1
  <2>2. p - 1 \in Int /\ (1 <= p - 1 \/ p - 1 = 0)
    BY <1>1
  <2>3. PICK upto \in Int : upto = p - 1
    BY <2>2
  <2> DEFINE a == SubSeq(q, 1, upto)
  <2>5. /\ a \in Seq(Nat) /\ (1 <= upto + 1 => Len(a) = upto - 1 + 1)
        /\ \A i \in 1..upto - 1 + 1 : a[i] = q[1 + i - 1]
    <3>1. \A i \in 1..upto : q[i] \in Nat
      BY <2>1, <2>3
    <3> QED BY <3>1, PartOfList
  <2> HIDE DEF a
  <2>4. Len(a) = p - 1 /\ \A k \in 1..p - 1 : a[k] = q[k]
    BY <1>1, <2>3, <2>5
  <2>6. a = SubSeq(q, 1, p - 1)
    BY <2>3 DEF a
  <2> QED BY <2>4, <2>5, <2>6
<1>3. PICK b \in Seq(Nat) : /\ b = SubSeq(q, p + 1, Len(q)) /\ Len(b) = Len(q) - p
                            /\ \A k \in 1..Len(q) - p : b[k] = q[p + k]
  <2>1. \A i \in p + 1..Len(q) : q[i] \in Nat
    BY <1>1
  <2>2. p + 1 \in Int /\ Len(q) \in Int
    BY <1>1
  <2>3. PICK from \in Int, upto \in Int : from = p + 1 /\ upto = Len(q)
    BY <2>2
  <2> DEFINE b == SubSeq(q, from, upto)
  <2>7. /\ b \in Seq(Nat) /\ (from <= upto + 1 => Len(b) = upto - from + 1)
        /\ \A i \in 1..upto - from + 1 : b[i] = q[from + i - 1]
    <3>1. \A i \in from..upto : q[i] \in Nat
      BY <2>1, <2>3
    <3> QED BY <3>1, PartOfList
  <2> HIDE DEF b
  <2>4. \A k \in 1..Len(q) - p : k \in 1..Len(q) - (p + 1) + 1 /\ p + 1 + k - 1 = p + k
    BY <1>1
  <2>5. Len(b) = Len(q) - p
    BY <1>1, <2>3, <2>7
  <2>6. \A k \in 1..Len(q) - p : b[k] = q[p + k]
    BY <2>3, <2>4, <2>7
  <2>8. b = SubSeq(q, p + 1, Len(q))
    BY <2>3 DEF b
  <2> QED BY <2>5, <2>6, <2>7, <2>8
<1>4. RemoveAt(q, p) = a \o b
  BY <1>2, <1>3 DEF RemoveAt
<1>5. PICK c : /\ c = a \o b /\ c \in Seq(Nat) /\ Len(c) = Len(q) - 1
               /\ \A i \in 1..Len(q) - 1 : c[i] = IF i <= p - 1 THEN a[i] ELSE b[i - (p - 1)]
  <2> DEFINE c == a \o b
  <2>1. /\ c \in Seq(Nat) /\ Len(c) = Len(a) + Len(b)
        /\ \A i \in 1..Len(a) + Len(b) : c[i] = IF i <= Len(a) THEN a[i] ELSE b[i - Len(a)]
    BY ConcatProperties
  <2>2. Len(a) + Len(b) = Len(q) - 1
    <3>1. Len(a) = p - 1
      BY <1>2
    <3>2. Len(b) = Len(q) - p
      BY <1>3
    <3> QED BY <1>1, <3>1, <3>2
  <2> HIDE DEF c
  <2>3. Len(c) = Len(q) - 1 /\ Len(a) = p - 1
    BY <1>2, <2>1, <2>2
  <2>4. \A i \in 1..Len(q) - 1 : c[i] = IF i <= p - 1 THEN a[i] ELSE b[i - (p - 1)]
    BY <2>1, <2>2, <2>3
  <2> QED BY <2>1, <2>3, <2>4 DEF c
<1>6. ASSUME NEW k \in 1..Len(q) - 1
      PROVE  c[k] = q[IF k < p THEN k ELSE k + 1]
  <2>1. CASE k < p
    BY <1>1, <1>2, <1>5, <2>1
  <2>2. CASE ~(k < p)
    <3>0. ~(k <= p - 1)
      BY <1>1, <2>2
    <3>1. c[k] = b[k - (p - 1)]
      BY <1>5, <3>0
    <3>2. k - (p - 1) \in 1..Len(q) - p /\ p + (k - (p - 1)) = k + 1
      BY <1>1, <2>2
    <3> QED BY <1>3, <2>2, <3>1, <3>2
  <2> QED BY <2>1, <2>2
<1>7. DOMAIN c = 1..Len(q) - 1
  BY <1>5
<1> QED BY <1>4, <1>5, <1>6, <1>7

(* A chain is a record of known types.                                     *)
LEMMA ChainRecord ==
    ASSUME NEW s, IsChain(s)
    PROVE  s \in [m : ModelRecord, frames : {s.frames}, raised : {s.raised}]
<1> DEFINE r == [m |-> s.m, frames |-> s.frames, raised |-> s.raised]
<1>1. s = r /\ s.m \in ModelRecord
  BY DEF IsChain, IsModel
<1>2. r \in [m : ModelRecord, frames : {s.frames}, raised : {s.raised}]
  BY <1>1
<1> QED BY <1>1, <1>2

(* Storing a value leaves the list as it was.                              *)
LEMMA StoreKeeps ==
    ASSUME NEW s, IsChain(s), NEW name \in Names, NEW v \in Stored
    PROVE  LET r == Store(s, name, v)
           IN  /\ IsChain(r) /\ SameList(s.m, r.m) /\ r.raised = s.raised
               /\ r.m.values = [s.m.values EXCEPT ![name] = v]
<1>1. s.m \in ModelRecord
  BY DEF IsChain, IsModel
<1> DEFINE values == [s.m.values EXCEPT ![name] = v]
           m == [s.m EXCEPT !.values = values]
<1>2. values \in [Names -> Stored]
  BY <1>1 DEF ModelRecord
<1> HIDE DEF values
<1>3. m \in ModelRecord /\ SameList(s.m, m) /\ m.values = values
  BY <1>1, <1>2 DEF ModelRecord, SameList
<1>4. Store(s, name, v) = [m |-> m, frames |-> s.frames, raised |-> s.raised]
  BY <1>1, ChainRecord DEF Store, ModelRecord, values
<1>5. IsModel(m)
  BY <1>3 DEF IsModel, SameList, IsChain
<1> HIDE DEF m
<1> QED BY <1>3, <1>4, <1>5 DEF IsChain, values

(* Removing a parameter that is listed removes this one only, and does not *)
(* raise.                                                                  *)
LEMMA RemoveParameterKeeps ==
    ASSUME NEW s, IsChain(s), s.raised = FALSE, NEW given, Lists(s.m, given), NEW name \in given
    PROVE  LET r == RemoveParameter(s, name)
           IN  /\ IsChain(r) /\ r.raised = FALSE /\ Lists(r.m, given \ {name})
               /\ r.m.objects = s.m.objects /\ r.m.values = s.m.values
               /\ r.m.included = s.m.included /\ r.m.watching = s.m.watching
<1>1. CASE name \in Originals
  <2>1. RemoveParameter(s, name) = s
    BY <1>1 DEF RemoveParameter
  <2>2. Lists(s.m, given \ {name})
    BY <1>1 DEF Lists
  <2> QED BY <2>1, <2>2
<1>2. CASE name \notin Originals
  <2> DEFINE p == Place(s.m, name)
             q == RemoveAt(s.m.shown, p)
             m == [s.m EXCEPT !.shown = q]
  <2>1. IsModel(s.m) /\ s.m \in ModelRecord
    BY DEF IsChain, IsModel
  <2>2. Shows(s.m, name)
    BY DEF Lists
  <2>3. p \in DOMAIN s.m.shown /\ NameAt(s.m, p) = name /\ Find(s.m, name) # 0
    BY <2>1, <2>2, PlaceIs
  <2>4. s.m.shown \in Seq(Nat)
    BY <2>1 DEF ModelRecord
  <2> HIDE DEF p
  <2>5. /\ q \in Seq(Nat) /\ DOMAIN q = 1..Len(s.m.shown) - 1
        /\ \A k \in DOMAIN q : q[k] = s.m.shown[IF k < p THEN k ELSE k + 1]
    BY <2>3, <2>4, RemovedAt
  <2> HIDE DEF q
  <2>6. /\ m \in ModelRecord /\ m.shown = q /\ m.objects = s.m.objects /\ m.values = s.m.values
        /\ m.included = s.m.included /\ m.watching = s.m.watching
    BY <2>1, <2>5 DEF ModelRecord
  <2> HIDE DEF m
  <2> DEFINE At(k) == IF k < p THEN k ELSE k + 1
  <2>0. PICK len \in Nat : len = Len(s.m.shown) /\ DOMAIN s.m.shown = 1..len /\ p \in 1..len
                         /\ DOMAIN q = 1..len - 1
    <3>1. Len(s.m.shown) \in Nat /\ DOMAIN s.m.shown = 1..Len(s.m.shown)
      BY <2>4
    <3> QED BY <2>3, <2>5, <3>1
  <2>7. ASSUME NEW k \in DOMAIN q
        PROVE  At(k) \in DOMAIN s.m.shown /\ At(k) # p /\ NameAt(m, k) = NameAt(s.m, At(k))
    <3>1. At(k) \in DOMAIN s.m.shown /\ At(k) # p
      <4>1. k \in 1..len - 1 /\ p \in 1..len
        BY <2>0
      <4>2. At(k) \in 1..len /\ At(k) # p
        BY <4>1
      <4> QED BY <2>0, <4>2
    <3>2. q[k] = s.m.shown[At(k)]
      BY <2>5
    <3> QED BY <3>1, <3>2, <2>6 DEF NameAt, DefOf
  <2>8. IsModel(m)
    BY <2>1, <2>5, <2>6, <2>7 DEF IsModel
  <2>9. ASSUME NEW k \in DOMAIN s.m.shown, k # p
        PROVE  \E j \in DOMAIN q : At(j) = k
    <3>1. CASE k < p
      <4>1. k \in 1..len /\ p \in 1..len
        BY <2>0
      <4>2. k \in 1..len - 1 /\ At(k) = k
        BY <3>1, <4>1
      <4> QED BY <2>0, <4>2
    <3>2. CASE ~(k < p)
      <4>1. k \in 1..len /\ p \in 1..len
        BY <2>0
      <4>2. k - 1 \in 1..len - 1 /\ At(k - 1) = k
        BY <2>9, <3>2, <4>1
      <4> QED BY <2>0, <4>2
    <3> QED BY <3>1, <3>2
  <2>10. \A j, k \in DOMAIN q : At(j) = At(k) => j = k
    BY <2>3, <2>4, <2>5
  <2> HIDE DEF At
  <2>11. Lists(m, given \ {name})
    <3>1. ASSUME NEW j \in DOMAIN q, NEW k \in DOMAIN q,
                 NameAt(m, j) = NameAt(m, k), NameAt(m, j) \notin Originals
          PROVE  j = k
      BY <2>7, <2>10, <3>1 DEF Lists
    <3>2. ASSUME NEW n PROVE Shows(m, n) <=> Shows(s.m, n) /\ n # name
      <4>1. ASSUME Shows(m, n) PROVE Shows(s.m, n) /\ n # name
        <5>1. PICK k \in DOMAIN q : NameAt(m, k) = n
          BY <4>1, <2>6 DEF Shows
        <5>2. At(k) \in DOMAIN s.m.shown /\ At(k) # p /\ n = NameAt(s.m, At(k))
          BY <5>1, <2>7
        <5> QED BY <5>2, <2>3, <1>2 DEF Shows, Lists
      <4>2. ASSUME Shows(s.m, n), n # name PROVE Shows(m, n)
        <5>1. PICK k \in DOMAIN s.m.shown : NameAt(s.m, k) = n
          BY <4>2 DEF Shows
        <5>2. k # p
          BY <5>1, <4>2, <2>3
        <5>3. PICK j \in DOMAIN q : At(j) = k
          BY <5>2, <2>9
        <5> QED BY <5>1, <5>3, <2>6, <2>7 DEF Shows
      <4> QED BY <4>1, <4>2
    <3>3. \A n : Shows(m, n) <=> n \in Originals \cup (given \ {name})
      BY <3>2, <1>2 DEF Lists
    <3> QED BY <3>1, <3>3, <2>6 DEF Lists
  <2>12. PICK t : /\ IsChain(t) /\ t.m = m /\ t.raised = FALSE
                  /\ RemoveParameter(s, name) = t
    <3> DEFINE i == Find(s.m, name)
               out == Frame(s, m, NoEvent)
               told == Frame(out, m, [kind |-> "removed", name |-> name])
    <3>1. RemoveParameter(s, name) = IF DefOf(m, i).constant THEN out ELSE told
      BY <1>2, <2>3 DEF RemoveParameter, m, q, p
    <3>2. IsChain(out) /\ out.m = m /\ out.raised = FALSE
      BY <2>8, FrameIs DEF IsChain
    <3> HIDE DEF out
    <3>3. IsChain(told) /\ told.m = m /\ told.raised = FALSE
      BY <2>8, <3>2, FrameIs DEF IsChain
    <3> HIDE DEF told
    <3> QED BY <3>1, <3>2, <3>3
  <2> QED BY <2>6, <2>11, <2>12
<1> QED BY <1>1, <1>2

(* What a value is wrapped to can be stored.                               *)
LEMMA WrapTyped ==
    ASSUME NEW d \in DefIds, NEW v \in Stored
    PROVE  Wrap(d, v) \in Stored
BY DefsAssumption DEF Wrap, Stored

(* A parameter is added, with its default, unless one of its name is       *)
(* there.                                                                  *)
LEMMA AddParameterKeeps ==
    ASSUME NEW s, IsChain(s), s.raised = FALSE, NEW given, Lists(s.m, given), NEW d \in DefIds
    PROVE  LET r == AddParameter(s, d)
           IN  /\ IsChain(r) /\ r.raised = FALSE /\ Lists(r.m, given \cup {Defs[d].name})
               /\ r.m.values[IncludeKey] = s.m.values[IncludeKey]
               /\ r.m.included = s.m.included /\ r.m.watching = s.m.watching
               /\ DOMAIN s.m.objects \subseteq DOMAIN r.m.objects
<1> DEFINE n == Defs[d].name
<1>1. IsModel(s.m) /\ s.m \in ModelRecord
  BY DEF IsChain, IsModel
<1>2. CASE Find(s.m, n) # 0
  <2>1. AddParameter(s, d) = s
    BY <1>2 DEF AddParameter
  <2>2. Shows(s.m, n)
    BY <1>1, <1>2, PlaceIs
  <2>3. Lists(s.m, given \cup {n})
    BY <2>2 DEF Lists
  <2> QED BY <2>1, <2>3
<1>3. CASE Find(s.m, n) = 0
  <2>1. ~Shows(s.m, n)
    BY <1>1, <1>3, PlaceIs
  <2>2. n \notin Originals \cup given
    BY <2>1 DEF Lists
  <2>3. n \in Names /\ n # IncludeKey
    BY <2>2, DefsAssumption
  <2> DEFINE i == Len(s.m.objects) + 1
             object == NewObject(d, s.m.values)
             objects == Append(s.m.objects, object)
             listing == Append(s.m.shown, i)
             m == [s.m EXCEPT !.objects = objects, !.shown = listing]
  <2>4. PICK len \in Nat : len = Len(s.m.objects) /\ DOMAIN s.m.objects = 1..len
    BY <1>1 DEF ModelRecord
  <2>5. PICK many \in Nat : many = Len(s.m.shown) /\ DOMAIN s.m.shown = 1..many
    BY <1>1 DEF ModelRecord
  <2>6. object \in Object /\ object.def = d
    BY <1>1, OptionsTyped DEF NewObject, Object, ModelRecord
  <2> HIDE DEF object
  <2>7. /\ objects \in Seq(Object) /\ DOMAIN objects = 1..len + 1 /\ objects[len + 1] = object
        /\ \A k \in 1..len : objects[k] = s.m.objects[k]
    <3>1. s.m.objects \in Seq(Object)
      BY <1>1 DEF ModelRecord
    <3> QED BY <2>4, <2>6, <3>1, AppendProperties
  <2>8. /\ listing \in Seq(Nat) /\ DOMAIN listing = 1..many + 1 /\ listing[many + 1] = len + 1
        /\ \A k \in 1..many : listing[k] = s.m.shown[k]
    <3>1. s.m.shown \in Seq(Nat) /\ i \in Nat /\ i = len + 1
      BY <1>1, <2>4 DEF ModelRecord
    <3> HIDE DEF i
    <3> QED BY <2>5, <3>1, AppendProperties
  <2>9. i = len + 1
    BY <2>4
  <2> HIDE DEF objects, listing, i
  <2>10. /\ m \in ModelRecord /\ m.objects = objects /\ m.shown = listing /\ m.values = s.m.values
         /\ m.included = s.m.included /\ m.watching = s.m.watching
    BY <1>1, <2>7, <2>8 DEF ModelRecord
  <2> HIDE DEF m
  <2>11. ASSUME NEW k \in 1..many
         PROVE  NameAt(m, k) = NameAt(s.m, k) /\ listing[k] \in 1..len
    <3>1. listing[k] = s.m.shown[k] /\ listing[k] \in 1..len
      BY <1>1, <2>4, <2>5, <2>8 DEF IsModel
    <3>2. objects[listing[k]] = s.m.objects[listing[k]]
      BY <2>7, <3>1
    <3> QED BY <3>1, <3>2, <2>10 DEF NameAt, DefOf
  <2>12. NameAt(m, many + 1) = n
    BY <2>6, <2>7, <2>8, <2>10 DEF NameAt, DefOf
  <2>13. IsModel(m)
    <3> SUFFICES ASSUME NEW k \in 1..many + 1 PROVE listing[k] \in 1..len + 1
      BY <2>7, <2>8, <2>10 DEF IsModel
    <3>1. CASE k \in 1..many
      BY <2>11, <3>1
    <3>2. CASE k = many + 1
      BY <2>8, <3>2
    <3> QED BY <3>1, <3>2
  <2>14. Lists(m, given \cup {n})
    <3>1. \A k \in 1..many : NameAt(m, k) # n
      BY <2>1, <2>5, <2>11 DEF Shows
    <3>2. ASSUME NEW j \in 1..many + 1, NEW k \in 1..many + 1,
                 NameAt(m, j) = NameAt(m, k), NameAt(m, j) \notin Originals
          PROVE  j = k
      <4>1. j \in 1..many \/ j = many + 1
        OBVIOUS
      <4>2. k \in 1..many \/ k = many + 1
        OBVIOUS
      <4>3. CASE j \in 1..many /\ k \in 1..many
        BY <3>2, <4>3, <2>5, <2>11 DEF Lists
      <4> QED BY <3>1, <3>2, <4>1, <4>2, <4>3, <2>12
    <3>3. ASSUME NEW name PROVE Shows(m, name) <=> Shows(s.m, name) \/ name = n
      <4>1. ASSUME Shows(m, name) PROVE Shows(s.m, name) \/ name = n
        <5>1. PICK k \in 1..many + 1 : NameAt(m, k) = name
          BY <4>1, <2>8, <2>10 DEF Shows
        <5>2. k \in 1..many \/ k = many + 1
          OBVIOUS
        <5> QED BY <5>1, <5>2, <2>5, <2>11, <2>12 DEF Shows
      <4>2. ASSUME Shows(s.m, name) PROVE Shows(m, name)
        <5>1. PICK k \in 1..many : NameAt(s.m, k) = name
          BY <4>2, <2>5 DEF Shows
        <5>2. k \in 1..many + 1
          OBVIOUS
        <5> QED BY <5>1, <5>2, <2>8, <2>10, <2>11 DEF Shows
      <4>3. Shows(m, n)
        <5>1. many + 1 \in 1..many + 1
          OBVIOUS
        <5> QED BY <5>1, <2>8, <2>10, <2>12 DEF Shows
      <4> QED BY <4>1, <4>2, <4>3
    <3>4. \A name : Shows(m, name) <=> name \in Originals \cup (given \cup {n})
      BY <3>3 DEF Lists
    <3>5. DOMAIN m.shown = 1..many + 1
      BY <2>8, <2>10
    <3> QED BY <3>2, <3>4, <3>5 DEF Lists
  <2> DEFINE in == Frame(s, m, NoEvent)
             told == IF Defs[d].constant THEN in
                     ELSE Frame(in, m, [kind |-> "added", object |-> i, param |-> External(m, i)])
             v == Wrap(d, Defs[d].default)
             filled == Store(told, n, v)
             last == Notify(filled, n)
  <2>15. AddParameter(s, d) = IF s.m.values[n] # Unset THEN told ELSE last
    BY <1>3 DEF AddParameter, m, objects, listing, i, object
  <2>16. IsChain(told) /\ told.m = m /\ told.raised = FALSE
    <3>1. IsChain(in) /\ in.m = m /\ in.raised = FALSE
      BY <2>13, FrameIs DEF IsChain
    <3> HIDE DEF in
    <3>2. PICK event : event = [kind |-> "added", object |-> i, param |-> External(m, i)]
      OBVIOUS
    <3>3. PICK t : t = Frame(in, m, event) /\ IsChain(t) /\ t.m = m /\ t.raised = FALSE
      BY <2>13, <3>1, FrameIs DEF IsChain
    <3>4. told = in \/ told = t
      BY <3>2, <3>3
    <3> HIDE DEF told
    <3> QED BY <3>1, <3>3, <3>4
  <2> HIDE DEF told
  <2>17. v \in Stored
    BY DefsAssumption, WrapTyped DEF Stored
  <2> HIDE DEF v
  <2>18. /\ IsChain(filled) /\ SameList(m, filled.m) /\ filled.raised = FALSE
         /\ filled.m.values = [m.values EXCEPT ![n] = v]
    BY <2>3, <2>16, <2>17, StoreKeeps
  <2> HIDE DEF filled
  <2>19. /\ IsChain(last) /\ SameList(filled.m, last.m) /\ last.raised = FALSE
         /\ last.m.values = filled.m.values
    BY <2>18, NotifyKeeps
  <2> HIDE DEF last
  <2>20. SameList(m, last.m)
    BY <2>18, <2>19, SameListOn
  <2>21. Lists(last.m, given \cup {n})
    BY <2>13, <2>14, <2>20, ListsSame
  <2>22. last.m.values[IncludeKey] = m.values[IncludeKey]
    <3>1. m.values \in [Names -> Stored] /\ IncludeKey # n
      BY <2>3, <2>10 DEF ModelRecord
    <3> QED BY <3>1, <2>18, <2>19
  <2>23. DOMAIN s.m.objects \subseteq DOMAIN m.objects
    BY <2>4, <2>7, <2>10
  <2>24. last.m.included = m.included /\ last.m.watching = m.watching
         /\ DOMAIN last.m.objects = DOMAIN m.objects
    BY <2>20 DEF SameList
  <2> QED BY <2>10, <2>14, <2>15, <2>16, <2>19, <2>21, <2>22, <2>23, <2>24
<1> QED BY <1>2, <1>3

(* The names of the parameters of a file                                   *)
NamesIn(file) == {Defs[file[k]].name : k \in DOMAIN file}

(* A name of the old file is taken out once, and so are the first n.       *)
NextLess(t, file, k) ==
    IF \E j \in 1..k - 1 : Defs[file[j]].name = Defs[file[k]].name THEN t
    ELSE RemoveParameter(t, Defs[file[k]].name)
Lessens(f, s, file, n) ==
    f = [k \in 0..n |-> IF k = 0 THEN s ELSE NextLess(f[k - 1], file, k)]

(* There is a function that does so up to any number.                      *)
LEMMA LessensExists ==
    ASSUME NEW s, NEW file, NEW n \in Nat
    PROVE  \E f : Lessens(f, s, file, n)
<1> DEFINE Bad == {k \in Nat : ~ \E f : Lessens(f, s, file, k)}
<1> SUFFICES ASSUME Bad # {} PROVE FALSE
  OBVIOUS
<1>1. PICK l \in Bad : \A k \in Bad : l <= k
  BY LeastNumber
<1>2. CASE l = 0
  <2> DEFINE f == [k \in 0..0 |-> s]
  <2>1. Lessens(f, s, file, 0)
    BY DEF Lessens
  <2> QED BY <1>1, <1>2, <2>1
<1>3. CASE l # 0
  <2>1. l - 1 \in Nat /\ l - 1 \notin Bad
    BY <1>1, <1>3
  <2>2. PICK f : Lessens(f, s, file, l - 1)
    BY <2>1
  <2> DEFINE g == [k \in 0..l |-> IF k < l THEN f[k] ELSE NextLess(f[l - 1], file, l)]
  <2>3. \A k \in 0..l - 1 : f[k] = IF k = 0 THEN s ELSE NextLess(f[k - 1], file, k)
    BY <2>1, <2>2 DEF Lessens
  <2>4. ASSUME NEW k \in 0..l
        PROVE  g[k] = IF k = 0 THEN s ELSE NextLess(g[k - 1], file, k)
    <3>1. CASE k < l
      <4>1. k \in 0..l - 1 /\ (k # 0 => k - 1 \in 0..l /\ k - 1 < l)
        BY <1>1, <3>1
      <4> QED BY <2>3, <3>1, <4>1
    <3>2. CASE k = l
      <4>1. k # 0 /\ k - 1 \in 0..l /\ k - 1 < l
        BY <1>1, <1>3, <3>2
      <4> QED BY <3>2, <4>1
    <3> QED BY <1>1, <3>1, <3>2
  <2>5. Lessens(g, s, file, l)
    <3>1. g = [k \in 0..l |-> g[k]]
      OBVIOUS
    <3> HIDE DEF g
    <3> QED BY <2>4, <3>1 DEF Lessens
  <2> QED BY <1>1, <2>5
<1> QED BY <1>2, <1>3


(* Of a list that has the parameters of a file those of the script stay.   *)
LEMMA RemoveParametersKeeps ==
    ASSUME NEW s, IsChain(s), s.raised = FALSE, NEW file \in Seq(DefIds), Lists(s.m, NamesIn(file))
    PROVE  LET r == RemoveParameters(s, file)
           IN  /\ IsChain(r) /\ r.raised = FALSE /\ Lists(r.m, {})
               /\ r.m.objects = s.m.objects /\ r.m.values = s.m.values
               /\ r.m.included = s.m.included /\ r.m.watching = s.m.watching
<1>1. PICK n \in Nat : n = Len(file) /\ DOMAIN file = 1..n
  OBVIOUS
<1>2. PICK f : Lessens(f, s, file, n) /\ RemoveParameters(s, file) = f[n]
  <2>1. RemoveParameters(s, file) = (CHOOSE f : Lessens(f, s, file, n))[n]
    BY <1>1 DEF RemoveParameters, Lessens, NextLess
  <2> QED BY <2>1, <1>1, LessensExists
<1> DEFINE Gone(k) == {Defs[file[j]].name : j \in 1..k}
           Left(k) == NamesIn(file) \ Gone(k)
           Kept(t, k) == /\ IsChain(t) /\ t.raised = FALSE /\ Lists(t.m, Left(k))
                         /\ t.m.objects = s.m.objects /\ t.m.values = s.m.values
                         /\ t.m.included = s.m.included /\ t.m.watching = s.m.watching
           Good == {k \in 0..n : Kept(f[k], k)}
<1>3. 0 \in Good
  <2>1. f[0] = s
    BY <1>1, <1>2 DEF Lessens
  <2>2. Gone(0) = {}
    OBVIOUS
  <2>3. Left(0) = NamesIn(file)
    BY <2>2
  <2> HIDE DEF Left
  <2>4. Kept(f[0], 0)
    BY <2>1, <2>3
  <2> HIDE DEF Kept
  <2> QED BY <1>1, <2>4
<1>4. ASSUME NEW k \in 1..n, k - 1 \in Good PROVE k \in Good
  <2> DEFINE name == Defs[file[k]].name
             known == \E j \in 1..k - 1 : Defs[file[j]].name = name
             t == f[k - 1]
  <2>1. f[k] = IF known THEN t ELSE RemoveParameter(t, name)
    <3>1. k \in 0..n /\ k # 0
      BY <1>1
    <3> QED BY <1>2, <3>1 DEF Lessens, NextLess
  <2>2. Kept(t, k - 1)
    BY <1>4
  <2> HIDE DEF t
  <2>3. Gone(k) = Gone(k - 1) \cup {name}
    <3>1. 1..k = (1..k - 1) \cup {k}
      BY <1>1
    <3> QED BY <3>1
  <2>4. name \in NamesIn(file)
    BY <1>1 DEF NamesIn
  <2>5. known <=> name \in Gone(k - 1)
    OBVIOUS
  <2> HIDE DEF name, known, Gone
  <2>6. CASE known
    <3>1. Left(k) = Left(k - 1)
      BY <2>3, <2>5, <2>6
    <3>2. Kept(f[k], k)
      BY <2>1, <2>2, <2>6, <3>1
    <3> QED BY <1>1, <3>2
  <2>7. CASE ~known
    <3>1. Left(k) = Left(k - 1) \ {name} /\ name \in Left(k - 1)
      BY <2>3, <2>4, <2>5, <2>7
    <3> HIDE DEF Left
    <3> DEFINE r == RemoveParameter(t, name)
    <3>2. /\ IsChain(r) /\ r.raised = FALSE /\ Lists(r.m, Left(k - 1) \ {name})
          /\ r.m.objects = t.m.objects /\ r.m.values = t.m.values
          /\ r.m.included = t.m.included /\ r.m.watching = t.m.watching
      BY <2>2, <3>1, RemoveParameterKeeps
    <3> HIDE DEF r
    <3>3. Kept(r, k)
      BY <2>2, <3>1, <3>2
    <3>4. f[k] = r
      BY <2>1, <2>7 DEF r
    <3> QED BY <1>1, <3>3, <3>4
  <2> QED BY <2>6, <2>7
<1>5. n \in Good
  <2> HIDE DEF Good
  <2>1. \A k \in 1..n : k - 1 \in Good => k \in Good
    BY <1>4
  <2>2. \A k \in 0..n : k \in Good
    BY <1>1, <1>3, <2>1, Upwards
  <2> QED BY <1>1, <2>2
<1>6. Left(n) = {}
  BY <1>1 DEF NamesIn
<1> HIDE DEF Left
<1> QED BY <1>2, <1>5, <1>6

(* A parameter of the new file is added, and so are the first n.           *)
NextMore(t, file, k) == AddParameter(t, file[k])
Extends(f, s, file, n) ==
    f = [k \in 0..n |-> IF k = 0 THEN s ELSE NextMore(f[k - 1], file, k)]

(* There is a function that does so up to any number.                      *)
LEMMA ExtendsExists ==
    ASSUME NEW s, NEW file, NEW n \in Nat
    PROVE  \E f : Extends(f, s, file, n)
<1> DEFINE Bad == {k \in Nat : ~ \E f : Extends(f, s, file, k)}
<1> SUFFICES ASSUME Bad # {} PROVE FALSE
  OBVIOUS
<1>1. PICK l \in Bad : \A k \in Bad : l <= k
  BY LeastNumber
<1>2. CASE l = 0
  <2> DEFINE f == [k \in 0..0 |-> s]
  <2>1. Extends(f, s, file, 0)
    BY DEF Extends
  <2> QED BY <1>1, <1>2, <2>1
<1>3. CASE l # 0
  <2>1. l - 1 \in Nat /\ l - 1 \notin Bad
    BY <1>1, <1>3
  <2>2. PICK f : Extends(f, s, file, l - 1)
    BY <2>1
  <2> DEFINE g == [k \in 0..l |-> IF k < l THEN f[k] ELSE NextMore(f[l - 1], file, l)]
  <2>3. \A k \in 0..l - 1 : f[k] = IF k = 0 THEN s ELSE NextMore(f[k - 1], file, k)
    BY <2>1, <2>2 DEF Extends
  <2>4. ASSUME NEW k \in 0..l
        PROVE  g[k] = IF k = 0 THEN s ELSE NextMore(g[k - 1], file, k)
    <3>1. CASE k < l
      <4>1. k \in 0..l - 1 /\ (k # 0 => k - 1 \in 0..l /\ k - 1 < l)
        BY <1>1, <3>1
      <4> QED BY <2>3, <3>1, <4>1
    <3>2. CASE k = l
      <4>1. k # 0 /\ k - 1 \in 0..l /\ k - 1 < l
        BY <1>1, <1>3, <3>2
      <4> QED BY <3>2, <4>1
    <3> QED BY <1>1, <3>1, <3>2
  <2>5. Extends(g, s, file, l)
    <3>1. g = [k \in 0..l |-> g[k]]
      OBVIOUS
    <3> HIDE DEF g
    <3> QED BY <2>4, <3>1 DEF Extends
  <2> QED BY <1>1, <2>5
<1> QED BY <1>2, <1>3


(* A list without others gets the parameters of a file.                    *)
LEMMA AddParametersKeeps ==
    ASSUME NEW s, IsChain(s), s.raised = FALSE, NEW file \in Seq(DefIds), Lists(s.m, {})
    PROVE  LET r == AddParameters(s, file)
           IN  /\ IsChain(r) /\ r.raised = FALSE /\ Lists(r.m, NamesIn(file))
               /\ r.m.values[IncludeKey] = s.m.values[IncludeKey]
               /\ r.m.included = s.m.included /\ r.m.watching = s.m.watching
               /\ DOMAIN s.m.objects \subseteq DOMAIN r.m.objects
<1>1. PICK n \in Nat : n = Len(file) /\ DOMAIN file = 1..n
  OBVIOUS
<1>2. PICK f : Extends(f, s, file, n) /\ AddParameters(s, file) = f[n]
  <2>1. AddParameters(s, file) = (CHOOSE f : Extends(f, s, file, n))[n]
    BY <1>1 DEF AddParameters, Extends, NextMore
  <2> QED BY <2>1, <1>1, ExtendsExists
<1> DEFINE Here(k) == {Defs[file[j]].name : j \in 1..k}
           Kept(t, k) == /\ IsChain(t) /\ t.raised = FALSE /\ Lists(t.m, Here(k))
                         /\ t.m.values[IncludeKey] = s.m.values[IncludeKey]
                         /\ t.m.included = s.m.included /\ t.m.watching = s.m.watching
                         /\ DOMAIN s.m.objects \subseteq DOMAIN t.m.objects
           Good == {k \in 0..n : Kept(f[k], k)}
<1>3. 0 \in Good
  <2>1. f[0] = s
    BY <1>1, <1>2 DEF Extends
  <2>2. Here(0) = {}
    OBVIOUS
  <2> HIDE DEF Here
  <2>3. Kept(f[0], 0)
    BY <2>1, <2>2
  <2> HIDE DEF Kept
  <2> QED BY <1>1, <2>3
<1>4. ASSUME NEW k \in 1..n, k - 1 \in Good PROVE k \in Good
  <2> DEFINE d == file[k]
             t == f[k - 1]
             r == AddParameter(t, d)
  <2>1. f[k] = r
    <3>1. k \in 0..n /\ k # 0
      BY <1>1
    <3> QED BY <1>2, <3>1 DEF Extends, NextMore
  <2>2. Kept(t, k - 1)
    BY <1>4
  <2> HIDE DEF t
  <2>3. Here(k) = Here(k - 1) \cup {Defs[d].name}
    <3>1. 1..k = (1..k - 1) \cup {k}
      BY <1>1
    <3> QED BY <3>1
  <2>4. d \in DefIds
    BY <1>1
  <2> HIDE DEF d, Here
  <2>5. /\ IsChain(r) /\ r.raised = FALSE /\ Lists(r.m, Here(k - 1) \cup {Defs[d].name})
        /\ r.m.values[IncludeKey] = t.m.values[IncludeKey]
        /\ r.m.included = t.m.included /\ r.m.watching = t.m.watching
        /\ DOMAIN t.m.objects \subseteq DOMAIN r.m.objects
    BY <2>2, <2>4, AddParameterKeeps
  <2> HIDE DEF r
  <2>6. Kept(r, k)
    BY <2>2, <2>3, <2>5
  <2> QED BY <1>1, <2>1, <2>6
<1>5. n \in Good
  <2> HIDE DEF Good
  <2>1. \A k \in 1..n : k - 1 \in Good => k \in Good
    BY <1>4
  <2>2. \A k \in 0..n : k \in Good
    BY <1>1, <1>3, <2>1, Upwards
  <2> QED BY <1>1, <2>2
<1>6. Here(n) = NamesIn(file)
  BY <1>1 DEF NamesIn
<1> HIDE DEF Here
<1> QED BY <1>2, <1>5, <1>6

(* A model outside of a change: the included file is the one that the      *)
(* value chooses, and its parameters are there.                            *)
Sound(m) ==
    /\ IsModel(m) /\ m.watching = TRUE
    /\ m.included = File(m.values)
    /\ Lists(m, NamesIn(ParametersOf(m.included)))

(* The included file is a value of IncludeKey, or there is none.           *)
LEMMA FileTyped ==
    ASSUME NEW values \in [Names -> Stored]
    PROVE  File(values) \in Values \cup {None}
<1>1. IncludeKey \in Names
  <2>1. PICK k \in DOMAIN Original : IncludeKey = Defs[Original[k]].name
    BY DefsAssumption DEF Originals
  <2>2. Original[k] \in DefIds
    BY DefsAssumption
  <2> QED BY <2>1, <2>2, DefsAssumption
<1> QED BY <1>1 DEF File, Empty, Stored

(* A file has parameters with a config.                                    *)
LEMMA ParametersTyped ==
    ASSUME NEW v \in Values \cup {None}
    PROVE  ParametersOf(v) \in Seq(DefIds)
BY DefsAssumption DEF ParametersOf, Empty

(* Remembering the included file leaves the list as it was.                *)
LEMMA IncludedIsSet ==
    ASSUME NEW s, IsChain(s), NEW given, Lists(s.m, given)
    PROVE  LET in == [s EXCEPT !.m.included = File(s.m.values)]
           IN  /\ IsChain(in) /\ in.raised = s.raised /\ Lists(in.m, given)
               /\ in.m.included = File(s.m.values) /\ in.m.values = s.m.values
               /\ in.m.watching = s.m.watching /\ in.m.objects = s.m.objects
<1> DEFINE file == File(s.m.values)
           m == [s.m EXCEPT !.included = file]
           in == [m |-> m, frames |-> s.frames, raised |-> s.raised]
<1>1. IsModel(s.m) /\ s.m \in ModelRecord
  BY DEF IsChain, IsModel
<1>2. file \in Values \cup {None}
  BY <1>1, FileTyped DEF ModelRecord
<1> HIDE DEF file
<1>3. [s EXCEPT !.m.included = file] = in
  <2>1. s \in [m : ModelRecord, frames : {s.frames}, raised : {s.raised}]
    BY ChainRecord
  <2>2. PICK x \in ModelRecord : x = m
    BY <1>1, <1>2 DEF ModelRecord
  <2>3. [s EXCEPT !.m.included = file] = [s EXCEPT !.m = x]
    BY <2>1, <2>2 DEF ModelRecord
  <2> HIDE DEF m
  <2>4. [s EXCEPT !.m = x] = [m |-> x, frames |-> s.frames, raised |-> s.raised]
    <3>1. PICK y : y = [s EXCEPT !.m = x]
      OBVIOUS
    <3>2. y \in [m : ModelRecord, frames : {s.frames}, raised : {s.raised}]
      BY <2>1, <3>1
    <3>3. y.m = x /\ y.frames = s.frames /\ y.raised = s.raised
      BY <2>1, <3>1
    <3>4. y = [m |-> y.m, frames |-> y.frames, raised |-> y.raised]
      BY <3>2
    <3> QED BY <3>1, <3>3, <3>4
  <2> QED BY <2>2, <2>3, <2>4
<1>4. /\ m \in ModelRecord /\ m.included = file /\ m.values = s.m.values
      /\ m.watching = s.m.watching /\ m.shown = s.m.shown /\ m.objects = s.m.objects
  BY <1>1, <1>2 DEF ModelRecord
<1> HIDE DEF m
<1>5. IsModel(m)
  BY <1>1, <1>4 DEF IsModel
<1>6. Lists(m, given)
  BY <1>4 DEF Lists, Shows, NameAt, DefOf
<1> QED BY <1>3, <1>4, <1>5, <1>6 DEF IsChain, file

(* Another file gets its parameters in the place of those of the old one.  *)
LEMMA IncludeKeeps ==
    ASSUME NEW s, IsChain(s), s.raised = FALSE, s.m.watching = TRUE,
           Lists(s.m, NamesIn(ParametersOf(s.m.included)))
    PROVE  LET r == Include(s)
           IN  /\ IsChain(r) /\ r.raised = FALSE /\ Sound(r.m)
               /\ DOMAIN s.m.objects \subseteq DOMAIN r.m.objects
<1> DEFINE file == File(s.m.values)
           old == s.m.included
           in == [s EXCEPT !.m.included = file]
           less == RemoveParameters(in, ParametersOf(old))
           more == AddParameters(less, ParametersOf(file))
           last == [more EXCEPT !.raised = FALSE]
<1>1. s.m \in ModelRecord /\ old \in Values \cup {None}
  BY DEF IsChain, IsModel, ModelRecord
<1>2. file \in Values \cup {None}
  BY <1>1, FileTyped DEF ModelRecord
<1>3. Include(s) = IF file = old THEN in ELSE last
  BY DEF Include
<1>4. /\ IsChain(in) /\ in.raised = FALSE /\ Lists(in.m, NamesIn(ParametersOf(old)))
      /\ in.m.included = file /\ in.m.values = s.m.values
      /\ in.m.watching = TRUE /\ in.m.objects = s.m.objects
  BY IncludedIsSet
<1> HIDE DEF in
<1>5. File(in.m.values) = file
  BY <1>4
<1>6. CASE file = old
  BY <1>3, <1>4, <1>5, <1>6 DEF Sound, IsChain
<1>7. CASE file # old
  <2>1. /\ IsChain(less) /\ less.raised = FALSE /\ Lists(less.m, {})
        /\ less.m.objects = in.m.objects /\ less.m.values = in.m.values
        /\ less.m.included = in.m.included /\ less.m.watching = in.m.watching
    <3>1. ParametersOf(old) \in Seq(DefIds)
      BY <1>1, ParametersTyped
    <3> HIDE DEF old
    <3> QED BY <1>4, <3>1, RemoveParametersKeeps
  <2> HIDE DEF less
  <2>2. /\ IsChain(more) /\ more.raised = FALSE /\ Lists(more.m, NamesIn(ParametersOf(file)))
        /\ more.m.values[IncludeKey] = less.m.values[IncludeKey]
        /\ more.m.included = less.m.included /\ more.m.watching = less.m.watching
        /\ DOMAIN less.m.objects \subseteq DOMAIN more.m.objects
    <3>1. ParametersOf(file) \in Seq(DefIds)
      BY <1>2, ParametersTyped
    <3> HIDE DEF file
    <3> QED BY <2>1, <3>1, AddParametersKeeps
  <2> HIDE DEF more
  <2>3. last = more
    <3>1. more \in [m : ModelRecord, frames : {more.frames}, raised : {more.raised}]
      BY <2>2, ChainRecord
    <3> QED BY <2>2, <3>1
  <2> HIDE DEF last
  <2>4. File(more.m.values) = file
    <3>1. more.m.values[IncludeKey] = s.m.values[IncludeKey]
      BY <1>4, <2>1, <2>2
    <3> QED BY <3>1 DEF File
  <2>5. Include(s) = more
    BY <1>3, <1>7, <2>3
  <2>6. more.m.included = file /\ more.m.watching = TRUE
    BY <1>4, <2>1, <2>2
  <2>7. DOMAIN s.m.objects \subseteq DOMAIN more.m.objects
    BY <1>4, <2>1, <2>2
  <2>8. Sound(more.m)
    <3> HIDE DEF file
    <3> QED BY <2>2, <2>4, <2>6 DEF Sound, IsChain
  <2> QED BY <2>2, <2>5, <2>7, <2>8
<1> QED BY <1>6, <1>7

(* The same list with the same values is as sound.                         *)
LEMMA SoundSame ==
    ASSUME NEW m, NEW r, Sound(m), IsModel(r), SameList(m, r), r.values = m.values
    PROVE  Sound(r)
<1>1. Lists(r, NamesIn(ParametersOf(m.included)))
  BY ListsSame DEF Sound
<1> QED BY <1>1 DEF Sound, SameList

(* An assignment to a parameter keeps a model sound.                       *)
LEMMA AssignKeeps ==
    ASSUME NEW s, IsChain(s), s.raised = FALSE, Sound(s.m), NEW name \in Names, NEW v \in Stored
    PROVE  LET r == Assign(s, name, v)
           IN  /\ IsChain(r) /\ r.raised = FALSE /\ Sound(r.m)
               /\ DOMAIN s.m.objects \subseteq DOMAIN r.m.objects
<1>1. CASE v = s.m.values[name]
  BY <1>1 DEF Assign
<1>2. CASE v # s.m.values[name]
  <2> DEFINE stored == Store(s, name, v)
             changed == IF name = IncludeKey THEN Include(stored) ELSE stored
             last == Notify(changed, name)
  <2>1. Assign(s, name, v) = last
    BY <1>2 DEF Assign
  <2>2. /\ IsChain(stored) /\ SameList(s.m, stored.m) /\ stored.raised = FALSE
        /\ stored.m.values = [s.m.values EXCEPT ![name] = v]
    BY StoreKeeps
  <2> HIDE DEF stored
  <2>3. Lists(stored.m, NamesIn(ParametersOf(stored.m.included)))
    <3>1. Lists(stored.m, NamesIn(ParametersOf(s.m.included)))
      BY <2>2, ListsSame DEF Sound
    <3> QED BY <2>2, <3>1 DEF SameList
  <2>4. stored.m.watching = TRUE /\ DOMAIN stored.m.objects = DOMAIN s.m.objects
    BY <2>2 DEF SameList, Sound
  <2>5. /\ IsChain(changed) /\ changed.raised = FALSE /\ Sound(changed.m)
        /\ DOMAIN s.m.objects \subseteq DOMAIN changed.m.objects
    <3>1. CASE name = IncludeKey
      <4>1. /\ IsChain(Include(stored)) /\ Include(stored).raised = FALSE /\ Sound(Include(stored).m)
            /\ DOMAIN stored.m.objects \subseteq DOMAIN Include(stored).m.objects
        BY <2>2, <2>3, <2>4, IncludeKeeps
      <4> QED BY <2>4, <3>1, <4>1
    <3>2. CASE name # IncludeKey
      <4>1. stored.m.included = File(stored.m.values)
        <5>1. s.m.values \in [Names -> Stored]
          BY DEF Sound, IsModel, ModelRecord
        <5>2. stored.m.values[IncludeKey] = s.m.values[IncludeKey]
          BY <2>2, <3>2, <5>1
        <5>3. stored.m.included = s.m.included
          BY <2>2 DEF SameList
        <5> QED BY <5>2, <5>3 DEF Sound, File
      <4> QED BY <2>2, <2>3, <2>4, <3>2, <4>1 DEF Sound, IsChain
    <3> QED BY <3>1, <3>2
  <2> HIDE DEF changed
  <2>6. /\ IsChain(last) /\ SameList(changed.m, last.m)
        /\ last.m.values = changed.m.values /\ last.raised = changed.raised
    BY <2>5, NotifyKeeps
  <2> HIDE DEF last
  <2>7. Sound(last.m)
    BY <2>5, <2>6, SoundSame DEF IsChain
  <2> QED BY <2>1, <2>5, <2>6, <2>7 DEF SameList
<1> QED BY <1>1, <1>2

-----------------------------------------------------------------------------
(* A new model, before it watches the value of IncludeKey.                 *)

(* The parameter that chooses the included file has no default. With one,  *)
(* the parameters of the file it chooses are missing from the first model  *)
(* on, as a run shows.                                                     *)
KeyStartsEmpty ==
    \A k \in DOMAIN Original : Defs[Original[k]].name = IncludeKey => Defs[Original[k]].default = None

(* It lists the parameters of the script and includes no file.             *)
Young(m) ==
    /\ IsModel(m) /\ m.watching = FALSE /\ m.included = None
    /\ Empty(m.values[IncludeKey]) /\ Lists(m, {})

(* The parameters of the script have a name of its own and a default.      *)
LEMMA OriginalTyped ==
    ASSUME NEW k \in DOMAIN Original
    PROVE  /\ Original[k] \in DefIds /\ Defs[Original[k]].name \in Names
           /\ Defs[Original[k]].name \in Originals
           /\ Wrap(Original[k], Defs[Original[k]].default) = Defs[Original[k]].default
           /\ Defs[Original[k]].default \in Stored
<1>1. Original[k] \in DefIds
  BY DefsAssumption
<1> QED BY <1>1, DefsAssumption DEF Originals, Wrap, Stored

(* The model has the parameters of the script before it has values.        *)
LEMMA BlankIsYoung == Young(Blank)
<1>1. PICK n \in Nat : n = Len(Original) /\ DOMAIN Original = 1..n
  BY DefsAssumption
<1> DEFINE values == [name \in Names |-> Unset]
           Made(k) == NewObject(Original[k], values)
           objects == [k \in 1..n |-> Made(k)]
           listing == [k \in 1..n |-> k]
<1>2. values \in [Names -> Stored]
  BY DEF Stored
<1>3. \A k \in 1..n : Made(k) \in Object /\ Made(k).def = Original[k]
  <2> SUFFICES ASSUME NEW k \in 1..n PROVE Made(k) \in Object /\ Made(k).def = Original[k]
    OBVIOUS
  <2>1. Original[k] \in DefIds
    BY <1>1, OriginalTyped
  <2> HIDE DEF values
  <2>2. Options(Original[k], values) \in SUBSET Values
    BY <1>2, <2>1, OptionsTyped
  <2> QED BY <2>1, <2>2 DEF NewObject, Object
<1> HIDE DEF Made
<1>4. objects \in Seq(Object) /\ listing \in Seq(Nat)
  BY <1>1, <1>3
<1>5. /\ Blank.objects = objects /\ Blank.shown = listing /\ Blank.values = values
      /\ Blank.included = None /\ Blank.watching = FALSE
      /\ Blank = [objects |-> objects, shown |-> listing, values |-> values,
                  included |-> None, watching |-> FALSE]
  BY <1>1 DEF Blank, Made
<1>6. Blank \in ModelRecord
  <2> HIDE DEF objects, listing, values
  <2> QED BY <1>2, <1>4, <1>5 DEF ModelRecord
<1>7. ASSUME NEW k \in 1..n PROVE NameAt(Blank, k) = Defs[Original[k]].name
  BY <1>3, <1>5, <1>7 DEF NameAt, DefOf
<1>8. IsModel(Blank)
  BY <1>5, <1>6 DEF IsModel
<1>9. DOMAIN Blank.shown = 1..n
  BY <1>5
<1>10. \A name : Shows(Blank, name) <=> name \in Originals
  <2>1. Originals = {Defs[Original[k]].name : k \in 1..n}
    BY <1>1 DEF Originals
  <2> QED BY <1>7, <1>9, <2>1 DEF Shows
<1>11. Lists(Blank, {})
  BY <1>10 DEF Lists, Shows
<1>12. Empty(Blank.values[IncludeKey])
  <2>1. PICK k \in DOMAIN Original : IncludeKey = Defs[Original[k]].name
    BY DefsAssumption DEF Originals
  <2>2. IncludeKey \in Names
    BY <2>1, OriginalTyped
  <2> QED BY <1>5, <2>2 DEF Empty
<1> QED BY <1>5, <1>8, <1>11, <1>12 DEF Young

(* An assignment to a model that does not watch includes no file.          *)
LEMMA AssignKeepsYoung ==
    ASSUME NEW s, IsChain(s), s.raised = FALSE, Young(s.m), NEW name \in Names, NEW v \in Stored,
           name = IncludeKey => Empty(v)
    PROVE  LET r == Assign(s, name, v) IN IsChain(r) /\ r.raised = FALSE /\ Young(r.m)
<1>1. CASE v = s.m.values[name]
  BY <1>1 DEF Assign
<1>2. CASE v # s.m.values[name]
  <2> DEFINE stored == Store(s, name, v)
             in == [stored EXCEPT !.m.included = File(stored.m.values)]
             changed == IF name = IncludeKey THEN Include(stored) ELSE stored
             last == Notify(changed, name)
  <2>1. Assign(s, name, v) = last
    BY <1>2 DEF Assign
  <2>2. /\ IsChain(stored) /\ SameList(s.m, stored.m) /\ stored.raised = FALSE
        /\ stored.m.values = [s.m.values EXCEPT ![name] = v]
    BY StoreKeeps
  <2> HIDE DEF stored
  <2>3. Lists(stored.m, {})
    BY <2>2, ListsSame DEF Young
  <2>4. Empty(stored.m.values[IncludeKey])
    <3>1. s.m.values \in [Names -> Stored]
      BY DEF Young, IsModel, ModelRecord
    <3> QED BY <2>2, <3>1 DEF Young
  <2>5. stored.m.watching = FALSE /\ stored.m.included = None
    BY <2>2 DEF SameList, Young
  <2>6. Young(stored.m)
    BY <2>2, <2>3, <2>4, <2>5 DEF Young, IsChain
  <2>7. IsChain(changed) /\ changed.raised = FALSE /\ Young(changed.m)
    <3>1. CASE name = IncludeKey
      <4>1. Include(stored) = in
        BY <2>5 DEF Include
      <4>2. /\ IsChain(in) /\ in.raised = FALSE /\ Lists(in.m, {})
            /\ in.m.included = File(stored.m.values) /\ in.m.values = stored.m.values
            /\ in.m.watching = FALSE
        BY <2>2, <2>3, <2>5, IncludedIsSet
      <4> HIDE DEF in
      <4>3. File(stored.m.values) = None
        BY <2>4 DEF File
      <4>4. Young(in.m)
        BY <2>4, <4>2, <4>3 DEF Young, IsChain
      <4> QED BY <3>1, <4>1, <4>2, <4>4
    <3>2. CASE name # IncludeKey
      BY <2>2, <2>6, <3>2
    <3> QED BY <3>1, <3>2
  <2> HIDE DEF changed
  <2>8. /\ IsChain(last) /\ SameList(changed.m, last.m)
        /\ last.m.values = changed.m.values /\ last.raised = changed.raised
    BY <2>7, NotifyKeeps
  <2> HIDE DEF last
  <2>9. Lists(last.m, {})
    BY <2>7, <2>8, ListsSame DEF Young
  <2>10. Young(last.m)
    BY <2>7, <2>8, <2>9 DEF Young, IsChain, SameList
  <2> QED BY <2>1, <2>7, <2>8, <2>10
<1> QED BY <1>1, <1>2

(* A parameter of the script gets its default, and so do the first n.      *)
NextFilled(t, k) == LET d == Original[k] IN Assign(t, Defs[d].name, Wrap(d, Defs[d].default))
Fills(f, s, n) == f = [k \in 0..n |-> IF k = 0 THEN s ELSE NextFilled(f[k - 1], k)]

(* There is a function that does so up to any number.                      *)
LEMMA FillsExists ==
    ASSUME NEW s, NEW n \in Nat
    PROVE  \E f : Fills(f, s, n)
<1> DEFINE Bad == {k \in Nat : ~ \E f : Fills(f, s, k)}
<1> SUFFICES ASSUME Bad # {} PROVE FALSE
  OBVIOUS
<1>1. PICK l \in Bad : \A k \in Bad : l <= k
  BY LeastNumber
<1>2. CASE l = 0
  <2> DEFINE f == [k \in 0..0 |-> s]
  <2>1. Fills(f, s, 0)
    BY DEF Fills
  <2> QED BY <1>1, <1>2, <2>1
<1>3. CASE l # 0
  <2>1. l - 1 \in Nat /\ l - 1 \notin Bad
    BY <1>1, <1>3
  <2>2. PICK f : Fills(f, s, l - 1)
    BY <2>1
  <2> DEFINE g == [k \in 0..l |-> IF k < l THEN f[k] ELSE NextFilled(f[l - 1], l)]
  <2>3. \A k \in 0..l - 1 : f[k] = IF k = 0 THEN s ELSE NextFilled(f[k - 1], k)
    BY <2>1, <2>2 DEF Fills
  <2>4. ASSUME NEW k \in 0..l
        PROVE  g[k] = IF k = 0 THEN s ELSE NextFilled(g[k - 1], k)
    <3>1. CASE k < l
      <4>1. k \in 0..l - 1 /\ (k # 0 => k - 1 \in 0..l /\ k - 1 < l)
        BY <1>1, <3>1
      <4> QED BY <2>3, <3>1, <4>1
    <3>2. CASE k = l
      <4>1. k # 0 /\ k - 1 \in 0..l /\ k - 1 < l
        BY <1>1, <1>3, <3>2
      <4> QED BY <3>2, <4>1
    <3> QED BY <1>1, <3>1, <3>2
  <2>5. Fills(g, s, l)
    <3>1. g = [k \in 0..l |-> g[k]]
      OBVIOUS
    <3> HIDE DEF g
    <3> QED BY <2>4, <3>1 DEF Fills
  <2> QED BY <1>1, <2>5
<1> QED BY <1>2, <1>3


(* The parameters of a new model are those of the script, and no file is   *)
(* included as long as the default of IncludeKey is empty.                 *)
LEMMA NewModelIsSound ==
    ASSUME KeyStartsEmpty
    PROVE  Sound(NewModel)
<1>1. PICK n \in Nat : n = Len(Original) /\ DOMAIN Original = 1..n
  BY DefsAssumption
<1> DEFINE start == Chain(Blank)
<1>2. PICK f : Fills(f, start, n) /\ NewModel = [f[n].m EXCEPT !.watching = TRUE]
  <2>1. NewModel = [(CHOOSE f : Fills(f, start, n))[n].m EXCEPT !.watching = TRUE]
    BY <1>1 DEF NewModel, Fills, NextFilled
  <2> QED BY <2>1, FillsExists
<1>3. IsChain(start) /\ start.raised = FALSE /\ Young(start.m)
  BY BlankIsYoung DEF Chain, IsChain, Young
<1> HIDE DEF start
<1> DEFINE Kept(t) == IsChain(t) /\ t.raised = FALSE /\ Young(t.m)
           Good == {k \in 0..n : Kept(f[k])}
<1>4. 0 \in Good
  <2>1. f[0] = start
    BY <1>1, <1>2 DEF Fills
  <2> QED BY <1>1, <1>3, <2>1
<1>5. ASSUME NEW k \in 1..n, k - 1 \in Good PROVE k \in Good
  <2> DEFINE d == Original[k]
             v == Wrap(d, Defs[d].default)
             t == f[k - 1]
  <2>1. f[k] = Assign(t, Defs[d].name, v)
    <3>1. k \in 0..n /\ k # 0
      BY <1>1
    <3> QED BY <1>2, <3>1 DEF Fills, NextFilled
  <2>2. Kept(t)
    BY <1>5
  <2> HIDE DEF t
  <2>3. /\ Defs[d].name \in Names /\ v \in Stored
        /\ Defs[d].name = IncludeKey => Empty(v)
    BY <1>1, OriginalTyped DEF KeyStartsEmpty, Empty
  <2>4. PICK name \in Names, x \in Stored : /\ name = Defs[d].name /\ x = v
                                            /\ name = IncludeKey => Empty(x)
    BY <2>3
  <2>5. Kept(Assign(t, name, x))
    BY <2>2, <2>4, AssignKeepsYoung
  <2>6. Kept(f[k])
    BY <2>1, <2>4, <2>5
  <2> QED BY <1>1, <2>6
<1>6. n \in Good
  <2> HIDE DEF Good
  <2>1. \A k \in 1..n : k - 1 \in Good => k \in Good
    BY <1>5
  <2>2. \A k \in 0..n : k \in Good
    BY <1>1, <1>4, <2>1, Upwards
  <2> QED BY <1>1, <2>2
<1> DEFINE old == f[n].m
           m == [old EXCEPT !.watching = TRUE]
<1>7. Young(old)
  BY <1>6
<1> HIDE DEF old
<1>8. /\ m \in ModelRecord /\ m.watching = TRUE /\ m.shown = old.shown /\ m.objects = old.objects
      /\ m.values = old.values /\ m.included = old.included
  BY <1>7 DEF Young, IsModel, ModelRecord
<1> HIDE DEF m
<1>9. IsModel(m)
  BY <1>7, <1>8 DEF Young, IsModel
<1>10. m.included = None /\ File(m.values) = None
  BY <1>7, <1>8 DEF Young, File
<1>11. NamesIn(ParametersOf(m.included)) = {}
  BY <1>10 DEF NamesIn, ParametersOf, Empty
<1>12. Lists(m, {})
  BY <1>7, <1>8 DEF Young, Lists, Shows, NameAt, DefOf
<1>13. Sound(m)
  BY <1>8, <1>9, <1>10, <1>11, <1>12 DEF Sound
<1> QED BY <1>2, <1>13 DEF m, old

-----------------------------------------------------------------------------
(* The operations on a sound model. *)

(* A value that is valid is one that can be stored.                        *)
LEMMA ValidTyped ==
    ASSUME NEW m, IsModel(m), NEW i \in DOMAIN m.objects, NEW v,
           Valid(m, i, Wrap(m.objects[i].def, v))
    PROVE  Wrap(m.objects[i].def, v) \in Stored
<1>1. m.objects[i] \in Object
  BY DEF IsModel, ModelRecord
<1>2. m.objects[i].def \in DefIds /\ m.objects[i].allowed \subseteq Values
  BY <1>1 DEF Object
<1>3. CASE Defs[m.objects[i].def].constant
  BY <1>2, <1>3, DefsAssumption DEF Wrap, Stored
<1>4. CASE ~Defs[m.objects[i].def].constant
  BY <1>2, <1>4 DEF Valid, DefOf, Empty, Stored
<1> QED BY <1>3, <1>4

(* set_param_value keeps a model sound, whatever the name and the value.   *)
LEMMA SetValueKeeps ==
    ASSUME NEW m, Sound(m), NEW name, NEW v
    PROVE  Sound(SetValue(m, name, v).result)
<1> DEFINE i == Find(m, name)
           d == m.objects[i].def
           ok == i = 0 \/ Valid(m, i, Wrap(d, v))
           w == Wrap(d, IF ok THEN v ELSE None)
           s == IF i = 0 THEN Chain(m) ELSE Assign(Chain(m), name, w)
<1>1. SetValue(m, name, v).result = s.m
  BY DEF SetValue
<1>2. IsChain(Chain(m)) /\ Chain(m).raised = FALSE /\ Chain(m).m = m
  BY DEF Chain, IsChain, Sound
<1>3. CASE i = 0
  BY <1>1, <1>2, <1>3
<1>4. CASE i # 0
  <2>1. i \in DOMAIN m.objects /\ DefOf(m, i).name = name
    BY <1>4, PlaceIs DEF Sound
  <2>2. d \in DefIds
    <3>1. m.objects[i] \in Object
      BY <2>1 DEF Sound, IsModel, ModelRecord
    <3> QED BY <3>1 DEF Object
  <2>3. name \in Names
    BY <2>1, <2>2, DefsAssumption DEF DefOf
  <2> HIDE DEF i
  <2>4. w \in Stored
    <3>1. CASE ok
      BY <1>4, <2>1, <3>1, ValidTyped DEF Sound
    <3>2. CASE ~ok
      <4>1. None \in Stored
        BY DEF Stored
      <4> QED BY <2>2, <3>2, <4>1, WrapTyped
    <3> QED BY <3>1, <3>2
  <2> HIDE DEF w
  <2>5. Sound(Assign(Chain(m), name, w).m)
    BY <1>2, <2>3, <2>4, AssignKeeps
  <2> QED BY <1>1, <1>4, <2>5 DEF i
<1> QED BY <1>3, <1>4

(* So does the assignment of one parameter in set_all_param_values.        *)
LEMMA SetOneKeeps ==
    ASSUME NEW given, NEW s, Sound(s.m), NEW i \in DOMAIN s.m.objects
    PROVE  LET r == SetOne(given, s, i)
           IN  Sound(r.m) /\ DOMAIN s.m.objects \subseteq DOMAIN r.m.objects
<1> DEFINE n == DefOf(s.m, i).name
           d == s.m.objects[i].def
           v == Wrap(d, given[n])
           w == IF Valid(s.m, i, v) /\ v # Unset THEN v ELSE None
           skip == n \in s.done \/ DefOf(s.m, i).needs \ s.done # {}
           t == Assign(Chain(s.m), n, w)
<1>1. SetOne(given, s, i) = IF skip THEN s ELSE [m |-> t.m, done |-> s.done \cup {n}]
  BY DEF SetOne
<1>2. IsChain(Chain(s.m)) /\ Chain(s.m).raised = FALSE /\ Chain(s.m).m = s.m
  BY DEF Chain, IsChain, Sound
<1>3. n \in Names
  <2>1. s.m.objects[i] \in Object
    BY DEF Sound, IsModel, ModelRecord
  <2>2. d \in DefIds
    BY <2>1 DEF Object
  <2> QED BY <2>2, DefsAssumption DEF DefOf
<1>4. w \in Stored
  <2>1. CASE Valid(s.m, i, v) /\ v # Unset
    BY <2>1, ValidTyped DEF Sound
  <2>2. CASE ~(Valid(s.m, i, v) /\ v # Unset)
    BY <2>2 DEF Stored
  <2> QED BY <2>1, <2>2
<1> HIDE DEF n, w
<1>5. Sound(t.m) /\ DOMAIN s.m.objects \subseteq DOMAIN t.m.objects
  BY <1>2, <1>3, <1>4, AssignKeeps
<1> HIDE DEF t, skip
<1>6. CASE skip
  BY <1>1, <1>6
<1>7. CASE ~skip
  BY <1>1, <1>5, <1>7
<1> QED BY <1>6, <1>7

(* A parameter of the list gets its value, and so do the first n.          *)
NextUpto(t, given, list, skipped, k) ==
    IF list[k] \in skipped THEN t ELSE SetOne(given, t, list[k])
Passes(f, s, given, list, skipped, n) ==
    f = [k \in 0..n |-> IF k = 0 THEN s ELSE NextUpto(f[k - 1], given, list, skipped, k)]

(* There is a function that does so up to any number.                      *)
LEMMA PassesExists ==
    ASSUME NEW s, NEW given, NEW list, NEW skipped, NEW n \in Nat
    PROVE  \E f : Passes(f, s, given, list, skipped, n)
<1> DEFINE Bad == {k \in Nat : ~ \E f : Passes(f, s, given, list, skipped, k)}
<1> SUFFICES ASSUME Bad # {} PROVE FALSE
  OBVIOUS
<1>1. PICK l \in Bad : \A k \in Bad : l <= k
  BY LeastNumber
<1>2. CASE l = 0
  <2> DEFINE f == [k \in 0..0 |-> s]
  <2>1. Passes(f, s, given, list, skipped, 0)
    BY DEF Passes
  <2> QED BY <1>1, <1>2, <2>1
<1>3. CASE l # 0
  <2>1. l - 1 \in Nat /\ l - 1 \notin Bad
    BY <1>1, <1>3
  <2>2. PICK f : Passes(f, s, given, list, skipped, l - 1)
    BY <2>1
  <2> DEFINE g == [k \in 0..l |-> IF k < l THEN f[k] ELSE NextUpto(f[l - 1], given, list, skipped, l)]
  <2>3. \A k \in 0..l - 1 : f[k] = IF k = 0 THEN s ELSE NextUpto(f[k - 1], given, list, skipped, k)
    BY <2>1, <2>2 DEF Passes
  <2>4. ASSUME NEW k \in 0..l
        PROVE  g[k] = IF k = 0 THEN s ELSE NextUpto(g[k - 1], given, list, skipped, k)
    <3>1. CASE k < l
      <4>1. k \in 0..l - 1 /\ (k # 0 => k - 1 \in 0..l /\ k - 1 < l)
        BY <1>1, <3>1
      <4> QED BY <2>3, <3>1, <4>1
    <3>2. CASE k = l
      <4>1. k # 0 /\ k - 1 \in 0..l /\ k - 1 < l
        BY <1>1, <1>3, <3>2
      <4> QED BY <3>2, <4>1
    <3> QED BY <1>1, <3>1, <3>2
  <2>5. Passes(g, s, given, list, skipped, l)
    <3>1. g = [k \in 0..l |-> g[k]]
      OBVIOUS
    <3> HIDE DEF g
    <3> QED BY <2>4, <3>1 DEF Passes
  <2> QED BY <1>1, <2>5
<1> QED BY <1>2, <1>3


(* So does a pass over parameters of the model.                            *)
LEMMA PassKeeps ==
    ASSUME NEW given, NEW s, Sound(s.m), NEW list \in Seq(Nat), NEW skipped,
           \A k \in DOMAIN list : list[k] \in DOMAIN s.m.objects
    PROVE  LET r == Pass(given, s, list, skipped)
           IN  Sound(r.m) /\ DOMAIN s.m.objects \subseteq DOMAIN r.m.objects
<1>1. PICK n \in Nat : n = Len(list) /\ DOMAIN list = 1..n
  OBVIOUS
<1>2. PICK f : Passes(f, s, given, list, skipped, n) /\ Pass(given, s, list, skipped) = f[n]
  <2>1. Pass(given, s, list, skipped) = (CHOOSE f : Passes(f, s, given, list, skipped, n))[n]
    BY <1>1 DEF Pass, Passes, NextUpto
  <2> QED BY <2>1, PassesExists
<1> DEFINE Kept(t) == Sound(t.m) /\ DOMAIN s.m.objects \subseteq DOMAIN t.m.objects
           Good == {k \in 0..n : Kept(f[k])}
<1>3. 0 \in Good
  <2>1. f[0] = s
    BY <1>1, <1>2 DEF Passes
  <2> QED BY <1>1, <2>1
<1>4. ASSUME NEW k \in 1..n, k - 1 \in Good PROVE k \in Good
  <2> DEFINE t == f[k - 1]
             r == SetOne(given, t, list[k])
  <2>1. f[k] = IF list[k] \in skipped THEN t ELSE r
    <3>1. k \in 0..n /\ k # 0
      BY <1>1
    <3> QED BY <1>2, <3>1 DEF Passes, NextUpto
  <2>2. Kept(t)
    BY <1>4
  <2> HIDE DEF t
  <2>3. list[k] \in DOMAIN t.m.objects
    BY <1>1, <2>2
  <2>4. Kept(r)
    <3>1. Sound(r.m) /\ DOMAIN t.m.objects \subseteq DOMAIN r.m.objects
      BY <2>2, <2>3, SetOneKeeps
    <3> HIDE DEF r
    <3> QED BY <2>2, <3>1
  <2> HIDE DEF r, Kept
  <2>5. Kept(f[k])
    BY <2>1, <2>2, <2>4
  <2> QED BY <1>1, <2>5
<1>5. n \in Good
  <2> HIDE DEF Good
  <2>1. \A k \in 1..n : k - 1 \in Good => k \in Good
    BY <1>4
  <2>2. \A k \in 0..n : k \in Good
    BY <1>1, <1>3, <2>1, Upwards
  <2> QED BY <1>1, <2>2
<1> QED BY <1>2, <1>5

(* get_sort_key, and the order that it gives                               *)
RankOf(m, i) ==
    Cardinality(DefOf(m, i).needs) + IF DefOf(m, i).name = IncludeKey THEN 0 ELSE 100
LeastOf(m, S) ==
    CHOOSE i \in S : \A j \in S :
        RankOf(m, i) < RankOf(m, j) \/ (RankOf(m, i) = RankOf(m, j) /\ i <= j)

(* Some parameter is the first of those that are left.                     *)
LEMMA LeastOfIn ==
    ASSUME NEW m, IsModel(m), NEW S, S \subseteq DOMAIN m.objects, S # {}
    PROVE  LeastOf(m, S) \in S
<1> DEFINE rank == [i \in S |-> RankOf(m, i)]
<1>1. m.objects \in Seq(Object)
  BY DEF IsModel, ModelRecord
<1>2. S \in SUBSET Nat
  BY <1>1
<1>3. ASSUME NEW i \in S PROVE RankOf(m, i) \in Nat
  <2>0. m.objects[i] \in Object
    BY <1>1
  <2>1. m.objects[i].def \in DefIds
    BY <2>0 DEF Object
  <2>2. DefOf(m, i).needs \in SUBSET Names
    BY <2>1, DefsAssumption DEF DefOf
  <2>3. Cardinality(DefOf(m, i).needs) \in Nat
    BY <2>2, DefsAssumption, FS_Subset, FS_CardinalityType
  <2> QED BY <2>3 DEF RankOf
<1>4. rank \in [S -> Nat] /\ \A i \in S : rank[i] = RankOf(m, i)
  BY <1>3
<1> HIDE DEF rank
<1>5. PICK l \in Nat : (\E i \in S : rank[i] = l) /\ \A i \in S : l <= rank[i]
  <2> DEFINE R == {rank[i] : i \in S}
  <2>1. R \in SUBSET Nat /\ R # {}
    BY <1>4
  <2>2. PICK l \in R : \A k \in R : l <= k
    BY <2>1, LeastNumber
  <2> QED BY <2>1, <2>2
<1>6. PICK i \in S : rank[i] = l /\ \A j \in S : rank[j] = l => i <= j
  <2> DEFINE T == {i \in S : rank[i] = l}
  <2>1. T \in SUBSET Nat /\ T # {}
    BY <1>2, <1>5
  <2>2. PICK i \in T : \A j \in T : i <= j
    BY <2>1, LeastNumber
  <2> QED BY <2>2
<1>7. ASSUME NEW j \in S
      PROVE  RankOf(m, i) < RankOf(m, j) \/ (RankOf(m, i) = RankOf(m, j) /\ i <= j)
  <2>1. rank[i] = l /\ l <= rank[j] /\ rank[j] \in Nat /\ (rank[j] = l => i <= j)
    BY <1>4, <1>5, <1>6
  <2>2. rank[i] < rank[j] \/ (rank[i] = rank[j] /\ i <= j)
    BY <2>1
  <2> QED BY <1>4, <2>2
<1>8. \E x \in S : \A j \in S :
         RankOf(m, x) < RankOf(m, j) \/ (RankOf(m, x) = RankOf(m, j) /\ x <= j)
  BY <1>7
<1> QED BY <1>8 DEF LeastOf

(* The first of the others is appended, up to n of them.                   *)
NextFirst(t, m, k) == Append(t, LeastOf(m, Range(m.shown) \ Range(t)))
Sorts(f, s, m, n) ==
    f = [k \in 0..n |-> IF k = 0 THEN s ELSE NextFirst(f[k - 1], m, k)]

(* There is a function that does so up to any number.                      *)
LEMMA SortsExists ==
    ASSUME NEW s, NEW m, NEW n \in Nat
    PROVE  \E f : Sorts(f, s, m, n)
<1> DEFINE Bad == {k \in Nat : ~ \E f : Sorts(f, s, m, k)}
<1> SUFFICES ASSUME Bad # {} PROVE FALSE
  OBVIOUS
<1>1. PICK l \in Bad : \A k \in Bad : l <= k
  BY LeastNumber
<1>2. CASE l = 0
  <2> DEFINE f == [k \in 0..0 |-> s]
  <2>1. Sorts(f, s, m, 0)
    BY DEF Sorts
  <2> QED BY <1>1, <1>2, <2>1
<1>3. CASE l # 0
  <2>1. l - 1 \in Nat /\ l - 1 \notin Bad
    BY <1>1, <1>3
  <2>2. PICK f : Sorts(f, s, m, l - 1)
    BY <2>1
  <2> DEFINE g == [k \in 0..l |-> IF k < l THEN f[k] ELSE NextFirst(f[l - 1], m, l)]
  <2>3. \A k \in 0..l - 1 : f[k] = IF k = 0 THEN s ELSE NextFirst(f[k - 1], m, k)
    BY <2>1, <2>2 DEF Sorts
  <2>4. ASSUME NEW k \in 0..l
        PROVE  g[k] = IF k = 0 THEN s ELSE NextFirst(g[k - 1], m, k)
    <3>1. CASE k < l
      <4>1. k \in 0..l - 1 /\ (k # 0 => k - 1 \in 0..l /\ k - 1 < l)
        BY <1>1, <3>1
      <4> QED BY <2>3, <3>1, <4>1
    <3>2. CASE k = l
      <4>1. k # 0 /\ k - 1 \in 0..l /\ k - 1 < l
        BY <1>1, <1>3, <3>2
      <4> QED BY <3>2, <4>1
    <3> QED BY <1>1, <3>1, <3>2
  <2>5. Sorts(g, s, m, l)
    <3>1. g = [k \in 0..l |-> g[k]]
      OBVIOUS
    <3> HIDE DEF g
    <3> QED BY <2>4, <3>1 DEF Sorts
  <2> QED BY <1>1, <2>5
<1> QED BY <1>2, <1>3


(* Fewer elements than a set has are not all of them.                      *)
LEMMA FewerThanAll ==
    ASSUME NEW S, IsFiniteSet(S), NEW t \in Seq(S), Len(t) < Cardinality(S)
    PROVE  S \ Range(t) # {}
<1> SUFFICES ASSUME S \subseteq Range(t) PROVE FALSE
  OBVIOUS
<1>1. PICK n \in Nat : n = Len(t) /\ DOMAIN t = 1..n
  OBVIOUS
<1>2. t \in [1..n -> S] /\ \A x \in S : \E k \in 1..n : t[k] = x
  BY <1>1 DEF Range
<1>3. t \in Surjection(1..n, S)
  BY <1>2 DEF Surjection
<1>4. IsFiniteSet(1..n) /\ Cardinality(1..n) = n
  <2>1. 1 \in Int /\ n \in Int
    BY <1>1
  <2>2. IsFiniteSet(1..n) /\ Cardinality(1..n) = IF 1 > n THEN 0 ELSE n - 1 + 1
    BY <2>1, FS_Interval
  <2>3. (IF 1 > n THEN 0 ELSE n - 1 + 1) = n
    BY <1>1
  <2> QED BY <2>2, <2>3
<1>5. Cardinality(S) <= n
  BY <1>3, <1>4, FS_Surjection
<1>6. Cardinality(S) \in Nat
  BY FS_CardinalityType
<1> QED BY <1>1, <1>5, <1>6

(* The sorted parameters are parameters of the model.                      *)
LEMMA SortedTyped ==
    ASSUME NEW m, IsModel(m)
    PROVE  Sorted(m) \in Seq(Nat) /\ \A k \in DOMAIN Sorted(m) : Sorted(m)[k] \in DOMAIN m.objects
<1> DEFINE S == Range(m.shown)
           n == Cardinality(S)
<1>1. m.shown \in Seq(Nat) /\ S \subseteq DOMAIN m.objects /\ S \subseteq Nat
  BY DEF IsModel, ModelRecord, Range
<1>2. IsFiniteSet(S) /\ n \in Nat
  <2>1. PICK l \in Nat : l = Len(m.shown) /\ DOMAIN m.shown = 1..l
    BY <1>1
  <2>2. m.shown \in Surjection(1..l, S)
    BY <1>1, <2>1 DEF Surjection, Range
  <2>3. IsFiniteSet(1..l)
    BY <2>1, FS_Interval
  <2>4. IsFiniteSet(S)
    BY <2>2, <2>3, FS_Surjection
  <2> QED BY <2>4, FS_CardinalityType
<1>3. PICK f : Sorts(f, <<>>, m, n) /\ Sorted(m) = f[n]
  <2>1. Sorted(m) = (CHOOSE f : Sorts(f, <<>>, m, n))[n]
    BY DEF Sorted, Sorts, NextFirst, LeastOf, RankOf
  <2> QED BY <1>2, <2>1, SortsExists
<1> HIDE DEF S, n
<1> DEFINE Kept(t, k) == t \in Seq(S) /\ Len(t) = k
           Good == {k \in 0..n : Kept(f[k], k)}
<1>4. 0 \in Good
  <2>1. f[0] = <<>>
    BY <1>2, <1>3 DEF Sorts
  <2>2. <<>> \in Seq(S) /\ Len(<<>>) = 0
    OBVIOUS
  <2>3. Kept(f[0], 0)
    BY <2>1, <2>2
  <2> HIDE DEF Kept
  <2> QED BY <1>2, <2>3
<1>5. ASSUME NEW k \in 1..n, k - 1 \in Good PROVE k \in Good
  <2> DEFINE t == f[k - 1]
             left == S \ Range(t)
             i == LeastOf(m, left)
  <2>1. f[k] = Append(t, i)
    <3>1. k \in 0..n /\ k # 0
      BY <1>2
    <3> QED BY <1>3, <3>1 DEF Sorts, NextFirst, S
  <2>2. Kept(t, k - 1)
    BY <1>5
  <2> HIDE DEF t
  <2>3. left # {}
    <3>1. Len(t) < Cardinality(S)
      BY <1>2, <2>2 DEF n
    <3> QED BY <1>2, <2>2, <3>1, FewerThanAll
  <2>4. i \in left
    BY <1>1, <2>3, LeastOfIn
  <2>5. i \in S
    BY <2>4
  <2> HIDE DEF i
  <2>6. Append(t, i) \in Seq(S) /\ Len(Append(t, i)) = k
    BY <1>2, <2>2, <2>5, AppendProperties
  <2> QED BY <1>2, <2>1, <2>6
<1>6. n \in Good
  <2> HIDE DEF Good
  <2>1. \A k \in 1..n : k - 1 \in Good => k \in Good
    BY <1>5
  <2>2. \A k \in 0..n : k \in Good
    BY <1>2, <1>4, <2>1, Upwards
  <2> QED BY <1>2, <2>2
<1>7. Sorted(m) \in Seq(S)
  BY <1>3, <1>6
<1> QED BY <1>1, <1>7

(* The loop of set_all_param_values, n times                               *)
NextPassed(t, given, m, k) ==
    Pass(given, Pass(given, t, Sorted(m), {}), t.m.shown, Range(Sorted(m)))
Fixes(f, s, given, m, n) ==
    f = [k \in 0..n |-> IF k = 0 THEN s ELSE NextPassed(f[k - 1], given, m, k)]

(* There is a function that does so up to any number.                      *)
LEMMA FixesExists ==
    ASSUME NEW s, NEW given, NEW m, NEW n \in Nat
    PROVE  \E f : Fixes(f, s, given, m, n)
<1> DEFINE Bad == {k \in Nat : ~ \E f : Fixes(f, s, given, m, k)}
<1> SUFFICES ASSUME Bad # {} PROVE FALSE
  OBVIOUS
<1>1. PICK l \in Bad : \A k \in Bad : l <= k
  BY LeastNumber
<1>2. CASE l = 0
  <2> DEFINE f == [k \in 0..0 |-> s]
  <2>1. Fixes(f, s, given, m, 0)
    BY DEF Fixes
  <2> QED BY <1>1, <1>2, <2>1
<1>3. CASE l # 0
  <2>1. l - 1 \in Nat /\ l - 1 \notin Bad
    BY <1>1, <1>3
  <2>2. PICK f : Fixes(f, s, given, m, l - 1)
    BY <2>1
  <2> DEFINE g == [k \in 0..l |-> IF k < l THEN f[k] ELSE NextPassed(f[l - 1], given, m, l)]
  <2>3. \A k \in 0..l - 1 : f[k] = IF k = 0 THEN s ELSE NextPassed(f[k - 1], given, m, k)
    BY <2>1, <2>2 DEF Fixes
  <2>4. ASSUME NEW k \in 0..l
        PROVE  g[k] = IF k = 0 THEN s ELSE NextPassed(g[k - 1], given, m, k)
    <3>1. CASE k < l
      <4>1. k \in 0..l - 1 /\ (k # 0 => k - 1 \in 0..l /\ k - 1 < l)
        BY <1>1, <3>1
      <4> QED BY <2>3, <3>1, <4>1
    <3>2. CASE k = l
      <4>1. k # 0 /\ k - 1 \in 0..l /\ k - 1 < l
        BY <1>1, <1>3, <3>2
      <4> QED BY <3>2, <4>1
    <3> QED BY <1>1, <3>1, <3>2
  <2>5. Fixes(g, s, given, m, l)
    <3>1. g = [k \in 0..l |-> g[k]]
      OBVIOUS
    <3> HIDE DEF g
    <3> QED BY <2>4, <3>1 DEF Fixes
  <2> QED BY <1>1, <2>5
<1> QED BY <1>2, <1>3


(* set_all_param_values keeps a model sound, whatever the values.          *)
LEMMA SetAllKeeps ==
    ASSUME NEW m, Sound(m), NEW given
    PROVE  Sound(SetAll(m, given))
<1> DEFINE n == Cardinality(Names)
           start == [m |-> m, done |-> {}]
<1>1. n \in Nat
  BY DefsAssumption, FS_CardinalityType
<1>2. PICK f : Fixes(f, start, given, m, n) /\ SetAll(m, given) = f[n].m
  <2>1. SetAll(m, given) = (CHOOSE f : Fixes(f, start, given, m, n))[n].m
    BY DEF SetAll, Fixes, NextPassed
  <2> HIDE DEF start, n
  <2> QED BY <1>1, <2>1, FixesExists
<1> HIDE DEF n
<1>3. IsModel(m) /\ Sorted(m) \in Seq(Nat) /\ \A k \in DOMAIN Sorted(m) : Sorted(m)[k] \in DOMAIN m.objects
  BY SortedTyped DEF Sound
<1> DEFINE Kept(t) == Sound(t.m) /\ DOMAIN m.objects \subseteq DOMAIN t.m.objects
           Good == {k \in 0..n : Kept(f[k])}
<1>4. 0 \in Good
  <2>1. f[0] = start
    BY <1>1, <1>2 DEF Fixes
  <2> QED BY <1>1, <2>1
<1> HIDE DEF start
<1>5. ASSUME NEW k \in 1..n, k - 1 \in Good PROVE k \in Good
  <2> DEFINE t == f[k - 1]
             u == Pass(given, t, Sorted(m), {})
             w == Pass(given, u, t.m.shown, Range(Sorted(m)))
  <2>1. f[k] = w
    <3>1. k \in 0..n /\ k # 0
      BY <1>1
    <3> QED BY <1>2, <3>1 DEF Fixes, NextPassed
  <2>2. Kept(t)
    BY <1>5
  <2> HIDE DEF t
  <2>3. Sound(u.m) /\ DOMAIN t.m.objects \subseteq DOMAIN u.m.objects
    <3>1. \A j \in DOMAIN Sorted(m) : Sorted(m)[j] \in DOMAIN t.m.objects
      BY <1>3, <2>2
    <3> QED BY <1>3, <2>2, <3>1, PassKeeps
  <2> HIDE DEF u
  <2>4. /\ t.m.shown \in Seq(Nat)
        /\ \A j \in DOMAIN t.m.shown : t.m.shown[j] \in DOMAIN u.m.objects
    BY <2>2, <2>3 DEF Sound, IsModel, ModelRecord
  <2>5. Sound(w.m) /\ DOMAIN u.m.objects \subseteq DOMAIN w.m.objects
    BY <2>3, <2>4, PassKeeps
  <2> HIDE DEF w
  <2>6. Kept(w)
    BY <2>2, <2>3, <2>5
  <2> QED BY <1>1, <2>1, <2>6
<1>6. n \in Good
  <2> HIDE DEF Good
  <2>1. \A k \in 1..n : k - 1 \in Good => k \in Good
    BY <1>5
  <2>2. \A k \in 0..n : k \in Good
    BY <1>1, <1>4, <2>1, Upwards
  <2> QED BY <1>1, <2>2
<1> QED BY <1>2, <1>6

(* A sound model has the parameters that are expected.                     *)
LEMMA SoundPresent ==
    ASSUME NEW m, Sound(m)
    PROVE  Present(m) = Expected(m)
<1>1. Present(m) = {NameAt(m, k) : k \in DOMAIN m.shown}
  BY DEF Present, Range, NameAt
<1>2. ParametersOf(m.included) = ParametersOf(m.values[IncludeKey])
  BY DEF Sound, File, ParametersOf, Empty
<1>3. Expected(m) = Originals \cup NamesIn(ParametersOf(m.values[IncludeKey]))
  BY DEF Expected, NamesIn, Range
<1> QED BY <1>1, <1>2, <1>3 DEF Sound, Lists, Shows

-----------------------------------------------------------------------------
(* The socket: every model that it may come to hold when no change is      *)
(* under way is sound. A change that was begun on a model that has since   *)
(* been replaced does not touch the new one.                               *)

SoundOrNone(m) == m = NoModel \/ Sound(m)

PageInv ==
    /\ worker = Idle \/ /\ worker.kind = "set" /\ worker.gen <= socket.gen
                        /\ worker.gen = socket.gen => SoundOrNone(worker.result)
                        /\ worker = [kind |-> "set", gen |-> worker.gen, ok |-> worker.ok,
                                     frames |-> worker.frames, result |-> worker.result]
                        /\ worker.gen \in Nat
    /\ socket = [model |-> socket.model, gen |-> socket.gen, version |-> socket.version,
                  live |-> socket.live]
    /\ socket.gen \in Nat
    /\ worker = Idle \/ worker.gen # socket.gen => SoundOrNone(socket.model)
    /\ loaded # Nothing /\ ~Answering => SoundOrNone(loaded.model)

(* Every step of the page and of the socket keeps this.                    *)
LEMMA PageSteps ==
    ASSUME KeyStartsEmpty, PageInv, [Next]_vars
    PROVE  PageInv'
<1> USE DEF PageInv, Answering
<1>1. CASE Receive \/ Pick \/ Reload \/ OnMessage
  BY <1>1 DEF Receive, Pick, Reload, OnMessage, Flush
<1>2. CASE Lose
  BY <1>2 DEF Lose, NewSocket, SoundOrNone, Idle, Nothing, NoModel
<1>3. CASE Open
  BY <1>3 DEF Open
<1>4. CASE StartSet
  <2>1. PICK change : worker' = [kind |-> "set", gen |-> socket.gen, ok |-> change.ok,
                                 frames |-> change.frames, result |-> change.result]
                      /\ SoundOrNone(change.result)
    <3>1. CASE socket.model = NoModel
      BY <1>4, <3>1 DEF StartSet, SoundOrNone
    <3>2. CASE socket.model # NoModel
      <4>1. Sound(socket.model)
        BY <1>4, <3>2 DEF StartSet, SoundOrNone
      <4>2. \A name, v : Sound(SetValue(socket.model, name, v).result)
        BY <4>1, SetValueKeeps
      <4> QED BY <1>4, <3>2, <4>2 DEF StartSet, SoundOrNone
    <3> QED BY <3>1, <3>2
  <2>2. /\ socket' = [socket EXCEPT !.version = Head(tasks).version] /\ worker = Idle
        /\ UNCHANGED loaded
    BY <1>4 DEF StartSet
  <2> QED BY <2>1, <2>2 DEF Idle
<1>5. CASE ApplyFrame
  BY <1>5 DEF ApplyFrame, Idle
<1>6. CASE FinishSet
  BY <1>6 DEF FinishSet, Idle
<1>7. CASE Load
  BY <1>7, NewModelIsSound, SetAllKeeps DEF Load, SoundOrNone, Idle
<1>8. CASE Install
  BY <1>8 DEF Install, Idle, Nothing
<1>9. CASE SendModel
  BY <1>9 DEF SendModel
<1>10. CASE UNCHANGED vars
  BY <1>10 DEF vars
<1> QED BY <1>1, <1>2, <1>3, <1>4, <1>5, <1>6, <1>7, <1>8, <1>9, <1>10 DEF Next, Server

(* The invariant of the page holds for any parameters, files and values,   *)
(* and however picks, reloads, lost connections and the steps of the       *)
(* worker and of the event loop are ordered.                               *)
THEOREM PageInvariant ==
    ASSUME KeyStartsEmpty
    PROVE  Spec => []PageInv
<1>1. Init => PageInv
  BY DEF Init, PageInv, NewSocket, SoundOrNone, Answering, Nothing, Idle, NoModel
<1>2. PageInv /\ [Next]_vars => PageInv'
  BY PageSteps
<1> QED BY <1>1, <1>2, PTL DEF Spec

(* Whenever the worker is idle, the model of the socket has the parameters *)
(* of the script and of the file that the value of IncludeKey chooses, and *)
(* no others: what _reload_parameters removes and adds while values are    *)
(* set one by one, or all at once in the order of set_all_param_values,    *)
(* leaves nothing behind and skips nothing.                                *)
THEOREM IncludedIsPresent ==
    ASSUME KeyStartsEmpty
    PROVE  Spec => []IncludedPresent
<1>1. PageInv => IncludedPresent
  BY SoundPresent DEF PageInv, IncludedPresent, SoundOrNone
<1>2. Spec => []PageInv
  BY PageInvariant
<1> QED BY <1>1, <1>2, PTL

=============================================================================
