------------------------ MODULE ScriptConfigSocket ------------------------
(***************************************************************************)
(* The open page of a script: the browser's copy of the parameters         *)
(* (web-src main-app/store/scriptConfig.js and scriptSetup.js), the server *)
(* model it follows (ScriptConfigModel) and the websocket between them     *)
(* (web/script_config_socket.py).                                          *)
(*                                                                         *)
(* On the server, handlers run on the event loop and the model is loaded   *)
(* and changed by a worker thread, one task at a time; the rest of the     *)
(* handler that asked for a load runs on the loop when the load is done.   *)
(* The worker applies one frame of a change per step, so the loop          *)
(* interleaves with the observers of a change.                             *)
(***************************************************************************)
EXTENDS ScriptConfigModel

CONSTANTS
    ReloadValues,   \* the values the page may be reloaded with
    Histories,      \* the values the browser may remember, Unset where it has none
    MaxPicks, MaxReloads, MaxLosses,
    MaxOfAll        \* of the three kinds together

VARIABLES
    client,     \* the state of the stores
    connected,
    inbox,      \* messages to the server
    outbox,     \* events to the browser
    tasks,      \* the worker's queue
    worker,     \* its task: the frames still to apply
    loaded,     \* a loaded model whose handler waits for the event loop
    socket,     \* config_model, which model it is, _latest_client_state_version
    picks, reloads, losses,
    overlap,    \* a change went on while the answer with a model was on its way out,
                \* or in the parameters of another: see ApplyFrame
    lost        \* the parameters whose last value has been refused or ignored

vars == <<client, connected, inbox, outbox, tasks, worker, loaded, socket,
          picks, reloads, losses, overlap, lost>>
bounds == <<picks, reloads, losses>>
MoreActs == picks + reloads + losses < MaxOfAll

NoVersion == 0
NoModel == [shown |-> <<>>]
Idle == [kind |-> "idle"]
Nothing == [event |-> "none"]
NewSocket == [model |-> NoModel, gen |-> 0, version |-> NoVersion, live |-> {}]

-----------------------------------------------------------------------------
(* The browser. *)

Shown(p) == [def |-> p.def, allowed |-> p.allowed, awaited |-> NoVersion]
Name(entry) == Defs[entry.def].name

(* sendParameterValue: a value is sent when it is not the last one sent,   *)
(* and the parameters that depend on it wait for the answer.  Without a    *)
(* connection it is not sent, then or later: it goes astray.               *)
Send(c, n, v) ==
    LET version == c.version + 1
        Await(e) == IF n \in Defs[e.def].needs THEN [e EXCEPT !.awaited = version] ELSE e
        moved == [c EXCEPT !.version = version, !.chosen[n] = v, !.astray = @ \ {n}]
    IN  IF ~connected THEN [c EXCEPT !.chosen[n] = v, !.astray = @ \cup {n}]
        ELSE IF c.sent[n] = v THEN moved
        ELSE [moved EXCEPT !.sent[n] = v,
                           !.shown = [k \in DOMAIN @ |-> Await(@[k])],
                           !.out = Append(@, [type |-> "parameterValue", name |-> n,
                                              value |-> v, version |-> version])]

(* setParameterValue: the parameters that copy from it follow. *)
Choose(c, n, v) ==
    LET Copy(d, e) == LET def == Defs[e.def]
                      IN  IF def.copies # n \/ def.name = n \/ d.chosen[def.name] = def.derived[v]
                          THEN d ELSE Send(d, def.name, def.derived[v])
    IN  FoldLeft(Copy, Send(c, n, v), c.shown)

(* _fixValueByAllowedValues: values no longer allowed become empty. *)
Fixed(c) ==
    LET Fix(d, e) == IF Empty(d.chosen[Name(e)]) \/ d.chosen[Name(e)] \in e.allowed
                     THEN d ELSE Choose(d, Name(e), None)
    IN  FoldLeft(Fix, c, c.shown)

Memorize(c, n, v) == IF v = None THEN c ELSE [c EXCEPT !.defaults[n] = v]

(* initFromParameters of a page that has no values yet: the remembered     *)
(* ones or the defaults.                                                   *)
Filled(c) ==
    LET Fill(d, e) == LET n == Name(e)
                          v == IF c.history[n] = Unset THEN Defs[e.def].default ELSE c.history[n]
                      IN  Memorize(Send(d, n, v), n, v)
    IN  Fixed(FoldLeft(Fill, c, c.shown))

(* initFromParameters after a change of the parameters: an empty value     *)
(* and one that was the default become the default.                        *)
Settle(c) ==
    LET Default(d, e) == LET n == Name(e)
                             default == Defs[e.def].default
                             old == default # None /\ d.defaults[n] = d.chosen[n]
                         IN  Memorize(IF Empty(d.chosen[n]) \/ old THEN Choose(d, n, default) ELSE d,
                                      n, default)
    IN  Fixed(FoldLeft(Default, c, c.shown))

Reset(c, event) ==
    LET Concerned(e) == event.type # "parameterChanged" \/ Name(e) = Name(event.param)
        Clear(e) == IF Concerned(e) /\ e.awaited <= event.version
                    THEN [e EXCEPT !.awaited = NoVersion] ELSE e
    IN  IF event.version = NoVersion THEN c
        ELSE [c EXCEPT !.shown = [k \in DOMAIN @ |-> Clear(@[k])]]

(* UPDATE_SCRIPT_CONFIG keeps the places of the parameters it had. *)
Update(c, params) ==
    LET new == [k \in DOMAIN params |-> Shown(params[k])]
        kept == SelectSeq(c.shown, LAMBDA e : \E p \in Range(new) : Name(p) = Name(e))
        Same(e) == CHOOSE p \in Range(new) : Name(p) = Name(e)
    IN  [c EXCEPT !.shown = [k \in DOMAIN kept |-> Same(kept[k])] \o
            SelectSeq(new, LAMBDA p : \A e \in Range(kept) : Name(e) # Name(p))]

Resend(c) ==
    LET message(n) == [type |-> "parameterValue", name |-> n, value |-> c.sent[n],
                       version |-> NoVersion]
        names == SetToSeq({n \in Names : c.sent[n] # Unset})
    IN  [c EXCEPT !.out = @ \o [k \in DOMAIN names |-> message(names[k])]]

Apply(c, event) ==
    LET at == SelectInSeq(c.shown, LAMBDA e :
                 Name(e) = IF event.type = "parameterRemoved" THEN event.name
                           ELSE Name(event.param))
    IN  CASE event.type = "initialConfig" ->
               LET d == Resend([Update(c, event.params) EXCEPT !.ready = TRUE])
               IN  IF c.ready THEN Settle(d) ELSE Filled(d)
          [] event.type = "reloadedConfig" ->
               LET d == [Update(c, event.params) EXCEPT !.reloading = Nothing]
               IN  IF c.reloading = Nothing THEN Settle(d)
                   ELSE Fixed([d EXCEPT !.chosen = c.reloading.values,
                                 !.astray = {n \in Names : d.sent[n] # c.reloading.values[n]}])
          [] event.type = "parameterChanged" ->
               IF at = 0 THEN c
               ELSE Settle([c EXCEPT !.shown[at] =
                        [Shown(event.param) EXCEPT !.awaited = c.shown[at].awaited]])
          [] event.type = "parameterAdded" ->
               Settle([c EXCEPT !.shown = Append(@, Shown(event.param))])
          [] event.type = "parameterRemoved" ->
               IF at = 0 THEN c ELSE Settle([c EXCEPT !.shown = RemoveAt(@, at)])
          [] OTHER -> c

Flush(c) ==
    /\ client' = [c EXCEPT !.out = <<>>]
    /\ inbox' = inbox \o c.out

Receive ==
    /\ connected /\ outbox # <<>>
    /\ outbox' = Tail(outbox)
    /\ Flush(Apply(Reset(client, Head(outbox)), Head(outbox)))
    /\ UNCHANGED <<connected, tasks, worker, loaded, socket, bounds, overlap, lost>>

(* The user picks an option of a parameter on the page, connected or not. *)
Pick ==
    /\ client.ready /\ picks < MaxPicks /\ MoreActs
    /\ \E e \in Range(client.shown) : \E v \in e.allowed \cup {None} :
        /\ v # client.chosen[Name(e)]
        /\ Flush(Fixed(Choose(client, Name(e), v)))
    /\ picks' = picks + 1
    /\ UNCHANGED <<connected, outbox, tasks, worker, loaded, socket, reloads,
                   losses, overlap, lost>>

(* The user opens a link with values.  The answer is known by its          *)
(* clientModelId, here by being the only one (MaxReloads is 1).            *)
Reload ==
    /\ connected /\ client.ready /\ reloads < MaxReloads /\ MoreActs
    /\ \E values \in ReloadValues :
        /\ values # client.chosen
        /\ Flush([client EXCEPT !.chosen = values, !.sent = values, !.astray = {},
                     !.reloading = [event |-> "reload", values |-> values],
                     !.out = <<[type |-> "reloadModelValues", values |-> values]>>])
    /\ reloads' = reloads + 1
    /\ UNCHANGED <<connected, outbox, tasks, worker, loaded, socket, picks,
                   losses, overlap, lost>>

(* The connection breaks; the server's handler object goes with it. *)
Lose ==
    /\ connected /\ client.ready /\ losses < MaxLosses /\ MoreActs
    /\ connected' = FALSE /\ losses' = losses + 1
    /\ inbox' = <<>> /\ outbox' = <<>> /\ tasks' = <<>>
    /\ worker' = Idle /\ loaded' = Nothing /\ socket' = NewSocket
    /\ UNCHANGED <<client, picks, reloads, overlap, lost>>

-----------------------------------------------------------------------------
(* The server. *)

LoadTask(values, event) == [kind |-> "load", values |-> values, event |-> event]

(* reconnect and open: the page that has values sends them, a fresh one    *)
(* gets the model with the defaults.                                       *)
Open ==
    /\ ~connected
    /\ connected' = TRUE
    /\ IF client.ready /\ \E n \in Names : client.sent[n] # Unset
       THEN /\ inbox' = <<[type |-> "initialValues", values |-> client.sent]>>
            /\ tasks' = <<>>
       ELSE /\ inbox' = <<>>
            /\ tasks' = <<LoadTask(Nothing, "initialConfig")>>
    /\ UNCHANGED <<client, outbox, worker, loaded, socket, bounds, overlap, lost>>

Answering == loaded.event = "installed"

OnMessage ==
    /\ inbox # <<>> /\ ~Answering
    /\ inbox' = Tail(inbox)
    /\ LET message == Head(inbox)
           task == CASE message.type = "parameterValue" ->
                          <<[kind |-> "set", name |-> message.name,
                             value |-> message.value, version |-> message.version]>>
                     [] message.type = "reloadModelValues" ->
                          <<LoadTask(message.values, "reloadedConfig")>>
                     [] message.type = "initialValues" /\ socket.model = NoModel ->
                          <<LoadTask(message.values, "initialConfig")>>
                     [] OTHER -> <<>>
       IN  tasks' = tasks \o task
    /\ UNCHANGED <<client, connected, outbox, worker, loaded, socket, bounds, overlap, lost>>

(* A model has been loaded that is going to take the place of this one. *)
Replaced == loaded # Nothing /\ ~Answering

(* _set_parameter_value: the version, then the model of the moment. *)
(* The version is counted on the server as well. *)
StartSetAhead ==
    /\ worker = Idle /\ tasks # <<>> /\ Head(tasks).kind = "set"
    /\ LET task == Head(tasks)
           none == socket.model = NoModel
           change == IF none THEN [ok |-> FALSE, frames |-> <<>>, result |-> NoModel]
                     ELSE SetValue(socket.model, task.name, task.value)
       IN  /\ tasks' = Tail(tasks)
           /\ socket' = [socket EXCEPT !.version = task.version + 1]
           /\ worker' = [kind |-> "set", gen |-> socket.gen, ok |-> change.ok,
                         frames |-> change.frames, result |-> change.result]
           /\ lost' = IF change.ok /\ Find(socket.model, task.name) # 0 /\ ~Replaced
                      THEN lost \ {task.name} ELSE lost \cup {task.name}
    /\ UNCHANGED <<client, connected, inbox, outbox, loaded, bounds, overlap>>

StartSet ==
    /\ worker = Idle /\ tasks # <<>> /\ Head(tasks).kind = "set"
    /\ LET task == Head(tasks)
           none == socket.model = NoModel
           change == IF none THEN [ok |-> FALSE, frames |-> <<>>, result |-> NoModel]
                     ELSE SetValue(socket.model, task.name, task.value)
       IN  /\ tasks' = Tail(tasks)
           /\ socket' = [socket EXCEPT !.version = task.version]
           /\ worker' = [kind |-> "set", gen |-> socket.gen, ok |-> change.ok,
                         frames |-> change.frames, result |-> change.result]
           /\ lost' = IF change.ok /\ Find(socket.model, task.name) # 0 /\ ~Replaced
                      THEN lost \ {task.name} ELSE lost \cup {task.name}
    /\ UNCHANGED <<client, connected, inbox, outbox, loaded, bounds, overlap>>

(* Who hears an event of a model: the list's listener is moved to the      *)
(* model installed last, the parameters' listeners stay for good.          *)
Heard(gen, event) ==
    CASE event.kind = "none" -> FALSE
      [] event.kind = "changed" -> gen # socket.gen \/ event.object \in socket.live
      [] OTHER -> gen = socket.gen

Message(event) ==
    CASE event.kind = "changed" -> [type |-> "parameterChanged", param |-> event.param]
      [] event.kind = "added" -> [type |-> "parameterAdded", param |-> event.param]
      [] event.kind = "removed" -> [type |-> "parameterRemoved", name |-> event.name]

(* A parameter that has been removed goes on observing the values, and its *)
(* listener goes on sending: the page takes it for the one of its name.    *)
Ghost(m, event) ==
    /\ event.kind = "changed" /\ event.object \notin Range(m.shown)
    /\ Find(m, DefOf(m, event.object).name) # 0

Post(message) ==
    outbox' = Append(outbox, [version |-> socket'.version] @@ message)

(* No lock keeps a change apart from the event loop: it may go on in a     *)
(* model that has been replaced, and its events may overtake the answer    *)
(* with the model that is in place.                                        *)
ApplyFrame ==
    /\ worker.kind = "set" /\ worker.frames # <<>>
    /\ LET frame == Head(worker.frames)
           current == worker.gen = socket.gen
       IN  /\ socket' = [socket EXCEPT
                  !.model = IF current THEN frame.model ELSE @,
                  !.live = IF current /\ frame.event.kind = "added"
                           THEN @ \cup {frame.event.object} ELSE @]
           /\ IF Heard(worker.gen, frame.event) THEN Post(Message(frame.event))
              ELSE UNCHANGED outbox
           /\ overlap' = (overlap \/ ~current \/ Answering \/ Ghost(frame.model, frame.event))
    /\ worker' = [worker EXCEPT !.frames = Tail(@)]
    /\ UNCHANGED <<client, connected, inbox, tasks, loaded, bounds, lost>>

(* The browser hears only of the changes, not that its value is accepted. *)
FinishSetSilently ==
    /\ worker.kind = "set" /\ worker.frames = <<>>
    /\ worker' = Idle
    /\ socket' = [socket EXCEPT !.model = IF worker.gen = socket.gen THEN worker.result ELSE @]
    /\ UNCHANGED <<client, connected, inbox, outbox, tasks, loaded, bounds, overlap, lost>>

FinishSet ==
    /\ worker.kind = "set" /\ worker.frames = <<>>
    /\ worker' = Idle
    /\ socket' = [socket EXCEPT !.model = IF worker.gen = socket.gen THEN worker.result ELSE @]
    /\ IF worker.ok THEN Post([type |-> "clientStateVersionAccepted"])
       ELSE UNCHANGED outbox
    /\ UNCHANGED <<client, connected, inbox, tasks, loaded, bounds, overlap, lost>>

Load ==
    /\ worker = Idle /\ tasks # <<>> /\ Head(tasks).kind = "load" /\ loaded = Nothing
    /\ tasks' = Tail(tasks)
    /\ loaded' = [event |-> Head(tasks).event,
                  model |-> IF Head(tasks).values = Nothing THEN NewModel
                            ELSE SetAll(NewModel, Head(tasks).values)]
    /\ UNCHANGED <<client, connected, inbox, outbox, worker, socket, bounds, overlap, lost>>

(* The rest of _prepare_and_send_model on the event loop: _set_model, then *)
(* the whole model to the browser.                                         *)
(* The parameters of a new model are not subscribed to. *)
InstallDeaf ==
    /\ loaded # Nothing /\ ~Answering
    /\ socket' = [model |-> loaded.model, gen |-> socket.gen + 1,
                  version |-> socket.version, live |-> {}]
    /\ loaded' = [event |-> "installed", answer |-> loaded.event]
    /\ UNCHANGED <<client, connected, inbox, outbox, tasks, worker, bounds, overlap, lost>>

Install ==
    /\ loaded # Nothing /\ ~Answering
    /\ socket' = [model |-> loaded.model, gen |-> socket.gen + 1,
                  version |-> socket.version, live |-> Range(loaded.model.shown)]
    /\ loaded' = [event |-> "installed", answer |-> loaded.event]
    /\ UNCHANGED <<client, connected, inbox, outbox, tasks, worker, bounds, overlap, lost>>

SendModel ==
    /\ Answering
    /\ loaded' = Nothing
    /\ UNCHANGED socket
    /\ Post([type |-> loaded.answer, params |-> Config(socket.model)])
    /\ UNCHANGED <<client, connected, inbox, tasks, worker, bounds, overlap, lost>>

-----------------------------------------------------------------------------
Init ==
    /\ \E history \in Histories :
        client = [shown |-> <<>>, chosen |-> [n \in Names |-> None],
                  sent |-> [n \in Names |-> Unset], astray |-> {}, history |-> history,
                  defaults |-> [n \in Names |-> None], version |-> NoVersion,
                  ready |-> FALSE, reloading |-> Nothing, out |-> <<>>]
    /\ connected = FALSE
    /\ inbox = <<>> /\ outbox = <<>> /\ tasks = <<>>
    /\ worker = Idle /\ loaded = Nothing /\ socket = NewSocket
    /\ picks = 0 /\ reloads = 0 /\ losses = 0
    /\ overlap = FALSE /\ lost = {}

Server == OnMessage \/ StartSet \/ ApplyFrame \/ FinishSet \/ Load \/ Install \/ SendModel
Next == Receive \/ Pick \/ Reload \/ Lose \/ Open \/ Server

(* What is in flight arrives, and what is queued is taken: the parts of    *)
(* Receive, StartSet and Load that say so (the steps themselves compute    *)
(* too much for ENABLED).                                                  *)
Delivered == connected /\ outbox # <<>> /\ outbox' = Tail(outbox)
Taken ==
    /\ worker = Idle /\ tasks # <<>>
    /\ Head(tasks).kind = "load" => loaded = Nothing
    /\ tasks' = Tail(tasks)

Fairness ==
    /\ WF_outbox(Delivered) /\ WF_tasks(Taken) /\ WF_vars(Open) /\ WF_vars(OnMessage)
    /\ WF_vars(ApplyFrame \/ FinishSet) /\ WF_vars(Install \/ SendModel)

Spec == Init /\ [][Next]_vars /\ Fairness

-----------------------------------------------------------------------------
Quiet ==
    /\ connected /\ client.ready
    /\ inbox = <<>> /\ outbox = <<>> /\ tasks = <<>>
    /\ worker = Idle /\ loaded = Nothing

(* The stores and the socket hold what the code can put there. *)
TypeOK ==
    /\ client.chosen \in [Names -> Values \cup {None}]
    /\ client.sent \in [Names -> Values \cup {None, Unset}]
    /\ \A e \in Range(client.shown) : e.def \in DefIds /\ e.allowed \subseteq Values
    /\ socket.version \in 0..client.version
    /\ socket.model # NoModel =>
        /\ socket.model.values \in [Names -> Values \cup {None, Unset}]
        /\ socket.live \subseteq DOMAIN socket.model.objects
        /\ Range(socket.model.shown) \subseteq DOMAIN socket.model.objects
    /\ lost \subseteq Names /\ overlap \in BOOLEAN

(* When nothing is in flight the page shows the parameters of the server's *)
(* model, each once, with the options they have there.  Not so after a     *)
(* change that raced with a load (overlap): the page may then show the     *)
(* options of the model that was replaced, or a parameter twice.           *)
PageShowsModel ==
    Quiet /\ ~overlap =>
        /\ Len(client.shown) = Len(Config(socket.model))
        /\ {[def |-> e.def, allowed |-> e.allowed] : e \in Range(client.shown)} =
               Range(Config(socket.model))

(* And the model has the values the page shows, but for the values that    *)
(* came for a parameter that was gone, no longer allowed them or was part  *)
(* of a model about to be replaced (lost), and those chosen while there    *)
(* was no connection or overwritten by the answer to a reload (astray).    *)
ValuesArrive ==
    Quiet =>
        \A e \in Range(client.shown) :
            LET n == Name(e)
            IN  /\ n \notin lost => socket.model.values[n] = client.sent[n]
                /\ n \notin client.astray => client.chosen[n] = client.sent[n]

(* The parameters of the file that the value of IncludeKey chooses are     *)
(* there, and no others (test_dynamic_include_add_parameter and others in  *)
(* tests/script_config_test.py).                                           *)
IncludedPresent ==
    worker = Idle /\ socket.model # NoModel => Present(socket.model) = Expected(socket.model)

Awaited(n) == \E e \in Range(client.shown) : Name(e) = n /\ e.awaited # NoVersion

(* A parameter that waits for the server's answer gets it. *)
AwaitEnds == \A n \in Names : Awaited(n) ~> ~Awaited(n)

(* The page and the server's model agree when nothing is in flight: on the *)
(* parameters and their options, and on the values.                        *)
PageAgrees == TypeOK /\ PageShowsModel /\ ValuesArrive
=============================================================================
