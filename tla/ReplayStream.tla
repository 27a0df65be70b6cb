----------------------------- MODULE ReplayStream -----------------------------
(***************************************************************************)
(* One ReplayObservable (src/react/observable.py) and the threads around   *)
(* it: producers push into it, subscribers join it late and are replayed   *)
(* what they missed, the owner closes it, a cleanup may dispose of it.     *)
(*                                                                         *)
(* Only _close takes a lock, and only for the closed flag. Everything else *)
(* is a loop over a live Python list: `for x in list` takes the next index *)
(* and ends for good when there is none, so the unit of interleaving is    *)
(* one turn of a loop, one append, one `del list[:]`.                      *)
(*                                                                         *)
(* The observables of an execution are instances of it: the output stream  *)
(* of the process (producers: its reader thread, which owns it, and the    *)
(* IOLoop thread that echoes a stop or a kill; disposed of by a cleanup),  *)
(* and the raw and the protected replay pipe (one producer, the flush      *)
(* thread, which owns them).                                               *)
(***************************************************************************)
EXTENDS Naturals, Sequences, FiniteSets, SequencesExt

CONSTANTS
    Producers,     \* threads that push
    Owner,         \* the producer that calls close when it has nothing to push
    Disposers,     \* threads that call dispose
    Subscribers,   \* threads that subscribe, each one observer
    Readers,       \* those that do it in read_until_closed
    MaxPushes,     \* bound: pushes of a producer
    End            \* in the log of an observer: a call of on_close

ASSUME StreamAssumption ==
    /\ Owner \in Producers
    /\ Producers \cap Disposers = {}
    /\ (Producers \cup Disposers) \cap Subscribers = {}
    /\ Readers \subseteq Subscribers
    /\ MaxPushes \in Nat
    /\ End \notin Producers \X Nat

Closers == {Owner} \cup Disposers
Thread == Producers \cup Disposers \cup Subscribers

Pc == {"idle", "push", "close", "clear", "replay", "check", "append", "wait", "asleep", "done"}

VARIABLES
    chunks,     \* ReplayObservable.chunks: <<producer, its how-manieth push>>
    observers,  \* ObservableBase.observers
    closed,     \* ObservableBase.closed
    pushes,     \* how many pushes each producer has begun
    pc, pos,    \* where each thread is, and the next index of its loop
    log,        \* what the observer of each subscriber was called with
    owed        \* not in the code: the pushes begun before a subscriber joined

vars == <<chunks, observers, closed, pushes, pc, pos, log, owed>>

Init ==
    /\ chunks = <<>> /\ observers = <<>> /\ closed = FALSE
    /\ pushes = [p \in Producers |-> 0]
    /\ pc = [t \in Thread |-> "idle"] /\ pos = [t \in Thread |-> 1]
    /\ log = [s \in Subscribers |-> <<>>]
    /\ owed = [s \in Subscribers |-> [p \in Producers |-> MaxPushes]]

Goto(t, l) == pc' = [pc EXCEPT ![t] = l]
StartLoop(t, l) == Goto(t, l) /\ pos' = [pos EXCEPT ![t] = 1]
AtTurn(t, l, list) == pc[t] = l /\ pos[t] <= Len(list)
AtExit(t, l, list) == pc[t] = l /\ pos[t] > Len(list)
Turn(t) == pos' = [pos EXCEPT ![t] = @ + 1]
Call(s, event) == log' = [log EXCEPT ![s] = Append(@, event)]

-----------------------------------------------------------------------------
(* push: the chunk is stored, then the observers are called one by one. *)

(* Mutant: the chunk is stored without its place. *)
PushBare(p) ==
    /\ pc[p] = "idle"
    /\ pushes[p] < MaxPushes
    /\ pushes' = [pushes EXCEPT ![p] = @ + 1]
    /\ chunks' = Append(chunks, p)
    /\ StartLoop(p, "push")
    /\ UNCHANGED <<observers, closed, log, owed>>

Push(p) ==
    /\ pc[p] = "idle"
    /\ pushes[p] < MaxPushes
    /\ pushes' = [pushes EXCEPT ![p] = @ + 1]
    /\ chunks' = Append(chunks, <<p, pushes'[p]>>)
    /\ StartLoop(p, "push")
    /\ UNCHANGED <<observers, closed, log, owed>>

FireNext(p) ==
    /\ AtTurn(p, "push", observers)
    /\ Call(observers[pos[p]], <<p, pushes[p]>>)
    /\ Turn(p)
    /\ UNCHANGED <<chunks, observers, closed, pushes, pc, owed>>

(* Mutant: an exception in an observer ends the loop. *)
PushAborts(p) ==
    /\ pc[p] = "push"
    /\ pos[p] > 1 \/ observers = <<>>
    /\ Goto(p, "idle")
    /\ UNCHANGED <<chunks, observers, closed, pushes, pos, log, owed>>

PushEnd(p) ==
    /\ AtExit(p, "push", observers)
    /\ Goto(p, "idle")
    /\ UNCHANGED <<chunks, observers, closed, pushes, pos, log, owed>>

-----------------------------------------------------------------------------
(* close of the owner, dispose of a disposer. *)

(* Mutant: closing does not notify the condition. *)
WokenNobody(t) == [pc EXCEPT ![t] = "close"]

Woken(t) ==
    [u \in Thread |-> IF u = t THEN "close" ELSE IF pc[u] = "asleep" THEN "wait" ELSE pc[u]]

(* Mutant: closing again is not refused. *)
CloseAgain(t) ==
    /\ t \in Closers
    /\ pc[t] = "idle"
    /\ closed' = TRUE
    /\ pc' = Woken(t)
    /\ pos' = [pos EXCEPT ![t] = 1]
    /\ UNCHANGED <<chunks, observers, pushes, log, owed>>

Close(t) ==
    /\ t \in Closers
    /\ pc[t] = "idle"
    /\ IF closed
       THEN /\ Goto(t, IF t \in Disposers THEN "clear" ELSE "done")
            /\ UNCHANGED <<closed, pos>>
       ELSE /\ closed' = TRUE
            /\ pc' = Woken(t)
            /\ pos' = [pos EXCEPT ![t] = 1]
    /\ UNCHANGED <<chunks, observers, pushes, log, owed>>

CloseNext(t) ==
    /\ AtTurn(t, "close", observers)
    /\ Call(observers[pos[t]], End)
    /\ Turn(t)
    /\ UNCHANGED <<chunks, observers, closed, pushes, pc, owed>>

(* del self.observers[:] *)
CloseEnd(t) ==
    /\ AtExit(t, "close", observers)
    /\ observers' = <<>>
    /\ Goto(t, IF t \in Disposers THEN "clear" ELSE "done")
    /\ UNCHANGED <<chunks, closed, pushes, pos, log, owed>>

(* dispose: del self.chunks[:] *)
Clear(t) ==
    /\ pc[t] = "clear"
    /\ chunks' = <<>>
    /\ Goto(t, "done")
    /\ UNCHANGED <<observers, closed, pushes, pos, log, owed>>

-----------------------------------------------------------------------------
(* subscribe, and wait_close in read_until_closed. *)

(* Mutant: the observer joins before the replay as well. *)
SubscribeFirst(s) ==
    /\ s \in Subscribers
    /\ pc[s] = "idle"
    /\ observers' = Append(observers, s)
    /\ StartLoop(s, "replay")
    /\ UNCHANGED <<chunks, closed, pushes, log, owed>>

Subscribe(s) ==
    /\ s \in Subscribers
    /\ pc[s] = "idle"
    /\ StartLoop(s, "replay")
    /\ UNCHANGED <<chunks, observers, closed, pushes, log, owed>>

ReplayNext(s) ==
    /\ AtTurn(s, "replay", chunks)
    /\ Call(s, chunks[pos[s]])
    /\ Turn(s)
    /\ UNCHANGED <<chunks, observers, closed, pushes, pc, owed>>

(* Mutant: the replay stops one chunk short. *)
ReplayShort(s) ==
    /\ pc[s] = "replay"
    /\ pos[s] >= Len(chunks)
    /\ Goto(s, "check")
    /\ UNCHANGED <<chunks, observers, closed, pushes, pos, log, owed>>

ReplayEnd(s) ==
    /\ AtExit(s, "replay", chunks)
    /\ Goto(s, "check")
    /\ UNCHANGED <<chunks, observers, closed, pushes, pos, log, owed>>

AfterSubscribe(s) == IF s \in Readers THEN "wait" ELSE "done"

(* Mutant: the observer joins a closed stream all the same. *)
CheckThenAppend(s) ==
    /\ pc[s] = "check"
    /\ IF closed THEN Call(s, End) ELSE UNCHANGED log
    /\ Goto(s, "append")
    /\ UNCHANGED <<chunks, observers, closed, pushes, pos, owed>>

CheckClosed(s) ==
    /\ pc[s] = "check"
    /\ IF closed
       THEN Call(s, End) /\ Goto(s, AfterSubscribe(s))
       ELSE UNCHANGED log /\ Goto(s, "append")
    /\ UNCHANGED <<chunks, observers, closed, pushes, pos, owed>>

AppendObserver(s) ==
    /\ pc[s] = "append"
    /\ observers' = Append(observers, s)
    /\ owed' = [owed EXCEPT ![s] = pushes]
    /\ Goto(s, AfterSubscribe(s))
    /\ UNCHANGED <<chunks, closed, pushes, pos, log>>

(* The test of the flag and the wait are under the condition's lock. *)
WaitClose(s) ==
    /\ pc[s] = "wait"
    /\ Goto(s, IF closed THEN "done" ELSE "asleep")
    /\ UNCHANGED <<chunks, observers, closed, pushes, pos, log, owed>>

-----------------------------------------------------------------------------
ProducerStep(p) == FireNext(p) \/ PushEnd(p)
CloserStep(t) == CloseNext(t) \/ CloseEnd(t) \/ Clear(t)
SubscriberStep(s) ==
    ReplayNext(s) \/ ReplayEnd(s) \/ CheckClosed(s) \/ AppendObserver(s) \/ WaitClose(s)

Next ==
    \/ \E p \in Producers : Push(p) \/ ProducerStep(p)
    \/ \E t \in Closers : Close(t) \/ CloserStep(t)
    \/ \E s \in Subscribers : Subscribe(s) \/ SubscriberStep(s)

Spec == Init /\ [][Next]_vars

(* Whoever has begun a call goes on with it; nobody has to begin one. *)
Fairness ==
    /\ \A p \in Producers : WF_vars(ProducerStep(p))
    /\ \A t \in Closers : WF_vars(CloserStep(t))
    /\ \A s \in Subscribers : WF_vars(SubscriberStep(s))

FairSpec == Spec /\ Fairness
-----------------------------------------------------------------------------
(* Properties. *)

Chunk == Producers \X Nat

(* Every variable stays in its type: the one type invariant. *)
TypeOK ==
    /\ chunks \in Seq(Chunk)
    /\ observers \in Seq(Subscribers)
    /\ closed \in BOOLEAN
    /\ pushes \in [Producers -> Nat]
    /\ pc \in [Thread -> Pc]
    /\ pos \in [Thread -> Nat \ {0}]
    /\ log \in [Subscribers -> Seq(Chunk \cup {End})]
    /\ owed \in [Subscribers -> [Producers -> Nat]]

(* An observer is told of the end at most once, although an owner and      *)
(* disposers may close at the same time as it subscribes: a second call    *)
(* makes a _StoringObserver raise "Already closed".                        *)
ClosedOnce ==
    \A s \in Subscribers : \A i, j \in 1..Len(log[s]) :
        log[s][i] = End /\ log[s][j] = End => i = j

(* An observer has been called with x. *)
Got(s, x) == Contains(log[s], x)

(* Where the pushes of p stand in what s was called with, and where their  *)
(* numbers do not grow by one.                                             *)
Of(s, p) == {i \in 1..Len(log[s]) : log[s][i] # End /\ log[s][i][1] = p}

Before(s, i, x) == \E k \in 1..i - 1 : log[s][k] = x

Seams(s, p) ==
    {i \in Of(s, p) :
        \/ Before(s, i, log[s][i])
        \/ log[s][i][2] > 1 /\ ~Before(s, i, <<p, log[s][i][2] - 1>>)}

(* The seam between replayed and live chunks is the only place where an    *)
(* observer may miss or repeat something: it gets each producer's pushes   *)
(* in order, and from one to the next the number grows by one, but once.   *)
OneSeam ==
    \A s \in Subscribers, p \in Producers :
        /\ \A i, j \in Of(s, p) : i < j => log[s][i][2] <= log[s][j][2]
        /\ \A i, j \in Seams(s, p) : i = j

(* Nobody but the owner has pushed, and nobody disposes of the stream.     *)
OwnerAlone ==
    /\ \A p \in Producers \ {Owner} : pushes[p] = 0
    /\ \A d \in Disposers : pc[d] = "idle"

(* Once an observer has joined, it gets every later push of the owner.     *)
JoinedMissNothing ==
    OwnerAlone =>
        \A s \in Subscribers : pc[Owner] # "push" =>
            \A n \in owed[s][Owner] + 1..pushes[Owner] : Got(s, <<Owner, n>>)

(* No observer is called after its on_close: a flush after the end, or a   *)
(* line behind the exit code in the log.                                   *)
NothingAfterEnd ==
    OwnerAlone =>
        \A s \in Subscribers : \A i \in 1..Len(log[s]) : log[s][i] = End => i = Len(log[s])

(* Who begins to subscribe to a closed stream is given all of it.          *)
LateSubscriberExact ==
    \A s \in Subscribers :
        (closed /\ pc[s] = "replay" /\ log[s] = <<>>) ~>
            (log[s] = Append(chunks, End) \/ ~OwnerAlone)

(* read_until_closed comes back once the stream is closed: no wakeup is    *)
(* lost, whenever in its course the stream was closed.                     *)
ReadersReturn == \A s \in Readers : (closed /\ pc[s] # "idle") ~> (pc[s] = "done")

(* What an observer is called with is the output: the stream stays in its  *)
(* types, an observer misses or repeats something at its seam only, gets   *)
(* every push after its joining, and nothing after the end.                *)
OutputInOrder == TypeOK /\ OneSeam /\ JoinedMissNothing /\ NothingAfterEnd
=============================================================================
