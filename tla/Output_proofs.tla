---------------------------- MODULE Output_proofs ----------------------------
(***************************************************************************)
(* Proofs about the output of an execution: about ReplayStream, for any    *)
(* number of threads and of pushes (first that nobody is told of the end   *)
(* twice, then what the observers are called with), and about PtyReader,   *)
(* for whatever a script writes.                                           *)
(***************************************************************************)
EXTENDS ReplayStream, PtyReader, SequenceTheorems, WellFoundedInduction, TLAPS

-----------------------------------------------------------------------------
(* The inductive invariant, in named parts. *)

Ended(s) == \E i \in 1..Len(log[s]) : log[s][i] = End

(* Who has not joined yet has not been told of the end, and nobody calls   *)
(* it.                                                                     *)
OutsideUntold ==
    \A s \in Subscribers : pc[s] \in {"idle", "replay", "check", "append"} =>
        /\ ~Ended(s)
        /\ \A i \in 1..Len(observers) : observers[i] # s

(* Nobody joins twice. *)
JoinedOnce ==
    \A i, j \in 1..Len(observers) : observers[i] = observers[j] => i = j

(* One thread at most runs the loop of on_close calls: the one that has    *)
(* set the flag.                                                           *)
OneCloser ==
    /\ \A t \in Thread : pc[t] = "close" => closed /\ t \in Closers
    /\ \A t, u \in Thread : pc[t] = "close" /\ pc[u] = "close" => t = u

(* The observers that know of the end are those the loop has passed. *)
ToldInOrder ==
    \A i \in 1..Len(observers) : Ended(observers[i]) =>
        \E t \in Closers : pc[t] = "close" /\ i < pos[t]

CloseInv == TypeOK /\ OutsideUntold /\ JoinedOnce /\ OneCloser /\ ToldInOrder /\ ClosedOnce

USE StreamAssumption DEF Closers, Thread, Pc, Chunk
-----------------------------------------------------------------------------
(* Calling an observer. *)

LEMMA CallTyped ==
    ASSUME TypeOK, NEW s \in Subscribers, NEW x \in Chunk \cup {End}, Call(s, x)
    PROVE  /\ log' \in [Subscribers -> Seq(Chunk \cup {End})]
           /\ log'[s] = Append(log[s], x)
           /\ Len(log'[s]) = Len(log[s]) + 1 /\ Len(log[s]) \in Nat
           /\ \A i \in 1..Len(log[s]) : log'[s][i] = log[s][i]
           /\ log'[s][Len(log[s]) + 1] = x
           /\ \A u \in Subscribers : u # s => log'[u] = log[u]
<1>1. log[s] \in Seq(Chunk \cup {End})
  BY DEF TypeOK
<1>2. log'[s] = Append(log[s], x)
  BY DEF Call, TypeOK
<1>3. Append(log[s], x) \in Seq(Chunk \cup {End})
  BY <1>1, AppendProperties
<1>4. log' \in [Subscribers -> Seq(Chunk \cup {End})]
  BY <1>3 DEF Call, TypeOK
<1>5. \A u \in Subscribers : u # s => log'[u] = log[u]
  BY DEF Call, TypeOK
<1> QED BY <1>1, <1>2, <1>4, <1>5, AppendProperties, LenProperties

LEMMA ChunkIsNotEnd == \A x \in Chunk : x # End
BY DEF Chunk

(* A call of on_next tells nobody of the end. *)
LEMMA CallChunk ==
    ASSUME TypeOK, NEW s \in Subscribers, NEW x \in Chunk, Call(s, x), ClosedOnce
    PROVE  (\A u \in Subscribers : Ended(u)' <=> Ended(u)) /\ ClosedOnce'
<1>1. /\ Len(log'[s]) = Len(log[s]) + 1 /\ Len(log[s]) \in Nat
      /\ \A i \in 1..Len(log[s]) : log'[s][i] = log[s][i]
      /\ log'[s][Len(log[s]) + 1] = x
      /\ \A u \in Subscribers : u # s => log'[u] = log[u]
  BY CallTyped
<1>2. x # End
  BY ChunkIsNotEnd
<1>0. \A i \in 1..Len(log'[s]) : log'[s][i] = End => i \in 1..Len(log[s]) /\ log[s][i] = End
  <2> SUFFICES ASSUME NEW i \in 1..Len(log'[s]), log'[s][i] = End
               PROVE  i \in 1..Len(log[s]) /\ log[s][i] = End
    OBVIOUS
  <2>1. i # Len(log[s]) + 1
    BY <1>1, <1>2
  <2>2. i \in 1..Len(log[s])
    BY <1>1, <2>1
  <2> QED BY <1>1, <2>2
<1>3. Ended(s)' <=> Ended(s)
  <2>1. Ended(s)' => Ended(s)
    BY <1>0 DEF Ended
  <2>2. \A i \in 1..Len(log[s]) : i \in 1..Len(log'[s])
    BY <1>1
  <2>3. Ended(s) => Ended(s)'
    BY <1>1, <2>2 DEF Ended
  <2> QED BY <2>1, <2>3
<1>4. \A i, j \in 1..Len(log'[s]) : log'[s][i] = End /\ log'[s][j] = End => i = j
  BY <1>0 DEF ClosedOnce
<1>5. ClosedOnce'
  BY <1>1, <1>4 DEF ClosedOnce
<1> QED BY <1>1, <1>3, <1>5 DEF Ended

(* A call of on_close tells one observer, which did not know. *)
LEMMA CallEnd ==
    ASSUME TypeOK, NEW s \in Subscribers, ~Ended(s), Call(s, End), ClosedOnce
    PROVE  (\A u \in Subscribers : u # s => (Ended(u)' <=> Ended(u))) /\ ClosedOnce'
<1>1. /\ Len(log'[s]) = Len(log[s]) + 1 /\ Len(log[s]) \in Nat
      /\ \A i \in 1..Len(log[s]) : log'[s][i] = log[s][i]
      /\ \A u \in Subscribers : u # s => log'[u] = log[u]
  BY CallTyped
<1>2. \A i \in 1..Len(log[s]) : log'[s][i] # End
  BY <1>1 DEF Ended
<1>3. \A i, j \in 1..Len(log'[s]) : log'[s][i] = End /\ log'[s][j] = End => i = j
  BY <1>1, <1>2
<1> QED BY <1>1, <1>3 DEF Ended, ClosedOnce

-----------------------------------------------------------------------------
LEMMA TurnTyped ==
    ASSUME TypeOK, NEW t \in Thread, Turn(t)
    PROVE  pos' \in [Thread -> Nat \ {0}]
BY DEF TypeOK, Turn

(* Every action keeps the types. *)
LEMMA TypeNext ==
    ASSUME TypeOK, [Next]_vars
    PROVE  TypeOK'
<1> USE DEF Goto, StartLoop, AtTurn, AtExit
<1>1. ASSUME NEW p \in Producers, Push(p) PROVE TypeOK'
  <2>1. pushes' \in [Producers -> Nat]
    BY <1>1 DEF Push, TypeOK
  <2>2. <<p, pushes'[p]>> \in Chunk
    BY <2>1
  <2>3. chunks' \in Seq(Chunk)
    BY <1>1, <2>2, AppendProperties DEF Push, TypeOK
  <2> QED BY <1>1, <2>1, <2>3 DEF Push, TypeOK
<1>2. ASSUME NEW p \in Producers, ProducerStep(p) PROVE TypeOK'
  <2>1. CASE FireNext(p)
    <3>1. observers[pos[p]] \in Subscribers
      BY <2>1 DEF FireNext, TypeOK
    <3>2. <<p, pushes[p]>> \in Chunk
      BY DEF TypeOK
    <3>3. log' \in [Subscribers -> Seq(Chunk \cup {End})]
      BY <2>1, <3>1, <3>2, CallTyped DEF FireNext
    <3>4. pos' \in [Thread -> Nat \ {0}]
      BY <2>1, TurnTyped DEF FireNext
    <3> QED BY <2>1, <3>3, <3>4 DEF FireNext, TypeOK
  <2>2. CASE PushEnd(p)
    BY <2>2 DEF PushEnd, TypeOK
  <2> QED BY <1>2, <2>1, <2>2 DEF ProducerStep
<1>3. ASSUME NEW t \in Closers, Close(t) PROVE TypeOK'
  <2>1. pc \in [Thread -> Pc] /\ pos \in [Thread -> Nat \ {0}] /\ closed \in BOOLEAN
    BY DEF TypeOK
  <2>2. CASE closed
    <3>1. pc' \in [Thread -> Pc] /\ closed' = closed /\ pos' = pos
      BY <1>3, <2>1, <2>2 DEF Close
    <3> QED BY <1>3, <3>1 DEF Close, TypeOK
  <2>3. CASE ~closed
    <3>1. pc' = Woken(t) /\ closed' = TRUE /\ pos' = [pos EXCEPT ![t] = 1]
      BY <1>3, <2>3 DEF Close
    <3>2. pc' \in [Thread -> Pc]
      BY <2>1, <3>1 DEF Woken
    <3>3. pos' \in [Thread -> Nat \ {0}]
      BY <2>1, <3>1
    <3> QED BY <1>3, <3>1, <3>2, <3>3 DEF Close, TypeOK
  <2> QED BY <2>1, <2>2, <2>3
<1>4. ASSUME NEW t \in Closers, CloserStep(t) PROVE TypeOK'
  <2>1. CASE CloseNext(t)
    <3>1. observers[pos[t]] \in Subscribers
      BY <2>1 DEF CloseNext, TypeOK
    <3>2. log' \in [Subscribers -> Seq(Chunk \cup {End})]
      BY <2>1, <3>1, CallTyped DEF CloseNext
    <3>3. pos' \in [Thread -> Nat \ {0}]
      BY <2>1, TurnTyped DEF CloseNext
    <3> QED BY <2>1, <3>2, <3>3 DEF CloseNext, TypeOK
  <2>2. CASE CloseEnd(t)
    BY <2>2 DEF CloseEnd, TypeOK
  <2>3. CASE Clear(t)
    BY <2>3 DEF Clear, TypeOK
  <2> QED BY <1>4, <2>1, <2>2, <2>3 DEF CloserStep
<1>5. ASSUME NEW s \in Subscribers, Subscribe(s) PROVE TypeOK'
  BY <1>5 DEF Subscribe, TypeOK
<1>6. ASSUME NEW s \in Subscribers, SubscriberStep(s) PROVE TypeOK'
  <2>1. CASE ReplayNext(s)
    <3>1. chunks[pos[s]] \in Chunk
      BY <2>1 DEF ReplayNext, TypeOK
    <3>2. log' \in [Subscribers -> Seq(Chunk \cup {End})]
      BY <2>1, <3>1, CallTyped DEF ReplayNext
    <3>3. pos' \in [Thread -> Nat \ {0}]
      BY <2>1, TurnTyped DEF ReplayNext
    <3> QED BY <2>1, <3>2, <3>3 DEF ReplayNext, TypeOK
  <2>2. CASE ReplayEnd(s)
    BY <2>2 DEF ReplayEnd, TypeOK
  <2>3. CASE CheckClosed(s)
    <3>1. log' \in [Subscribers -> Seq(Chunk \cup {End})]
      BY <2>3, CallTyped DEF CheckClosed, TypeOK
    <3> QED BY <2>3, <3>1 DEF CheckClosed, AfterSubscribe, TypeOK
  <2>4. CASE AppendObserver(s)
    <3>1. observers' \in Seq(Subscribers)
      BY <2>4, AppendProperties DEF AppendObserver, TypeOK
    <3> QED BY <2>4, <3>1 DEF AppendObserver, AfterSubscribe, TypeOK
  <2>5. CASE WaitClose(s)
    BY <2>5 DEF WaitClose, TypeOK
  <2> QED BY <1>6, <2>1, <2>2, <2>3, <2>4, <2>5 DEF SubscriberStep
<1>7. CASE UNCHANGED vars
  BY <1>7 DEF vars, TypeOK
<1> QED BY <1>1, <1>2, <1>3, <1>4, <1>5, <1>6, <1>7 DEF Next

-----------------------------------------------------------------------------
(* Each action keeps the rest of the invariant. *)

LEMMA CloseNextKeeps ==
    ASSUME CloseInv, NEW t \in Closers, CloseNext(t), TypeOK'
    PROVE  CloseInv'
<1> DEFINE s == observers[pos[t]]
<1> USE DEF AtTurn, Turn
<1>1. s \in Subscribers /\ pos[t] \in 1..Len(observers) /\ Len(observers) \in Nat
  BY LenProperties DEF CloseInv, TypeOK, CloseNext
<1>2. pc[t] = "close" /\ pc' = pc /\ observers' = observers /\ closed' = closed
  BY DEF CloseNext
<1>3. \A u \in Closers : pc[u] = "close" => u = t
  BY <1>2 DEF CloseInv, OneCloser
<1>4. ~Ended(s)
  <2>1. pos[t] \in Nat
    BY <1>1
  <2> QED BY <1>1, <1>3, <2>1 DEF CloseInv, ToldInOrder
<1>5. (\A u \in Subscribers : u # s => (Ended(u)' <=> Ended(u))) /\ ClosedOnce'
  BY <1>1, <1>4, CallEnd DEF CloseInv, CloseNext
<1>6. OutsideUntold'
  <2> SUFFICES ASSUME NEW u \in Subscribers,
                      pc[u] \in {"idle", "replay", "check", "append"}
               PROVE  ~Ended(u)' /\ \A i \in 1..Len(observers) : observers[i] # u
    BY <1>2 DEF OutsideUntold
  <2>1. ~Ended(u) /\ \A i \in 1..Len(observers) : observers[i] # u
    BY DEF CloseInv, OutsideUntold
  <2> QED BY <1>1, <1>5, <2>1
<1>7. JoinedOnce' /\ OneCloser'
  BY <1>2 DEF CloseInv, JoinedOnce, OneCloser
<1>8. ToldInOrder'
  <2> SUFFICES ASSUME NEW i \in 1..Len(observers), Ended(observers[i])'
               PROVE  pc[t] = "close" /\ i < pos'[t]
    BY <1>2 DEF ToldInOrder
  <2>1. pos'[t] = pos[t] + 1 /\ pos[t] \in Nat
    BY <1>1 DEF CloseNext, CloseInv, TypeOK
  <2>2. observers[i] \in Subscribers
    BY DEF CloseInv, TypeOK
  <2>3. CASE i = pos[t]
    BY <1>2, <2>1, <2>3
  <2>4. CASE i # pos[t]
    <3>1. observers[i] # s
      BY <1>1, <2>4 DEF CloseInv, JoinedOnce
    <3>2. Ended(observers[i])
      BY <1>2, <1>5, <2>2, <3>1
    <3>3. i < pos[t]
      BY <1>3, <3>2 DEF CloseInv, ToldInOrder
    <3> QED BY <1>2, <2>1, <3>3
  <2> QED BY <2>3, <2>4
<1> QED BY <1>5, <1>6, <1>7, <1>8 DEF CloseInv

(* A step that calls nobody, adds nobody, starts no loop of on_close calls. *)
LEMMA QuietStep ==
    ASSUME CloseInv, TypeOK', NEW t \in Thread,
           UNCHANGED <<observers, closed>>,
           \A u \in Subscribers : Ended(u)' <=> Ended(u),
           ClosedOnce',
           \A u \in Thread : u # t => pc'[u] = pc[u] /\ pos'[u] = pos[u],
           pc[t] # "close" /\ pc'[t] # "close",
           pc'[t] \in {"idle", "replay", "check", "append"} =>
               pc[t] \in {"idle", "replay", "check", "append"} \/ t \notin Subscribers
    PROVE  CloseInv'
<1>1. observers' = observers /\ closed' = closed
  OBVIOUS
<1>2. \A i \in 1..Len(observers) : observers[i] \in Subscribers
  BY DEF CloseInv, TypeOK
<1>3. OutsideUntold'
  BY <1>1 DEF CloseInv, OutsideUntold
<1>4. JoinedOnce' /\ OneCloser'
  BY <1>1 DEF CloseInv, JoinedOnce, OneCloser
<1>5. ToldInOrder'
  <2> SUFFICES ASSUME NEW i \in 1..Len(observers), Ended(observers[i])'
               PROVE  \E u \in Closers : pc'[u] = "close" /\ i < pos'[u]
    BY <1>1 DEF ToldInOrder
  <2>1. Ended(observers[i])
    BY <1>2
  <2>2. PICK u \in Closers : pc[u] = "close" /\ i < pos[u]
    BY <2>1 DEF CloseInv, ToldInOrder
  <2> QED BY <2>2
<1> QED BY <1>3, <1>4, <1>5 DEF CloseInv

(* The lists of observers that nobody has changed. *)
LEMMA SameLog ==
    ASSUME log' = log, ClosedOnce
    PROVE  (\A u \in Subscribers : Ended(u)' <=> Ended(u)) /\ ClosedOnce'
BY DEF Ended, ClosedOnce

LEMMA CloseKeeps ==
    ASSUME CloseInv, NEW t \in Closers, Close(t), TypeOK'
    PROVE  CloseInv'
<1>1. observers' = observers /\ log' = log
  BY DEF Close
<1>2. (\A u \in Subscribers : Ended(u)' <=> Ended(u)) /\ ClosedOnce'
  BY <1>1, SameLog DEF CloseInv
<1>3. CASE closed
  <2>1. /\ pc[t] = "idle" /\ t \in Thread /\ t \notin Subscribers
        /\ pc' = [pc EXCEPT ![t] = IF t \in Disposers THEN "clear" ELSE "done"]
        /\ closed' = closed /\ pos' = pos
    BY <1>3 DEF Close, Goto
  <2>2. pc'[t] \in {"clear", "done"} /\ \A u \in Thread : u # t => pc'[u] = pc[u]
    BY <2>1 DEF CloseInv, TypeOK
  <2> QED BY <1>1, <1>2, <2>1, <2>2, QuietStep
<1>4. CASE ~closed
  <2>1. pc' = Woken(t) /\ closed' = TRUE
    BY <1>4 DEF Close
  <2>2. t \in Thread /\ t \notin Subscribers /\ pc \in [Thread -> Pc]
    BY DEF CloseInv, TypeOK
  <2>3. \A u \in Thread : pc[u] # "close"
    BY <1>4 DEF CloseInv, OneCloser
  <2>4. \A u \in Thread : pc'[u] = "close" => u = t
    BY <2>1, <2>2, <2>3 DEF Woken
  <2>5. \A u \in Subscribers : pc'[u] \in {"idle", "replay", "check", "append"} => pc'[u] = pc[u]
    BY <2>1, <2>2 DEF Woken
  <2>6. \A i \in 1..Len(observers) : observers[i] \in Subscribers /\ ~Ended(observers[i])
    <3>1. \A u \in Closers : pc[u] # "close"
      BY <2>3
    <3>2. \A i \in 1..Len(observers) : ~Ended(observers[i])
      BY <3>1 DEF CloseInv, ToldInOrder
    <3>3. \A i \in 1..Len(observers) : observers[i] \in Subscribers
      BY DEF CloseInv, TypeOK
    <3> QED BY <3>2, <3>3
  <2>7. OutsideUntold'
    BY <1>1, <1>2, <2>5 DEF CloseInv, OutsideUntold
  <2>8. JoinedOnce' /\ OneCloser' /\ ToldInOrder'
    BY <1>1, <1>2, <2>1, <2>4, <2>6 DEF CloseInv, JoinedOnce, OneCloser, ToldInOrder
  <2> QED BY <1>2, <2>7, <2>8 DEF CloseInv
<1> QED BY <1>3, <1>4

LEMMA CloseEndKeeps ==
    ASSUME CloseInv, NEW t \in Closers, CloseEnd(t), TypeOK'
    PROVE  CloseInv'
<1>1. observers' = <<>> /\ log' = log /\ closed' = closed
  BY DEF CloseEnd
<1>2. (\A u \in Subscribers : Ended(u)' <=> Ended(u)) /\ ClosedOnce'
  BY <1>1, SameLog DEF CloseInv
<1>3. /\ pc' = [pc EXCEPT ![t] = IF t \in Disposers THEN "clear" ELSE "done"]
      /\ pc \in [Thread -> Pc]
  BY DEF CloseEnd, Goto, CloseInv, TypeOK
<1>4. OneCloser'
  BY <1>1, <1>3 DEF CloseInv, OneCloser
<1>5. Len(observers') = 0
  BY <1>1
<1>6. OutsideUntold'
  BY <1>2, <1>3, <1>5 DEF CloseInv, OutsideUntold
<1>7. JoinedOnce' /\ ToldInOrder'
  BY <1>5 DEF JoinedOnce, ToldInOrder
<1> QED BY <1>2, <1>4, <1>6, <1>7 DEF CloseInv

LEMMA AppendKeeps ==
    ASSUME CloseInv, NEW s \in Subscribers, AppendObserver(s), TypeOK'
    PROVE  CloseInv'
<1>1. /\ observers \in Seq(Subscribers) /\ Len(observers) \in Nat
      /\ observers' = Append(observers, s) /\ log' = log /\ closed' = closed /\ pos' = pos
  BY LenProperties DEF AppendObserver, CloseInv, TypeOK
<1>2. /\ Len(observers') = Len(observers) + 1
      /\ observers'[Len(observers) + 1] = s
      /\ \A i \in 1..Len(observers) : observers'[i] = observers[i]
  BY <1>1, AppendProperties
<1>3. (\A u \in Subscribers : Ended(u)' <=> Ended(u)) /\ ClosedOnce'
  BY <1>1, SameLog DEF CloseInv
<1>4. ~Ended(s) /\ \A i \in 1..Len(observers) : observers[i] # s
  BY DEF CloseInv, OutsideUntold, AppendObserver
<1>5. /\ pc' = [pc EXCEPT ![s] = AfterSubscribe(s)]
      /\ pc \in [Thread -> Pc] /\ s \in Thread
  BY DEF AppendObserver, Goto, CloseInv, TypeOK
<1>6. pc'[s] \in {"wait", "done"} /\ \A u \in Thread : u # s => pc'[u] = pc[u]
  BY <1>5 DEF AfterSubscribe
<1>7. \A i \in 1..Len(observers') :
          \/ i \in 1..Len(observers) /\ observers'[i] = observers[i]
          \/ i = Len(observers) + 1 /\ observers'[i] = s
  BY <1>1, <1>2
<1>8. OutsideUntold'
  <2> SUFFICES ASSUME NEW u \in Subscribers,
                      pc'[u] \in {"idle", "replay", "check", "append"}
               PROVE  ~Ended(u)' /\ \A i \in 1..Len(observers') : observers'[i] # u
    BY DEF OutsideUntold
  <2>1. u # s /\ pc[u] = pc'[u]
    BY <1>6
  <2>2. ~Ended(u) /\ \A i \in 1..Len(observers) : observers[i] # u
    BY <2>1 DEF CloseInv, OutsideUntold
  <2> QED BY <1>3, <1>7, <2>1, <2>2
<1>9. JoinedOnce'
  BY <1>4, <1>7 DEF CloseInv, JoinedOnce
<1>10. OneCloser'
  BY <1>1, <1>6 DEF CloseInv, OneCloser
<1>11. ToldInOrder'
  <2> SUFFICES ASSUME NEW i \in 1..Len(observers'), Ended(observers[i])'
               PROVE  \E u \in Closers : pc'[u] = "close" /\ i < pos'[u]
    BY DEF ToldInOrder
  <2>1. i \in 1..Len(observers) /\ observers'[i] = observers[i] /\ Ended(observers[i])
    <3>1. CASE i = Len(observers) + 1
      BY <1>3, <1>4, <1>7, <3>1
    <3>2. CASE i \in 1..Len(observers) /\ observers'[i] = observers[i]
      <4>1. observers[i] \in Subscribers
        BY <1>1, <3>2
      <4> QED BY <1>3, <3>2, <4>1
    <3> QED BY <1>7, <3>1, <3>2
  <2>2. PICK u \in Closers : pc[u] = "close" /\ i < pos[u]
    BY <2>1 DEF CloseInv, ToldInOrder
  <2>3. u # s
    OBVIOUS
  <2> QED BY <1>1, <1>6, <2>2, <2>3
<1> QED BY <1>3, <1>8, <1>9, <1>10, <1>11 DEF CloseInv

(* The subscriber that finds the stream closed is told so, and only then. *)
LEMMA CheckKeeps ==
    ASSUME CloseInv, NEW s \in Subscribers, CheckClosed(s), TypeOK'
    PROVE  CloseInv'
<1>1. /\ pc[s] = "check" /\ pc \in [Thread -> Pc] /\ s \in Thread
      /\ observers' = observers /\ closed' = closed /\ pos' = pos
  BY DEF CheckClosed, CloseInv, TypeOK
<1>2. ~Ended(s) /\ \A i \in 1..Len(observers) : observers[i] # s
  BY <1>1 DEF CloseInv, OutsideUntold
<1>3. CASE closed
  <2>1. Call(s, End) /\ pc' = [pc EXCEPT ![s] = AfterSubscribe(s)]
    BY <1>3 DEF CheckClosed, Goto
  <2>2. (\A u \in Subscribers : u # s => (Ended(u)' <=> Ended(u))) /\ ClosedOnce'
    BY <1>2, <2>1, CallEnd DEF CloseInv
  <2>3. pc'[s] \in {"wait", "done"} /\ \A u \in Thread : u # s => pc'[u] = pc[u]
    BY <1>1, <2>1 DEF AfterSubscribe
  <2>4. OutsideUntold'
    BY <1>1, <2>2, <2>3 DEF CloseInv, OutsideUntold
  <2>5. JoinedOnce' /\ OneCloser'
    BY <1>1, <2>3 DEF CloseInv, JoinedOnce, OneCloser
  <2>6. ToldInOrder'
    <3> SUFFICES ASSUME NEW i \in 1..Len(observers), Ended(observers[i])'
                 PROVE  \E u \in Closers : pc'[u] = "close" /\ i < pos'[u]
      BY <1>1 DEF ToldInOrder
    <3>1. observers[i] \in Subscribers
      BY DEF CloseInv, TypeOK
    <3>2. Ended(observers[i])
      BY <1>1, <1>2, <2>2, <3>1
    <3>3. PICK u \in Closers : pc[u] = "close" /\ i < pos[u]
      BY <3>2 DEF CloseInv, ToldInOrder
    <3> QED BY <1>1, <2>3, <3>3
  <2> QED BY <2>2, <2>4, <2>5, <2>6 DEF CloseInv
<1>4. CASE ~closed
  <2>1. log' = log /\ pc' = [pc EXCEPT ![s] = "append"]
    BY <1>4 DEF CheckClosed, Goto
  <2>2. (\A u \in Subscribers : Ended(u)' <=> Ended(u)) /\ ClosedOnce'
    BY <2>1, SameLog DEF CloseInv
  <2>3. pc'[s] = "append" /\ \A u \in Thread : u # s => pc'[u] = pc[u]
    BY <1>1, <2>1
  <2> QED BY <1>1, <2>2, <2>3, QuietStep
<1> QED BY <1>3, <1>4

LEMMA CloseInvNext ==
    ASSUME CloseInv, [Next]_vars
    PROVE  CloseInv'
<1>0. TypeOK'
  BY TypeNext DEF CloseInv
<1>1. pc \in [Thread -> Pc] /\ pos \in [Thread -> Nat \ {0}]
  BY DEF CloseInv, TypeOK
<1>2. ASSUME NEW p \in Producers, Push(p) PROVE CloseInv'
  <2>1. /\ pc' = [pc EXCEPT ![p] = "push"] /\ pos' = [pos EXCEPT ![p] = 1]
        /\ pc[p] = "idle" /\ log' = log /\ observers' = observers /\ closed' = closed
    BY <1>2 DEF Push, StartLoop, Goto
  <2>2. (\A u \in Subscribers : Ended(u)' <=> Ended(u)) /\ ClosedOnce'
    BY <2>1, SameLog DEF CloseInv
  <2> QED BY <1>0, <1>1, <2>1, <2>2, QuietStep
<1>3. ASSUME NEW p \in Producers, ProducerStep(p) PROVE CloseInv'
  <2>1. CASE FireNext(p)
    <3>1. observers[pos[p]] \in Subscribers /\ <<p, pushes[p]>> \in Chunk
      BY <1>1, <2>1 DEF FireNext, AtTurn, CloseInv, TypeOK
    <3>2. /\ Call(observers[pos[p]], <<p, pushes[p]>>)
          /\ pc' = pc /\ pc[p] = "push" /\ pos' = [pos EXCEPT ![p] = @ + 1]
          /\ observers' = observers /\ closed' = closed
      BY <2>1 DEF FireNext, AtTurn, Turn
    <3>3. (\A u \in Subscribers : Ended(u)' <=> Ended(u)) /\ ClosedOnce'
      BY <3>1, <3>2, CallChunk DEF CloseInv
    <3> QED BY <1>0, <1>1, <3>2, <3>3, QuietStep
  <2>2. CASE PushEnd(p)
    <3>1. /\ pc' = [pc EXCEPT ![p] = "idle"] /\ pc[p] = "push" /\ pos' = pos
          /\ log' = log /\ observers' = observers /\ closed' = closed
          /\ p \notin Subscribers /\ p \in Thread
      BY <2>2 DEF PushEnd, AtExit, Goto
    <3>2. (\A u \in Subscribers : Ended(u)' <=> Ended(u)) /\ ClosedOnce'
      BY <3>1, SameLog DEF CloseInv
    <3>3. pc'[p] = "idle" /\ \A u \in Thread : u # p => pc'[u] = pc[u] /\ pos'[u] = pos[u]
      BY <1>1, <3>1
    <3> QED BY <1>0, <3>1, <3>2, <3>3, QuietStep
  <2> QED BY <1>3, <2>1, <2>2 DEF ProducerStep
<1>4. ASSUME NEW t \in Closers, Close(t) \/ CloserStep(t) PROVE CloseInv'
  <2>1. CASE Close(t)
    BY <1>0, <2>1, CloseKeeps
  <2>2. CASE CloseNext(t)
    BY <1>0, <2>2, CloseNextKeeps
  <2>3. CASE CloseEnd(t)
    BY <1>0, <2>3, CloseEndKeeps
  <2>4. CASE Clear(t)
    <3>1. /\ pc' = [pc EXCEPT ![t] = "done"] /\ pc[t] = "clear" /\ pos' = pos
          /\ log' = log /\ observers' = observers /\ closed' = closed /\ t \in Thread
      BY <2>4 DEF Clear, Goto
    <3>2. (\A u \in Subscribers : Ended(u)' <=> Ended(u)) /\ ClosedOnce'
      BY <3>1, SameLog DEF CloseInv
    <3> QED BY <1>0, <1>1, <3>1, <3>2, QuietStep
  <2> QED BY <1>4, <2>1, <2>2, <2>3, <2>4 DEF CloserStep
<1>5. ASSUME NEW s \in Subscribers, Subscribe(s) \/ SubscriberStep(s) PROVE CloseInv'
  <2>1. CASE Subscribe(s)
    <3>1. /\ pc' = [pc EXCEPT ![s] = "replay"] /\ pos' = [pos EXCEPT ![s] = 1]
          /\ pc[s] = "idle" /\ log' = log /\ observers' = observers /\ closed' = closed
      BY <2>1 DEF Subscribe, StartLoop, Goto
    <3>2. (\A u \in Subscribers : Ended(u)' <=> Ended(u)) /\ ClosedOnce'
      BY <3>1, SameLog DEF CloseInv
    <3> QED BY <1>0, <1>1, <3>1, <3>2, QuietStep
  <2>2. CASE ReplayNext(s)
    <3>1. chunks[pos[s]] \in Chunk
      BY <1>1, <2>2 DEF ReplayNext, AtTurn, CloseInv, TypeOK
    <3>2. /\ Call(s, chunks[pos[s]]) /\ pc' = pc /\ pc[s] = "replay"
          /\ pos' = [pos EXCEPT ![s] = @ + 1]
          /\ observers' = observers /\ closed' = closed
      BY <2>2 DEF ReplayNext, AtTurn, Turn
    <3>3. (\A u \in Subscribers : Ended(u)' <=> Ended(u)) /\ ClosedOnce'
      BY <3>1, <3>2, CallChunk DEF CloseInv
    <3> QED BY <1>0, <1>1, <3>2, <3>3, QuietStep
  <2>3. CASE ReplayEnd(s)
    <3>1. /\ pc' = [pc EXCEPT ![s] = "check"] /\ pc[s] = "replay" /\ pos' = pos
          /\ log' = log /\ observers' = observers /\ closed' = closed
      BY <2>3 DEF ReplayEnd, AtExit, Goto
    <3>2. (\A u \in Subscribers : Ended(u)' <=> Ended(u)) /\ ClosedOnce'
      BY <3>1, SameLog DEF CloseInv
    <3> QED BY <1>0, <1>1, <3>1, <3>2, QuietStep
  <2>4. CASE CheckClosed(s)
    BY <1>0, <2>4, CheckKeeps
  <2>5. CASE AppendObserver(s)
    BY <1>0, <2>5, AppendKeeps
  <2>6. CASE WaitClose(s)
    <3>1. /\ pc' = [pc EXCEPT ![s] = IF closed THEN "done" ELSE "asleep"]
          /\ pc[s] = "wait" /\ pos' = pos
          /\ log' = log /\ observers' = observers /\ closed' = closed
      BY <2>6 DEF WaitClose, Goto
    <3>2. (\A u \in Subscribers : Ended(u)' <=> Ended(u)) /\ ClosedOnce'
      BY <3>1, SameLog DEF CloseInv
    <3>3. pc'[s] \in {"done", "asleep"} /\ \A u \in Thread : u # s => pc'[u] = pc[u]
      BY <1>1, <3>1
    <3> QED BY <1>0, <3>1, <3>2, <3>3, QuietStep
  <2> QED BY <1>5, <2>1, <2>2, <2>3, <2>4, <2>5, <2>6 DEF SubscriberStep
<1>6. CASE UNCHANGED vars
  <2>1. /\ pc' = pc /\ pos' = pos /\ log' = log /\ observers' = observers /\ closed' = closed
    BY <1>6 DEF vars
  <2>2. (\A u \in Subscribers : Ended(u)' <=> Ended(u)) /\ ClosedOnce'
    BY <2>1, SameLog DEF CloseInv
  <2> QED BY <1>0, <2>1, <2>2
     DEF CloseInv, OutsideUntold, JoinedOnce, OneCloser, ToldInOrder, Ended
<1> QED BY <1>2, <1>3, <1>4, <1>5, <1>6 DEF Next

-----------------------------------------------------------------------------
(* The theorems. *)

(* The inductive invariant holds in every reachable state. *)
THEOREM CloseInvariant == Spec => []CloseInv
<1>1. Init => CloseInv
  <2> SUFFICES ASSUME Init PROVE CloseInv
    OBVIOUS
  <2>1. TypeOK
    <3>1. chunks \in Seq(Chunk) /\ observers \in Seq(Subscribers)
      BY DEF Init
    <3>0. closed \in BOOLEAN
      BY DEF Init
    <3>2. pc \in [Thread -> Pc] /\ pos \in [Thread -> Nat \ {0}]
      BY DEF Init
    <3>3. log \in [Subscribers -> Seq(Chunk \cup {End})]
      BY DEF Init
    <3>4. pushes \in [Producers -> Nat] /\ owed \in [Subscribers -> [Producers -> Nat]]
      BY DEF Init
    <3> QED BY <3>0, <3>1, <3>2, <3>3, <3>4 DEF TypeOK
  <2>2. /\ Len(observers) = 0 /\ \A t \in Thread : pc[t] = "idle"
        /\ \A s \in Subscribers : Len(log[s]) = 0
    BY DEF Init
  <2>3. OutsideUntold /\ JoinedOnce /\ OneCloser /\ ToldInOrder /\ ClosedOnce
    BY <2>2 DEF OutsideUntold, JoinedOnce, OneCloser, ToldInOrder, ClosedOnce, Ended
  <2> QED BY <2>1, <2>3 DEF CloseInv
<1> QED BY <1>1, CloseInvNext, PTL DEF Spec

(* Type correctness, for any number of threads and pushes. *)
THEOREM StreamTypeCorrect == Spec => []TypeOK
BY CloseInvariant, PTL DEF CloseInv

(* No observer is told of the end twice, however many threads close the    *)
(* stream, dispose of it and subscribe to it at the same time.             *)
THEOREM ToldOnce == Spec => []ClosedOnce
BY CloseInvariant, PTL DEF CloseInv

-----------------------------------------------------------------------------
(* What observers are called with: the invariant for it, in named parts.   *)

Cleared == \E d \in Disposers : pc[d] = "done"

(* Only a disposer clears the list, and only of a closed stream.           *)
ClearedLast ==
    /\ \A t \in Thread : pc[t] = "clear" => t \in Disposers
    /\ \A d \in Disposers : pc[d] \in {"clear", "done"} => closed

(* The list holds the pushes of each producer in order, from some push on, *)
(* and from the first one on unless it has been cleared.                   *)
ChunksInOrder ==
    /\ \A i \in 1..Len(chunks) : chunks[i][2] \in 1..pushes[chunks[i][1]]
    /\ \A i, j \in 1..Len(chunks) :
          i < j /\ chunks[i][1] = chunks[j][1] => chunks[i][2] < chunks[j][2]
    /\ \A i \in 1..Len(chunks) : \A n \in chunks[i][2]..pushes[chunks[i][1]] :
          \E j \in i..Len(chunks) : chunks[j] = <<chunks[i][1], n>>
    /\ ~Cleared => \A p \in Producers : \A n \in 1..pushes[p] :
          \E j \in 1..Len(chunks) : chunks[j] = <<p, n>>

(* Nobody receives what was not pushed. *)
OnlyPushed ==
    \A s \in Subscribers, p \in Producers : \A n \in Nat :
        Got(s, <<p, n>>) => n \in 1..pushes[p]

NoSeam(s, p) == \A i \in 1..Len(log[s]) : i \notin Seams(s, p)

(* What the replay to s is still to come to. *)
Left(s, x) == \E k \in 1..Len(chunks) : pos[s] <= k /\ chunks[k] = x

NoSeamYet ==
    \A s \in Subscribers :
        (pc[s] = "append" \/ (~Cleared /\ pc[s] \in {"idle", "replay", "check"})) =>
            \A p \in Producers : NoSeam(s, p)

(* A replay is given the list up to its place, while that is whole. *)
ReplayExact ==
    /\ \A s \in Subscribers : pc[s] = "idle" => Len(log[s]) = 0
    /\ \A s \in Subscribers : ~Cleared /\ pc[s] = "replay" =>
          /\ pos[s] <= Len(chunks) + 1
          /\ \A k \in 1..Len(chunks), x \in Chunk :
                chunks[k] = x => (Got(s, x) <=> k < pos[s])

(* What a replay is still to come to is newer than what it has given, and  *)
(* goes on from there unless nothing has been missed yet.                  *)
NoGap(s, p, n) == \/ n = 0
                  \/ Got(s, <<p, n>>)
                  \/ Left(s, <<p, n>>)
                  \/ NoSeam(s, p)

ReplayGoesOn ==
    \A s \in Subscribers, p \in Producers, n \in Nat : pc[s] = "replay" =>
        /\ \A k \in 1..Len(chunks) : pos[s] <= k /\ chunks[k] = <<p, n>> =>
              /\ \A m \in Nat : Got(s, <<p, m>>) => m < n
              /\ NoGap(s, p, n - 1)
        /\ n = pushes[p] => NoGap(s, p, n)
        /\ NoSeam(s, p) \/ pos[s] <= Len(chunks) + 1

(* Observer i is still to be called with what p is pushing. *)
Due(i, p) == pc[p] = "push" /\ pos[p] <= i

Fresh(i, p) == IF Due(i, p) THEN pushes[p] ELSE pushes[p] + 1

(* Who has joined is at the last push of each producer, or has missed and  *)
(* repeated nothing yet.                                                   *)
LiveGoesOn ==
    \A i \in 1..Len(observers), s \in Subscribers, p \in Producers, n \in Nat :
        observers[i] = s /\ n = Fresh(i, p) =>
            NoSeam(s, p) \/ (Got(s, <<p, n - 1>>) /\ ~Got(s, <<p, n>>))

(* The owner's pushes since s joined are in its log, but for one it is     *)
(* about to be called with; and s stays among the observers.               *)
OwnerPushesReach ==
    OwnerAlone => \A s \in Subscribers :
        /\ pushes[Owner] <= MaxPushes
        /\ \/ owed[s][Owner] = MaxPushes
           \/ \E i \in 1..Len(observers) : observers[i] = s
           \/ pc[Owner] \in {"close", "done"}
        /\ \A n \in owed[s][Owner] + 1..pushes[Owner] :
              \/ Got(s, <<Owner, n>>)
              \/ /\ n = pushes[Owner]
                 /\ \E i \in 1..Len(observers) : observers[i] = s /\ Due(i, Owner)

(* The end is called only when the owner pushes no more. *)
EndIsLast ==
    /\ \A s \in Subscribers : Ended(s) => closed
    /\ \A p \in Producers : pc[p] = "push" => pushes[p] > 0
    /\ OwnerAlone /\ closed => pc[Owner] \in {"close", "done"}
    /\ NothingAfterEnd

OrderInv ==
    /\ CloseInv /\ ClearedLast /\ ChunksInOrder /\ OnlyPushed /\ NoSeamYet
    /\ ReplayExact /\ ReplayGoesOn /\ LiveGoesOn /\ OwnerPushesReach /\ EndIsLast
    /\ OneSeam
-----------------------------------------------------------------------------
(* What a call does to what its observer has received. *)

(* A chunk is a producer and a number, and not the end. *)
LEMMA ChunkParts ==
    ASSUME NEW x \in Chunk
    PROVE  x[1] \in Producers /\ x[2] \in Nat /\ x = <<x[1], x[2]>> /\ x # End
<1>1. PICK p \in Producers, n \in Nat : x = <<p, n>>
  BY DEF Chunk
<1> QED BY <1>1, ChunkIsNotEnd

(* Who is called with x has got it, and nobody gets anything else. *)
LEMMA CallGot ==
    ASSUME TypeOK, NEW s \in Subscribers, NEW x \in Chunk \cup {End}, Call(s, x)
    PROVE  \A u \in Subscribers : \A y : Got(u, y)' <=> Got(u, y) \/ (u = s /\ y = x)
<1>1. /\ Len(log'[s]) = Len(log[s]) + 1 /\ Len(log[s]) \in Nat
      /\ \A i \in 1..Len(log[s]) : log'[s][i] = log[s][i]
      /\ log'[s][Len(log[s]) + 1] = x
      /\ \A u \in Subscribers : u # s => log'[u] = log[u]
  BY CallTyped
<1>2. ASSUME NEW y PROVE Got(s, y)' <=> Got(s, y) \/ y = x
  <2>1. \A i : i \in 1..Len(log'[s]) <=> i \in 1..Len(log[s]) \/ i = Len(log[s]) + 1
    BY <1>1
  <2>2. Got(s, y)' <=> \E i \in 1..Len(log'[s]) : log'[s][i] = y
    BY DEF Got, Contains
  <2> QED BY <1>1, <2>1, <2>2 DEF Got, Contains
<1>3. ASSUME NEW u \in Subscribers, NEW y, u # s PROVE Got(u, y)' <=> Got(u, y)
  BY <1>1, <1>3 DEF Got, Contains
<1> QED BY <1>2, <1>3

(* Whose log does not change has got the same, with the same seams. *)
LEMMA SameGot ==
    ASSUME NEW s \in Subscribers, log'[s] = log[s]
    PROVE  /\ \A y : Got(s, y)' <=> Got(s, y)
           /\ \A p \in Producers : Of(s, p)' = Of(s, p) /\ Seams(s, p)' = Seams(s, p)
           /\ \A p \in Producers : NoSeam(s, p)' <=> NoSeam(s, p)
BY DEF Got, Contains, Of, Seams, Before, NoSeam

(* The seams stay where they are, and there may be one more at the end. *)
LEMMA CallSeams ==
    ASSUME TypeOK, NEW s \in Subscribers, NEW x \in Chunk \cup {End}, Call(s, x),
           NEW q \in Producers
    PROVE  /\ \A i \in 1..Len(log[s]) : i \in Of(s, q)' <=> i \in Of(s, q)
           /\ \A i \in 1..Len(log[s]) : i \in Seams(s, q)' <=> i \in Seams(s, q)
           /\ Len(log[s]) + 1 \in Of(s, q)' <=> (x # End /\ x[1] = q)
           /\ Len(log[s]) + 1 \in Seams(s, q)' <=>
                /\ x # End /\ x[1] = q
                /\ Got(s, x) \/ (x[2] > 1 /\ ~Got(s, <<q, x[2] - 1>>))
<1> DEFINE n == Len(log[s])
<1>1. /\ Len(log'[s]) = n + 1 /\ n \in Nat
      /\ \A i \in 1..n : log'[s][i] = log[s][i]
      /\ log'[s][n + 1] = x
  BY CallTyped
<1> HIDE DEF n
<1>2. \A i \in 1..n + 1 : 1..(i - 1) \subseteq 1..n
  BY <1>1
<1>3. 1..(n + 1 - 1) = 1..n /\ n + 1 \in 1..n + 1 /\ 1..n \subseteq 1..n + 1
  BY <1>1
<1>4. \A i \in 1..n : i \in Of(s, q)' <=> i \in Of(s, q)
  BY <1>1, <1>3 DEF Of, n
<1>5. n + 1 \in Of(s, q)' <=> (x # End /\ x[1] = q)
  BY <1>1, <1>3 DEF Of
<1>6. ASSUME NEW i \in 1..n PROVE i \in Seams(s, q)' <=> i \in Seams(s, q)
  <2> DEFINE old(y) == \E k \in 1..i - 1 : log[s][k] = y
  <2> DEFINE new(y) == \E k \in 1..i - 1 : log'[s][k] = y
  <2>1. \A y : new(y) <=> old(y)
    BY <1>1, <1>2, <1>3
  <2>2. i \in Seams(s, q) <=>
          /\ i \in Of(s, q)
          /\ old(log[s][i]) \/ (log[s][i][2] > 1 /\ ~old(<<q, log[s][i][2] - 1>>))
    BY DEF Seams, Before
  <2>3. i \in Seams(s, q)' <=>
          /\ i \in Of(s, q)'
          /\ new(log'[s][i]) \/ (log'[s][i][2] > 1 /\ ~new(<<q, log'[s][i][2] - 1>>))
    BY DEF Seams, Before
  <2> HIDE DEF old, new
  <2> QED BY <1>1, <1>4, <2>1, <2>2, <2>3
<1>7. n + 1 \in Seams(s, q)' <=>
          /\ n + 1 \in Of(s, q)'
          /\ Got(s, x) \/ (x[2] > 1 /\ ~Got(s, <<q, x[2] - 1>>))
  <2>0. PICK m : m = n + 1
    OBVIOUS
  <2> DEFINE new(y) == \E k \in 1..m - 1 : log'[s][k] = y
  <2>1. \A y : new(y) <=> Got(s, y)
    BY <1>1, <1>3, <2>0 DEF Got, Contains, n
  <2>2. m \in Seams(s, q)' <=>
          /\ m \in Of(s, q)'
          /\ new(log'[s][m]) \/ (log'[s][m][2] > 1 /\ ~new(<<q, log'[s][m][2] - 1>>))
    BY DEF Seams, Before
  <2> HIDE DEF new
  <2> QED BY <1>1, <2>0, <2>1, <2>2
<1> QED BY <1>4, <1>5, <1>6, <1>7 DEF n

(* Chunk n of p is the one after those that s has received. *)
Follows(s, p, n) == ~Got(s, <<p, n>>) /\ (n = 1 \/ Got(s, <<p, n - 1>>))

(* A call makes a seam only of the pushes of the producer it is for, and   *)
(* none when it goes on from the one before.                               *)
LEMMA CallNoSeam ==
    ASSUME TypeOK, NEW s \in Subscribers, NEW x \in Chunk \cup {End}, Call(s, x),
           NEW u \in Subscribers, NEW q \in Producers
    PROVE  /\ (u # s \/ x = End \/ x[1] # q) => (NoSeam(u, q)' <=> NoSeam(u, q))
           /\ NoSeam(u, q)' => NoSeam(u, q)
           /\ NoSeam(u, q) /\ u = s /\ x # End /\ Follows(s, q, x[2]) => NoSeam(u, q)'
<1>1. CASE u # s
  <2>1. log'[u] = log[u]
    BY <1>1, CallTyped
  <2> QED BY <1>1, <2>1, SameGot
<1>2. CASE u = s
  <2> DEFINE n == Len(log[s])
  <2>1. Len(log'[s]) = n + 1 /\ n \in Nat
    BY CallTyped
  <2>2. \A i \in 1..n : i \in Seams(s, q)' <=> i \in Seams(s, q)
    BY CallSeams
  <2>3. n + 1 \in Seams(s, q)' <=>
          /\ x # End /\ x[1] = q
          /\ Got(s, x) \/ (x[2] > 1 /\ ~Got(s, <<q, x[2] - 1>>))
    BY CallSeams
  <2> HIDE DEF n
  <2>4. \A i : i \in 1..n + 1 <=> i \in 1..n \/ i = n + 1
    BY <2>1
  <2>5. NoSeam(s, q)' <=> NoSeam(s, q) /\ n + 1 \notin Seams(s, q)'
    <3>1. NoSeam(s, q)' <=> \A i \in 1..n + 1 : i \notin Seams(s, q)'
      BY <2>1 DEF NoSeam
    <3>2. NoSeam(s, q) <=> \A i \in 1..n : i \notin Seams(s, q)
      BY DEF NoSeam, n
    <3> QED BY <2>2, <2>4, <3>1, <3>2
  <2>6. ASSUME x # End, x[1] = q, Follows(s, q, x[2]) PROVE n + 1 \notin Seams(s, q)'
    <3>1. x[2] \in Nat /\ x = <<q, x[2]>>
      BY <2>6, ChunkParts
    <3>2. ~Got(s, x) /\ (x[2] = 1 \/ Got(s, <<q, x[2] - 1>>))
      BY <2>6, <3>1 DEF Follows
    <3> QED BY <2>3, <3>1, <3>2
  <2> QED BY <1>2, <2>3, <2>5, <2>6
<1> QED BY <1>1, <1>2

(* A chunk not older than the others keeps the order, and is at a seam if  *)
(* it does not follow.                                                     *)
LEMMA CallOneSeam ==
    ASSUME TypeOK, OneSeam, NEW s \in Subscribers,
           NEW p \in Producers, NEW m \in Nat, Call(s, <<p, m>>),
           \A n \in Nat : Got(s, <<p, n>>) => n <= m,
           NoSeam(s, p) \/ Follows(s, p, m)
    PROVE  OneSeam'
<1>0. PICK x : x = <<p, m>>
  OBVIOUS
<1>1. x \in Chunk /\ x[1] = p /\ x[2] = m /\ x # End
  <2>1. x \in Chunk
    BY <1>0
  <2>2. x[1] = p /\ x[2] = m
    BY ONLY <1>0
  <2> QED BY <2>1, <2>2, ChunkIsNotEnd
<1>2. Call(s, x)
  BY <1>0
<1> SUFFICES ASSUME NEW u \in Subscribers, NEW q \in Producers
             PROVE  /\ \A i, j \in Of(u, q)' : i < j => log'[u][i][2] <= log'[u][j][2]
                    /\ \A i, j \in Seams(u, q)' : i = j
  BY DEF OneSeam
<1>3. CASE u # s
  <2>1. log'[u] = log[u]
    BY <1>1, <1>2, <1>3, CallTyped
  <2> QED BY <2>1, SameGot DEF OneSeam
<1>4. CASE u = s
  <2> DEFINE n == Len(log[s])
  <2>1. /\ Len(log'[s]) = n + 1 /\ n \in Nat
        /\ \A i \in 1..n : log'[s][i] = log[s][i]
        /\ log'[s][n + 1] = x
    BY <1>1, <1>2, CallTyped
  <2>2. /\ \A i \in 1..n : i \in Of(s, q)' <=> i \in Of(s, q)
        /\ \A i \in 1..n : i \in Seams(s, q)' <=> i \in Seams(s, q)
        /\ n + 1 \in Of(s, q)' <=> q = p
    BY <1>1, <1>2, CallSeams
  <2>3. n + 1 \in Seams(s, q)' => q = p /\ NoSeam(s, p)
    <3>1. n + 1 \in Seams(s, q)' <=>
            /\ x # End /\ x[1] = q
            /\ Got(s, x) \/ (x[2] > 1 /\ ~Got(s, <<q, x[2] - 1>>))
      BY <1>1, <1>2, CallSeams
    <3> QED BY <1>0, <1>1, <3>1 DEF Follows
  <2>4. \A i \in Of(s, q) : /\ log[s][i] \in Chunk /\ log[s][i][1] = q
                            /\ log[s][i][2] \in Nat /\ Got(s, <<q, log[s][i][2]>>)
    <3> SUFFICES ASSUME NEW i \in Of(s, q)
                 PROVE  /\ log[s][i] \in Chunk /\ log[s][i][1] = q
                        /\ log[s][i][2] \in Nat /\ Got(s, <<q, log[s][i][2]>>)
      OBVIOUS
    <3>1. i \in 1..n /\ log[s][i] # End /\ log[s][i][1] = q
      BY DEF Of
    <3>2. log[s][i] \in Chunk
      <4>1. log[s] \in Seq(Chunk \cup {End})
        BY DEF TypeOK
      <4> QED BY <3>1, <4>1
    <3>3. log[s][i][2] \in Nat /\ log[s][i] = <<q, log[s][i][2]>>
      BY <3>1, <3>2, ChunkParts
    <3>4. Got(s, <<q, log[s][i][2]>>)
      BY <3>1, <3>3 DEF Got, Contains
    <3> QED BY <3>1, <3>2, <3>3, <3>4
  <2>5. Of(s, q)' \subseteq 1..n + 1 /\ Of(s, q) \subseteq 1..n
    BY <2>1 DEF Of
  <2>6. Seams(s, q)' \subseteq Of(s, q)' /\ Seams(s, q) \subseteq Of(s, q)
    BY DEF Seams
  <2> HIDE DEF n
  <2>7. ASSUME NEW i \in Of(s, q)', NEW j \in Of(s, q)', i < j
        PROVE  log'[s][i][2] <= log'[s][j][2]
    <3>1. i \in 1..n /\ i \in Of(s, q)
      BY <2>1, <2>2, <2>5, <2>7
    <3>2. CASE j = n + 1
      <4>1. q = p /\ log'[s][j] = x
        BY <2>1, <2>2, <3>2
      <4>2. log[s][i][2] <= m
        BY <2>4, <3>1, <4>1
      <4> QED BY <1>1, <2>1, <3>1, <4>1, <4>2
    <3>3. CASE j # n + 1
      <4>1. j \in 1..n /\ j \in Of(s, q)
        BY <2>1, <2>2, <2>5, <3>3
      <4>2. log[s][i][2] <= log[s][j][2]
        BY <2>7, <3>1, <4>1 DEF OneSeam
      <4> QED BY <2>1, <3>1, <4>1, <4>2
    <3> QED BY <3>2, <3>3
  <2>8. ASSUME NEW i \in Seams(s, q)', NEW j \in Seams(s, q)' PROVE i = j
    <3>1. (i \in 1..n \/ i = n + 1) /\ (j \in 1..n \/ j = n + 1)
      BY <2>1, <2>5, <2>6
    <3>2. i \in 1..n => i \in Seams(s, q)
      BY <2>2
    <3>3. j \in 1..n => j \in Seams(s, q)
      BY <2>2
    <3>4. n + 1 \in Seams(s, q)' => \A k \in 1..n : k \notin Seams(s, q)
      BY <2>3 DEF NoSeam, n
    <3> QED BY <3>1, <3>2, <3>3, <3>4 DEF OneSeam
  <2> QED BY <1>4, <2>7, <2>8
<1> QED BY <1>3, <1>4

(* A call of on_close has no number. *)
LEMMA CallEndSeam ==
    ASSUME TypeOK, OneSeam, NEW s \in Subscribers, Call(s, End)
    PROVE  OneSeam'
<1> SUFFICES ASSUME NEW u \in Subscribers, NEW q \in Producers
             PROVE  /\ \A i, j \in Of(u, q)' : i < j => log'[u][i][2] <= log'[u][j][2]
                    /\ \A i, j \in Seams(u, q)' : i = j
  BY DEF OneSeam
<1>1. CASE u # s
  <2>1. log'[u] = log[u]
    BY <1>1, CallTyped
  <2> QED BY <2>1, SameGot DEF OneSeam
<1>2. CASE u = s
  <2> DEFINE n == Len(log[s])
  <2>1. /\ Len(log'[s]) = n + 1 /\ n \in Nat
        /\ \A i \in 1..n : log'[s][i] = log[s][i]
    BY CallTyped
  <2>2. /\ \A i \in 1..n : i \in Of(s, q)' <=> i \in Of(s, q)
        /\ \A i \in 1..n : i \in Seams(s, q)' <=> i \in Seams(s, q)
        /\ n + 1 \notin Of(s, q)'
    BY CallSeams
  <2>3. Of(s, q)' \subseteq 1..n + 1 /\ Seams(s, q)' \subseteq Of(s, q)'
    BY <2>1 DEF Of, Seams
  <2> HIDE DEF n
  <2>4. \A i \in Of(s, q)' : i \in 1..n /\ i \in Of(s, q)
    BY <2>1, <2>2, <2>3
  <2>5. \A i \in Seams(s, q)' : i \in Seams(s, q)
    BY <2>2, <2>3, <2>4
  <2>6. \A i, j \in Of(s, q)' : i < j => log'[s][i][2] <= log'[s][j][2]
    BY <2>1, <2>4 DEF OneSeam
  <2> QED BY <1>2, <2>5, <2>6 DEF OneSeam
<1> QED BY <1>1, <1>2
-----------------------------------------------------------------------------
(* The list of chunks: only a push and a clearing change it. *)

(* What the type invariant says of the list, the counters and the places. *)
LEMMA ListTyped ==
    ASSUME TypeOK
    PROVE  /\ Len(chunks) \in Nat
           /\ \A k \in 1..Len(chunks) :
                 /\ chunks[k] \in Chunk /\ chunks[k][1] \in Producers /\ chunks[k][2] \in Nat
                 /\ chunks[k] = <<chunks[k][1], chunks[k][2]>>
           /\ \A p \in Producers : pushes[p] \in Nat
           /\ \A t \in Thread : pos[t] \in Nat \ {0}
<1>1. chunks \in Seq(Chunk) /\ Len(chunks) \in Nat
  BY LenProperties DEF TypeOK
<1>2. \A k \in 1..Len(chunks) : chunks[k] \in Chunk
  BY <1>1
<1>3. \A k \in 1..Len(chunks) :
        /\ chunks[k][1] \in Producers /\ chunks[k][2] \in Nat
        /\ chunks[k] = <<chunks[k][1], chunks[k][2]>>
  BY <1>2, ChunkParts
<1> QED BY <1>1, <1>2, <1>3 DEF TypeOK

(* A push begins a loop and puts the next number of its producer at the    *)
(* end of the list.                                                        *)
LEMMA PushDoes ==
    ASSUME TypeOK, NEW p \in Producers, Push(p)
    PROVE  /\ pc[p] = "idle" /\ pushes[p] < MaxPushes
           /\ pc' = [pc EXCEPT ![p] = "push"] /\ pos' = [pos EXCEPT ![p] = 1]
           /\ pushes' = [pushes EXCEPT ![p] = @ + 1] /\ pushes'[p] = pushes[p] + 1
           /\ \A q \in Producers : q # p => pushes'[q] = pushes[q]
           /\ Len(chunks') = Len(chunks) + 1
           /\ \A k \in 1..Len(chunks) : chunks'[k] = chunks[k]
           /\ chunks'[Len(chunks) + 1] = <<p, pushes[p] + 1>>
           /\ UNCHANGED <<observers, closed, log, owed>>
<1>1. chunks \in Seq(Chunk) /\ pushes \in [Producers -> Nat]
  BY DEF TypeOK
<1>2. pushes'[p] = pushes[p] + 1 /\ \A q \in Producers : q # p => pushes'[q] = pushes[q]
  BY <1>1 DEF Push
<1>3. chunks' = Append(chunks, <<p, pushes[p] + 1>>) /\ <<p, pushes[p] + 1>> \in Chunk
  <2>1. pushes[p] + 1 \in Nat
    BY <1>1
  <2> QED BY <1>2, <2>1 DEF Push
<1>4. /\ Len(chunks') = Len(chunks) + 1
      /\ \A k \in 1..Len(chunks) : chunks'[k] = chunks[k]
      /\ chunks'[Len(chunks) + 1] = <<p, pushes[p] + 1>>
  BY <1>1, <1>3, AppendProperties
<1> QED BY <1>2, <1>4 DEF Push, StartLoop, Goto

(* A push leaves the list in order. *)
LEMMA PushKeepsList ==
    ASSUME TypeOK, ChunksInOrder, NEW p \in Producers, Push(p), Cleared' <=> Cleared
    PROVE  ChunksInOrder'
<1> DEFINE L == Len(chunks)
<1>1. /\ pushes'[p] = pushes[p] + 1
      /\ \A q \in Producers : q # p => pushes'[q] = pushes[q]
      /\ Len(chunks') = L + 1
      /\ \A k \in 1..L : chunks'[k] = chunks[k]
      /\ chunks'[L + 1] = <<p, pushes[p] + 1>>
  BY PushDoes
<1>2. /\ L \in Nat
      /\ \A k \in 1..L : /\ chunks[k][1] \in Producers /\ chunks[k][2] \in Nat
                         /\ chunks[k] = <<chunks[k][1], chunks[k][2]>>
      /\ \A q \in Producers : pushes[q] \in Nat
  BY ListTyped
<1>3. /\ \A i \in 1..L : chunks[i][2] \in 1..pushes[chunks[i][1]]
      /\ \A i, j \in 1..L : i < j /\ chunks[i][1] = chunks[j][1] => chunks[i][2] < chunks[j][2]
      /\ \A i \in 1..L : \A n \in chunks[i][2]..pushes[chunks[i][1]] :
            \E j \in i..L : chunks[j] = <<chunks[i][1], n>>
      /\ ~Cleared => \A q \in Producers : \A n \in 1..pushes[q] :
            \E j \in 1..L : chunks[j] = <<q, n>>
  BY DEF ChunksInOrder
<1> HIDE DEF L
<1>4. \A k : k \in 1..L + 1 <=> k \in 1..L \/ k = L + 1
  BY <1>2
<1>5. chunks'[L + 1][1] = p /\ chunks'[L + 1][2] = pushes[p] + 1
  BY <1>1
<1>6. ASSUME NEW i \in 1..L + 1 PROVE chunks'[i][2] \in 1..pushes'[chunks'[i][1]]
  <2>1. CASE i \in 1..L
    <3>1. chunks[i][1] \in Producers /\ chunks[i][2] \in 1..pushes[chunks[i][1]]
      BY <1>2, <1>3, <2>1
    <3>2. pushes'[chunks[i][1]] \in {pushes[chunks[i][1]], pushes[chunks[i][1]] + 1}
      BY <1>1, <3>1
    <3>3. pushes[chunks[i][1]] \in Nat
      BY <1>2, <3>1
    <3> QED BY <1>1, <2>1, <3>1, <3>2, <3>3
  <2>2. CASE i = L + 1
    <3>1. pushes[p] \in Nat
      BY <1>2
    <3> QED BY <1>1, <1>5, <2>2, <3>1
  <2> QED BY <1>4, <2>1, <2>2
<1>7. ASSUME NEW i \in 1..L + 1, NEW j \in 1..L + 1, i < j, chunks'[i][1] = chunks'[j][1]
      PROVE  chunks'[i][2] < chunks'[j][2]
  <2>1. i \in 1..L
    BY <1>2, <1>7
  <2>2. CASE j \in 1..L
    BY <1>1, <1>3, <1>7, <2>1, <2>2
  <2>3. CASE j = L + 1
    <3>1. chunks[i][1] = p
      BY <1>1, <1>5, <1>7, <2>1, <2>3
    <3>2. chunks[i][2] \in 1..pushes[p] /\ pushes[p] \in Nat
      BY <1>2, <1>3, <2>1, <3>1
    <3> QED BY <1>1, <1>5, <2>1, <2>3, <3>2
  <2> QED BY <1>4, <2>2, <2>3
<1>8. ASSUME NEW i \in 1..L + 1, NEW n \in chunks'[i][2]..pushes'[chunks'[i][1]]
      PROVE  \E j \in i..L + 1 : chunks'[j] = <<chunks'[i][1], n>>
  <2>1. CASE i \in 1..L
    <3>1. chunks'[i] = chunks[i] /\ chunks[i][1] \in Producers /\ chunks[i][2] \in Nat
      BY <1>1, <1>2, <2>1
    <3>2. CASE n \in chunks[i][2]..pushes[chunks[i][1]]
      <4>1. PICK j \in i..L : chunks[j] = <<chunks[i][1], n>>
        BY <1>3, <2>1, <3>2
      <4>2. j \in i..L + 1 /\ j \in 1..L
        BY <1>2, <2>1, <4>1
      <4> QED BY <1>1, <3>1, <4>1, <4>2
    <3>3. CASE n \notin chunks[i][2]..pushes[chunks[i][1]]
      <4>1. pushes[chunks[i][1]] \in Nat
        BY <1>2, <3>1
      <4>2. chunks[i][1] = p /\ n = pushes[p] + 1
        <5>1. n \in chunks[i][2]..pushes'[chunks[i][1]]
          BY <3>1
        <5>2. chunks[i][1] = p
          BY <1>1, <3>1, <3>3, <5>1
        <5> QED BY <1>1, <3>1, <3>3, <4>1, <5>1, <5>2
      <4>3. L + 1 \in i..L + 1
        BY <1>2, <2>1
      <4> QED BY <1>1, <3>1, <4>2, <4>3
    <3> QED BY <3>2, <3>3
  <2>2. CASE i = L + 1
    <3>1. n = pushes[p] + 1
      <4>1. pushes[p] \in Nat
        BY <1>2
      <4> QED BY <1>1, <1>5, <1>8, <2>2, <4>1
    <3>2. L + 1 \in i..L + 1
      BY <1>2, <2>2
    <3> QED BY <1>1, <1>5, <2>2, <3>1, <3>2
  <2> QED BY <1>4, <2>1, <2>2
<1>9. ASSUME ~Cleared', NEW q \in Producers, NEW n \in 1..pushes'[q]
      PROVE  \E j \in 1..L + 1 : chunks'[j] = <<q, n>>
  <2>1. CASE n \in 1..pushes[q]
    <3>1. PICK j \in 1..L : chunks[j] = <<q, n>>
      BY <1>3, <1>9, <2>1
    <3> QED BY <1>1, <1>4, <3>1
  <2>2. CASE n \notin 1..pushes[q]
    <3>1. pushes[q] \in Nat
      BY <1>2
    <3>2. q = p
      BY <1>1, <1>9, <2>2
    <3>3. n = pushes[p] + 1
      BY <1>1, <1>9, <2>2, <3>1, <3>2
    <3> QED BY <1>1, <1>4, <3>2, <3>3
  <2> QED BY <2>1, <2>2
<1>10. Len(chunks') = L + 1
  BY <1>1
<1>11. /\ \A i \in 1..Len(chunks') : chunks'[i][2] \in 1..pushes'[chunks'[i][1]]
       /\ \A i, j \in 1..Len(chunks') :
             i < j /\ chunks'[i][1] = chunks'[j][1] => chunks'[i][2] < chunks'[j][2]
  BY <1>6, <1>7, <1>10
<1>12. \A i \in 1..Len(chunks') : \A n \in chunks'[i][2]..pushes'[chunks'[i][1]] :
          \E j \in i..Len(chunks') : chunks'[j] = <<chunks'[i][1], n>>
  BY <1>8, <1>10
<1>13. ~Cleared' => \A q \in Producers : \A n \in 1..pushes'[q] :
          \E j \in 1..Len(chunks') : chunks'[j] = <<q, n>>
  BY <1>9, <1>10
<1> QED BY <1>11, <1>12, <1>13 DEF ChunksInOrder
-----------------------------------------------------------------------------
(* Where a thread goes in a step. *)

Moves(u) ==
    \/ pc'[u] = pc[u]
    \/ pc[u] = "asleep" /\ pc'[u] = "wait"
    \/ u \in Producers /\ Push(u) /\ pc[u] = "idle" /\ pc'[u] = "push"
    \/ u \in Producers /\ pc[u] = "push" /\ pc'[u] = "idle"
    \/ u \in Closers /\ pc[u] = "idle" /\ pc'[u] = "close"
    \/ u \in Disposers /\ (pc[u] = "close" \/ (pc[u] = "idle" /\ closed)) /\ pc'[u] = "clear"
    \/ u = Owner /\ pc[u] \in {"idle", "close"} /\ pc'[u] = "done"
    \/ u \in Closers /\ Clear(u) /\ pc[u] = "clear" /\ pc'[u] = "done"
    \/ u \in Subscribers /\ Subscribe(u) /\ pc[u] = "idle" /\ pc'[u] = "replay"
    \/ u \in Subscribers /\ ReplayEnd(u) /\ pc[u] = "replay" /\ pc'[u] = "check"
    \/ u \in Subscribers /\ CheckClosed(u) /\ ~closed /\ pc[u] = "check" /\ pc'[u] = "append"
    \/ u \in Subscribers /\ pc[u] \in {"check", "append", "wait"} /\ pc'[u] \in {"wait", "asleep", "done"}

(* A step that moves one thread moves no other. *)
LEMMA OneMoves ==
    ASSUME TypeOK, NEW t \in Thread, NEW l \in Pc, Goto(t, l), NEW u \in Thread
    PROVE  pc'[u] = IF u = t THEN l ELSE pc[u]
BY DEF Goto, TypeOK

(* These are all the moves there are. *)
LEMMA ThreadMoves ==
    ASSUME TypeOK, [Next]_vars, NEW u \in Thread
    PROVE  Moves(u)
<1>0. pc \in [Thread -> Pc]
  BY DEF TypeOK
<1>1. ASSUME NEW p \in Producers, Push(p) PROVE Moves(u)
  <2>1. pc[p] = "idle" /\ Goto(p, "push")
    BY <1>1 DEF Push, StartLoop
  <2>2. pc'[u] = IF u = p THEN "push" ELSE pc[u]
    BY <2>1, OneMoves
  <2> QED BY <1>1, <2>1, <2>2 DEF Moves
<1>2. ASSUME NEW p \in Producers, ProducerStep(p) PROVE Moves(u)
  <2>1. CASE FireNext(p)
    BY <2>1 DEF FireNext, Moves
  <2>2. CASE PushEnd(p)
    <3>1. pc[p] = "push" /\ Goto(p, "idle")
      BY <2>2 DEF PushEnd, AtExit
    <3>2. pc'[u] = IF u = p THEN "idle" ELSE pc[u]
      BY <3>1, OneMoves
    <3> QED BY <3>1, <3>2 DEF Moves
  <2> QED BY <1>2, <2>1, <2>2 DEF ProducerStep
<1>3. ASSUME NEW t \in Closers, Close(t) PROVE Moves(u)
  <2>1. pc[t] = "idle"
    BY <1>3 DEF Close
  <2>2. CASE closed
    <3>1. Goto(t, IF t \in Disposers THEN "clear" ELSE "done")
      BY <1>3, <2>2 DEF Close
    <3>2. CASE t \in Disposers
      <4>1. pc'[u] = IF u = t THEN "clear" ELSE pc[u]
        BY <3>1, <3>2, OneMoves
      <4> QED BY <2>1, <2>2, <3>2, <4>1 DEF Moves
    <3>3. CASE t \notin Disposers
      <4>1. pc'[u] = IF u = t THEN "done" ELSE pc[u]
        BY <3>1, <3>3, OneMoves
      <4> QED BY <2>1, <3>3, <4>1 DEF Moves
    <3> QED BY <3>2, <3>3
  <2>3. CASE ~closed
    <3>1. pc' = Woken(t)
      BY <1>3, <2>3 DEF Close
    <3>2. pc'[u] = IF u = t THEN "close" ELSE IF pc[u] = "asleep" THEN "wait" ELSE pc[u]
      BY <3>1 DEF Woken
    <3> QED BY <2>1, <3>2 DEF Moves
  <2> QED BY <2>2, <2>3
<1>4. ASSUME NEW t \in Closers, CloserStep(t) PROVE Moves(u)
  <2>1. CASE CloseNext(t)
    BY <2>1 DEF CloseNext, Moves
  <2>2. CASE CloseEnd(t)
    <3>1. pc[t] = "close" /\ Goto(t, IF t \in Disposers THEN "clear" ELSE "done")
      BY <2>2 DEF CloseEnd, AtExit
    <3>2. CASE t \in Disposers
      <4>1. pc'[u] = IF u = t THEN "clear" ELSE pc[u]
        BY <3>1, <3>2, OneMoves
      <4> QED BY <3>1, <3>2, <4>1 DEF Moves
    <3>3. CASE t \notin Disposers
      <4>1. pc'[u] = IF u = t THEN "done" ELSE pc[u]
        BY <3>1, <3>3, OneMoves
      <4> QED BY <3>1, <3>3, <4>1 DEF Moves
    <3> QED BY <3>2, <3>3
  <2>3. CASE Clear(t)
    <3>1. pc[t] = "clear" /\ Goto(t, "done")
      BY <2>3 DEF Clear
    <3>2. pc'[u] = IF u = t THEN "done" ELSE pc[u]
      BY <3>1, OneMoves
    <3> QED BY <2>3, <3>1, <3>2 DEF Moves
  <2> QED BY <1>4, <2>1, <2>2, <2>3 DEF CloserStep
<1>5. ASSUME NEW s \in Subscribers, Subscribe(s) PROVE Moves(u)
  <2>1. pc[s] = "idle" /\ Goto(s, "replay")
    BY <1>5 DEF Subscribe, StartLoop
  <2>2. pc'[u] = IF u = s THEN "replay" ELSE pc[u]
    BY <2>1, OneMoves
  <2> QED BY <1>5, <2>1, <2>2 DEF Moves
<1>6. ASSUME NEW s \in Subscribers, SubscriberStep(s) PROVE Moves(u)
  <2>0. AfterSubscribe(s) \in {"wait", "done"} /\ AfterSubscribe(s) \in Pc
    BY DEF AfterSubscribe
  <2>1. CASE ReplayNext(s)
    BY <2>1 DEF ReplayNext, Moves
  <2>2. CASE ReplayEnd(s)
    <3>1. pc[s] = "replay" /\ Goto(s, "check")
      BY <2>2 DEF ReplayEnd, AtExit
    <3>2. pc'[u] = IF u = s THEN "check" ELSE pc[u]
      BY <3>1, OneMoves
    <3> QED BY <2>2, <3>1, <3>2 DEF Moves
  <2>3. CASE CheckClosed(s)
    <3>1. pc[s] = "check" /\ Goto(s, IF closed THEN AfterSubscribe(s) ELSE "append")
      BY <2>3 DEF CheckClosed
    <3>2. CASE closed
      <4>1. pc'[u] = IF u = s THEN AfterSubscribe(s) ELSE pc[u]
        BY <2>0, <3>1, <3>2, OneMoves
      <4> QED BY <2>0, <3>1, <4>1 DEF Moves
    <3>3. CASE ~closed
      <4>1. pc'[u] = IF u = s THEN "append" ELSE pc[u]
        BY <3>1, <3>3, OneMoves
      <4> QED BY <2>3, <3>1, <3>3, <4>1 DEF Moves
    <3> QED BY <3>2, <3>3
  <2>4. CASE AppendObserver(s)
    <3>1. pc[s] = "append" /\ Goto(s, AfterSubscribe(s))
      BY <2>4 DEF AppendObserver
    <3>2. pc'[u] = IF u = s THEN AfterSubscribe(s) ELSE pc[u]
      BY <2>0, <3>1, OneMoves
    <3> QED BY <2>0, <3>1, <3>2 DEF Moves
  <2>5. CASE WaitClose(s)
    <3>1. pc[s] = "wait" /\ Goto(s, IF closed THEN "done" ELSE "asleep")
      BY <2>5 DEF WaitClose
    <3>2. pc'[u] = IF u = s THEN (IF closed THEN "done" ELSE "asleep") ELSE pc[u]
      BY <1>0, <3>1 DEF Goto
    <3> QED BY <3>1, <3>2 DEF Moves
  <2> QED BY <1>6, <2>1, <2>2, <2>3, <2>4, <2>5 DEF SubscriberStep
<1>7. CASE UNCHANGED vars
  BY <1>7 DEF vars, Moves
<1> QED BY <1>1, <1>2, <1>3, <1>4, <1>5, <1>6, <1>7 DEF Next

(* The flag is never reset, and only a push and a clearing change the      *)
(* list.                                                                   *)
LEMMA Frames ==
    ASSUME [Next]_vars
    PROVE  /\ closed => closed'
           /\ \/ \E p \in Producers : Push(p)
              \/ \E t \in Closers : Clear(t)
              \/ UNCHANGED <<chunks, pushes>>
<1> USE DEF Push, FireNext, PushEnd, Close, CloseNext, CloseEnd, Clear, Subscribe, ReplayNext,
            ReplayEnd, CheckClosed, AppendObserver, WaitClose
<1>1. ASSUME NEW p \in Producers, Push(p) \/ ProducerStep(p)
      PROVE  closed' = closed /\ (Push(p) \/ UNCHANGED <<chunks, pushes>>)
  BY <1>1 DEF ProducerStep
<1>2. ASSUME NEW t \in Closers, Close(t) \/ CloserStep(t)
      PROVE  (closed => closed') /\ (Clear(t) \/ UNCHANGED <<chunks, pushes>>)
  <2>1. CASE Close(t)
    BY <2>1
  <2>2. CASE CloserStep(t)
    BY <2>2 DEF CloserStep
  <2> QED BY <1>2, <2>1, <2>2
<1>3. ASSUME NEW s \in Subscribers, Subscribe(s) \/ SubscriberStep(s)
      PROVE  closed' = closed /\ UNCHANGED <<chunks, pushes>>
  BY <1>3 DEF SubscriberStep
<1>4. CASE UNCHANGED vars
  BY <1>4 DEF vars
<1> HIDE DEF Push, Clear
<1> QED BY <1>1, <1>2, <1>3, <1>4 DEF Next

(* The list stays in order, and is cleared in one kind of step. *)
LEMMA ListNext ==
    ASSUME CloseInv, ClearedLast, ChunksInOrder, [Next]_vars
    PROVE  /\ ClearedLast' /\ ChunksInOrder'
           /\ (\E d \in Disposers : Clear(d)) \/ (Cleared' <=> Cleared)
<1>0. TypeOK /\ OneCloser
  BY DEF CloseInv
<1>1. \A u \in Thread : Moves(u)
  BY <1>0, ThreadMoves
<1>2. ClearedLast'
  <2>1. ASSUME NEW u \in Thread, pc'[u] = "clear" PROVE u \in Disposers
    BY <1>1, <2>1 DEF Moves, ClearedLast
  <2>2. ASSUME NEW d \in Disposers, pc'[d] \in {"clear", "done"} PROVE closed'
    <3>1. closed
      <4>1. pc[d] = "close" => closed
        BY <1>0 DEF OneCloser
      <4>2. Moves(d) /\ d # Owner /\ d \notin Subscribers /\ d \notin Producers
        BY <1>1
      <4> QED BY <2>2, <4>1, <4>2 DEF Moves, ClearedLast
    <3> QED BY <3>1, Frames
  <2> QED BY <2>1, <2>2 DEF ClearedLast
<1>3. ASSUME ~\E d \in Disposers : Clear(d) PROVE Cleared' <=> Cleared
  <2>1. ASSUME NEW d \in Disposers PROVE pc'[d] = "done" <=> pc[d] = "done"
    <3>1. Moves(d) /\ d # Owner /\ d \notin Subscribers /\ d \notin Producers
      BY <1>1
    <3> QED BY <1>3, <3>1 DEF Moves
  <2> QED BY <2>1 DEF Cleared
<1>4. ASSUME NEW t \in Closers, Clear(t) PROVE t \in Disposers /\ ChunksInOrder'
  <2>1. t \in Disposers
    BY <1>4 DEF Clear, ClearedLast
  <2>2. chunks' = <<>> /\ Goto(t, "done") /\ pushes' = pushes
    BY <1>4 DEF Clear
  <2>3. pc'[t] = "done"
    BY <1>0, <2>1, <2>2, OneMoves
  <2>4. Cleared' /\ Len(chunks') = 0
    BY <2>1, <2>2, <2>3 DEF Cleared
  <2>5. 1..Len(chunks') = {}
    BY <2>4
  <2> QED BY <2>1, <2>4, <2>5 DEF ChunksInOrder
<1>5. ASSUME NEW p \in Producers, Push(p) PROVE ChunksInOrder'
  <2>1. ~\E d \in Disposers : Clear(d)
    <3> SUFFICES ASSUME NEW d \in Disposers, Clear(d) PROVE FALSE
      OBVIOUS
    <3>1. pushes' = pushes
      BY DEF Clear
    <3>2. pushes'[p] = pushes[p] + 1 /\ pushes[p] \in Nat
      BY <1>0, <1>5, PushDoes, ListTyped
    <3> QED BY <3>1, <3>2
  <2> QED BY <1>0, <1>3, <1>5, <2>1, PushKeepsList
<1>6. ASSUME UNCHANGED <<chunks, pushes>>, Cleared' <=> Cleared PROVE ChunksInOrder'
  <2>1. chunks' = chunks /\ pushes' = pushes
    BY <1>6
  <2> DEFINE span(c, n) == /\ \A i \in 1..Len(c) : c[i][2] \in 1..n[c[i][1]]
                           /\ \A i, j \in 1..Len(c) :
                                 i < j /\ c[i][1] = c[j][1] => c[i][2] < c[j][2]
                           /\ \A i \in 1..Len(c) : \A m \in c[i][2]..n[c[i][1]] :
                                 \E j \in i..Len(c) : c[j] = <<c[i][1], m>>
      whole(c, n) == \A p \in Producers : \A m \in 1..n[p] :
                                 \E j \in 1..Len(c) : c[j] = <<p, m>>
  <2>2. span(chunks, pushes) /\ (~Cleared => whole(chunks, pushes))
    BY DEF ChunksInOrder
  <2>3. ChunksInOrder' <=> span(chunks', pushes') /\ (~Cleared' => whole(chunks', pushes'))
    BY DEF ChunksInOrder
  <2> HIDE DEF span, whole
  <2> QED BY <1>6, <2>1, <2>2, <2>3
<1>7. ChunksInOrder'
  <2>1. CASE \E p \in Producers : Push(p)
    BY <1>5, <2>1
  <2>2. CASE \E t \in Closers : Clear(t)
    BY <1>4, <2>2
  <2>3. CASE UNCHANGED <<chunks, pushes>>
    <3>1. CASE \E d \in Disposers : Clear(d)
      BY <1>4, <3>1
    <3>2. CASE ~\E d \in Disposers : Clear(d)
      BY <1>3, <1>6, <2>3, <3>2
    <3> QED BY <3>1, <3>2
  <2> QED BY <2>1, <2>2, <2>3, Frames
<1> QED BY <1>2, <1>3, <1>7

-----------------------------------------------------------------------------
(* What is received has been pushed. *)

(* Every call with a chunk is of a push that has begun. *)
LEMMA OnlyPushedNext ==
    ASSUME TypeOK, ChunksInOrder, OnlyPushed, EndIsLast, [Next]_vars
    PROVE  OnlyPushed'
<1>0. \A p \in Producers : pushes[p] \in Nat
  BY ListTyped
<1>1. ASSUME NEW s \in Subscribers, NEW x \in Chunk \cup {End}, Call(s, x), pushes' = pushes,
             x # End => x[2] \in 1..pushes[x[1]]
      PROVE  OnlyPushed'
  <2> SUFFICES ASSUME NEW u \in Subscribers, NEW p \in Producers, NEW n \in Nat,
                      Got(u, <<p, n>>)'
               PROVE  n \in 1..pushes'[p]
    BY DEF OnlyPushed
  <2>1. Got(u, <<p, n>>) \/ <<p, n>> = x
    BY <1>1, CallGot
  <2>2. CASE Got(u, <<p, n>>)
    BY <1>1, <2>2 DEF OnlyPushed
  <2>3. CASE <<p, n>> = x
    <3>1. <<p, n>> \in Chunk /\ x[1] = p /\ x[2] = n
      BY <2>3
    <3>2. x # End
      BY <2>3, <3>1, ChunkIsNotEnd
    <3> QED BY <1>1, <3>1, <3>2
  <2> QED BY <2>1, <2>2, <2>3
<1>2. ASSUME log' = log, \A p \in Producers : pushes'[p] \in {pushes[p], pushes[p] + 1}
      PROVE  OnlyPushed'
  <2> SUFFICES ASSUME NEW u \in Subscribers, NEW p \in Producers, NEW n \in Nat,
                      Got(u, <<p, n>>)'
               PROVE  n \in 1..pushes'[p]
    BY DEF OnlyPushed
  <2>1. Got(u, <<p, n>>)
    BY <1>2, SameGot
  <2>2. n \in 1..pushes[p]
    BY <2>1 DEF OnlyPushed
  <2>3. pushes'[p] = pushes[p] \/ pushes'[p] = pushes[p] + 1
    BY <1>2
  <2> QED BY <1>0, <2>2, <2>3
<1>3. ASSUME NEW p \in Producers, Push(p) PROVE OnlyPushed'
  BY <1>2, <1>3, PushDoes
<1>4. ASSUME NEW p \in Producers, FireNext(p) PROVE OnlyPushed'
  <2>1. PICK x : x = <<p, pushes[p]>>
    OBVIOUS
  <2>2. PICK s : s = observers[pos[p]]
    OBVIOUS
  <2>3. s \in Subscribers /\ pc[p] = "push" /\ Call(s, x) /\ pushes' = pushes
    BY <1>4, <2>1, <2>2 DEF FireNext, AtTurn, TypeOK
  <2>4. pushes[p] \in Nat /\ pushes[p] > 0
    BY <1>0, <2>3 DEF EndIsLast
  <2>5. x \in Chunk
    BY <2>1, <2>4
  <2>6. x[1] = p /\ x[2] = pushes[p]
    BY <2>1
  <2>7. x[2] \in 1..pushes[x[1]]
    BY <2>4, <2>6
  <2> QED BY <1>1, <2>3, <2>5, <2>7
<1>5. ASSUME NEW t \in Closers, CloseNext(t) PROVE OnlyPushed'
  <2>2. PICK s : s = observers[pos[t]]
    OBVIOUS
  <2>3. s \in Subscribers /\ Call(s, End) /\ pushes' = pushes
    BY <1>5, <2>2 DEF CloseNext, AtTurn, TypeOK
  <2> QED BY <1>1, <2>3
<1>6. ASSUME NEW s \in Subscribers, ReplayNext(s) PROVE OnlyPushed'
  <2>1. PICK k : k = pos[s]
    OBVIOUS
  <2>2. k \in 1..Len(chunks) /\ Call(s, chunks[k]) /\ pushes' = pushes
    BY <1>6, <2>1, ListTyped DEF ReplayNext, AtTurn
  <2>3. PICK x : x = chunks[k]
    OBVIOUS
  <2>4. x \in Chunk /\ x[2] \in 1..pushes[x[1]] /\ Call(s, x)
    BY <2>2, <2>3, ListTyped DEF ChunksInOrder
  <2> QED BY <1>1, <2>2, <2>4
<1>7. ASSUME NEW s \in Subscribers, CheckClosed(s) PROVE OnlyPushed'
  <2>1. pushes' = pushes /\ (log' = log \/ Call(s, End))
    BY <1>7 DEF CheckClosed
  <2> QED BY <1>1, <1>2, <2>1
<1>8. ASSUME log' = log, pushes' = pushes PROVE OnlyPushed'
  BY <1>2, <1>8
<1>9. ASSUME NEW p \in Producers, ProducerStep(p) PROVE OnlyPushed'
  <2>1. CASE PushEnd(p)
    BY <1>8, <2>1 DEF PushEnd
  <2> QED BY <1>4, <1>9, <2>1 DEF ProducerStep
<1>10. ASSUME NEW t \in Closers, Close(t) \/ CloserStep(t) PROVE OnlyPushed'
  <2>1. CASE Close(t) \/ CloseEnd(t) \/ Clear(t)
    BY <1>8, <2>1 DEF Close, CloseEnd, Clear
  <2> QED BY <1>5, <1>10, <2>1 DEF CloserStep
<1>11. ASSUME NEW s \in Subscribers, Subscribe(s) \/ SubscriberStep(s) PROVE OnlyPushed'
  <2>1. CASE Subscribe(s) \/ ReplayEnd(s) \/ AppendObserver(s) \/ WaitClose(s)
    BY <1>8, <2>1 DEF Subscribe, ReplayEnd, AppendObserver, WaitClose
  <2> QED BY <1>6, <1>7, <1>11, <2>1 DEF SubscriberStep
<1>12. CASE UNCHANGED vars
  BY <1>8, <1>12 DEF vars
<1> QED BY <1>3, <1>9, <1>10, <1>11, <1>12 DEF Next

-----------------------------------------------------------------------------
(* The replay. *)

ReplayInv == NoSeamYet /\ ReplayExact /\ ReplayGoesOn

Outside == {"idle", "replay", "check", "append"}

(* A step that leaves the list alone and calls nobody who replays. *)
LEMMA ReplayFrame ==
    ASSUME ReplayInv, chunks' = chunks, pushes' = pushes, Cleared' <=> Cleared,
           \A s \in Subscribers : pc'[s] \in Outside =>
               /\ log'[s] = log[s]
               /\ \/ pc'[s] = pc[s] /\ pos'[s] = pos[s]
                  \/ pc[s] = "replay" /\ pc'[s] = "check"
                  \/ pc[s] = "check" /\ pc'[s] = "append" /\ ~Cleared
    PROVE  ReplayInv'
<1> USE DEF Outside
<1>1. NoSeamYet'
  <2> SUFFICES ASSUME NEW s \in Subscribers, NEW p \in Producers,
                      pc'[s] = "append" \/ (~Cleared' /\ pc'[s] \in {"idle", "replay", "check"})
               PROVE  NoSeam(s, p)'
    BY DEF NoSeamYet
  <2>1. pc'[s] \in Outside
    OBVIOUS
  <2>2. log'[s] = log[s]
    BY <2>1
  <2>3. pc[s] = "append" \/ (~Cleared /\ pc[s] \in {"idle", "replay", "check"})
    BY <2>1
  <2>4. NoSeam(s, p)
    BY <2>3 DEF ReplayInv, NoSeamYet
  <2> QED BY <2>2, <2>4, SameGot
<1>2. ReplayExact'
  <2>1. ASSUME NEW s \in Subscribers, pc'[s] = "idle" PROVE Len(log'[s]) = 0
    BY <2>1 DEF ReplayInv, ReplayExact
  <2>2. ASSUME NEW s \in Subscribers, ~Cleared', pc'[s] = "replay"
        PROVE  /\ pos'[s] <= Len(chunks) + 1
               /\ \A k \in 1..Len(chunks), x \in Chunk :
                     chunks[k] = x => (Got(s, x)' <=> k < pos'[s])
    <3>1. pc[s] = "replay" /\ pos'[s] = pos[s] /\ log'[s] = log[s] /\ ~Cleared
      BY <2>2
    <3>2. /\ pos[s] <= Len(chunks) + 1
          /\ \A k \in 1..Len(chunks), x \in Chunk :
                chunks[k] = x => (Got(s, x) <=> k < pos[s])
      BY <3>1 DEF ReplayInv, ReplayExact
    <3> QED BY <3>1, <3>2, SameGot
  <2> QED BY <2>1, <2>2 DEF ReplayExact
<1>3. ReplayGoesOn'
  <2> SUFFICES ASSUME NEW s \in Subscribers, NEW p \in Producers, NEW n \in Nat, pc'[s] = "replay"
               PROVE  /\ \A k \in 1..Len(chunks) : pos'[s] <= k /\ chunks[k] = <<p, n>> =>
                            /\ \A m \in Nat : Got(s, <<p, m>>)' => m < n
                            /\ NoGap(s, p, n - 1)'
                      /\ n = pushes[p] => NoGap(s, p, n)'
                      /\ NoSeam(s, p)' \/ pos'[s] <= Len(chunks) + 1
    BY DEF ReplayGoesOn
  <2>1. pc[s] = "replay" /\ pos'[s] = pos[s] /\ log'[s] = log[s]
    OBVIOUS
  <2>2. \A x : Got(s, x)' <=> Got(s, x)
    BY <2>1, SameGot
  <2>3. NoSeam(s, p)' <=> NoSeam(s, p)
    BY <2>1, SameGot
  <2>4. \A l : NoGap(s, p, l)' <=> NoGap(s, p, l)
    BY <2>1, <2>2, <2>3 DEF NoGap, Left
  <2>5. /\ \A k \in 1..Len(chunks) : pos[s] <= k /\ chunks[k] = <<p, n>> =>
              /\ \A m \in Nat : Got(s, <<p, m>>) => m < n
              /\ NoGap(s, p, n - 1)
        /\ n = pushes[p] => NoGap(s, p, n)
        /\ NoSeam(s, p) \/ pos[s] <= Len(chunks) + 1
    BY <2>1 DEF ReplayInv, ReplayGoesOn
  <2> QED BY <2>1, <2>2, <2>3, <2>4, <2>5
<1> QED BY <1>1, <1>2, <1>3 DEF ReplayInv

(* A push goes on from what is left to replay, or from the last push. *)
LEMMA PushReplay ==
    ASSUME TypeOK, OnlyPushed, ReplayInv, NEW p \in Producers, Push(p), Cleared' <=> Cleared
    PROVE  ReplayInv'
<1> DEFINE L == Len(chunks)
<1>1. /\ pushes'[p] = pushes[p] + 1
      /\ \A q \in Producers : q # p => pushes'[q] = pushes[q]
      /\ Len(chunks') = L + 1
      /\ \A k \in 1..L : chunks'[k] = chunks[k]
      /\ chunks'[L + 1] = <<p, pushes[p] + 1>>
      /\ log' = log
      /\ pc' = [pc EXCEPT ![p] = "push"] /\ pos' = [pos EXCEPT ![p] = 1]
  BY PushDoes
<1>2. /\ L \in Nat /\ \A q \in Producers : pushes[q] \in Nat
      /\ \A t \in Thread : pos[t] \in Nat \ {0}
      /\ \A k \in 1..L : chunks[k][1] \in Producers /\ chunks[k][2] \in Nat
  BY ListTyped
<1> HIDE DEF L
<1>3. \A s \in Subscribers : pc'[s] = pc[s] /\ pos'[s] = pos[s]
  BY <1>1 DEF TypeOK
<1>4. /\ \A s \in Subscribers : \A x : Got(s, x)' <=> Got(s, x)
      /\ \A s \in Subscribers : \A q \in Producers : NoSeam(s, q)' <=> NoSeam(s, q)
  BY <1>1, SameGot
<1>5. chunks'[L + 1][1] = p /\ chunks'[L + 1][2] = pushes[p] + 1 /\ chunks'[L + 1][2] - 1 = pushes[p]
  <2>1. chunks'[L + 1][1] = p /\ chunks'[L + 1][2] = pushes[p] + 1
    BY <1>1
  <2> QED BY <1>2, <2>1
<1>6. \A k : k \in 1..L + 1 <=> k \in 1..L \/ k = L + 1
  BY <1>2
<1>7. ASSUME NEW s \in Subscribers, NEW n \in Nat PROVE Got(s, <<p, n>>) => n <= pushes[p]
  BY <1>2 DEF OnlyPushed
<1>8. NoSeamYet'
  BY <1>3, <1>4 DEF ReplayInv, NoSeamYet
<1>9. ReplayExact'
  <2>1. ASSUME NEW s \in Subscribers, pc'[s] = "idle" PROVE Len(log'[s]) = 0
    BY <1>1, <1>3, <2>1 DEF ReplayInv, ReplayExact
  <2>2. ASSUME NEW s \in Subscribers, ~Cleared', pc'[s] = "replay"
        PROVE  /\ pos'[s] <= L + 1 + 1
               /\ \A k \in 1..L + 1, x \in Chunk :
                     chunks'[k] = x => (Got(s, x)' <=> k < pos'[s])
    <3>1. /\ pos[s] <= L + 1
          /\ \A k \in 1..L, x \in Chunk : chunks[k] = x => (Got(s, x) <=> k < pos[s])
      BY <1>3, <2>2 DEF ReplayInv, ReplayExact, L
    <3>2. pos[s] \in Nat
      BY <1>2
    <3>3. ~Got(s, <<p, pushes[p] + 1>>)
      <4>1. pushes[p] \in Nat /\ pushes[p] + 1 \in Nat
        BY <1>2
      <4> QED BY <1>7, <4>1
    <3>4. ASSUME NEW k \in 1..L + 1, NEW x \in Chunk, chunks'[k] = x
          PROVE  Got(s, x)' <=> k < pos[s]
      <4>2. Got(s, x)' <=> Got(s, x)
        BY <1>4
      <4>3. CASE k \in 1..L
        BY <1>1, <3>1, <3>4, <4>2, <4>3
      <4>4. CASE k = L + 1
        <5>1. ~Got(s, x)
          BY <1>1, <3>3, <3>4, <4>4
        <5> QED BY <1>2, <3>1, <3>2, <4>2, <4>4, <5>1
      <4> QED BY <1>6, <4>3, <4>4
    <3> QED BY <1>2, <1>3, <3>1, <3>2, <3>4
  <2> QED BY <1>1, <2>1, <2>2 DEF ReplayExact
<1>10. ReplayGoesOn'
  <2> SUFFICES ASSUME NEW s \in Subscribers, NEW q \in Producers, NEW n \in Nat, pc'[s] = "replay"
               PROVE  /\ \A k \in 1..L + 1 : pos'[s] <= k /\ chunks'[k] = <<q, n>> =>
                            /\ \A m \in Nat : Got(s, <<q, m>>)' => m < n
                            /\ NoGap(s, q, n - 1)'
                      /\ n = pushes'[q] => NoGap(s, q, n)'
                      /\ NoSeam(s, q)' \/ pos'[s] <= L + 1 + 1
    BY <1>1 DEF ReplayGoesOn
  <2>1. /\ \A l \in Nat : \A k \in 1..L : pos[s] <= k /\ chunks[k] = <<q, l>> =>
              /\ \A m \in Nat : Got(s, <<q, m>>) => m < l
              /\ NoGap(s, q, l - 1)
        /\ NoGap(s, q, pushes[q])
        /\ NoSeam(s, q) \/ pos[s] <= L + 1
    BY <1>2, <1>3 DEF ReplayInv, ReplayGoesOn, L
  <2>2. pos'[s] = pos[s] /\ pos[s] \in Nat
    BY <1>2, <1>3
  <2>3. ASSUME NEW x, Left(s, x) PROVE Left(s, x)'
    <3>1. PICK k \in 1..L : pos[s] <= k /\ chunks[k] = x
      BY <2>3 DEF Left, L
    <3>2. k \in 1..Len(chunks') /\ chunks'[k] = x
      BY <1>1, <1>6, <3>1
    <3> QED BY <2>2, <3>1, <3>2 DEF Left
  <2>4. ASSUME NEW l, NoGap(s, q, l) PROVE NoGap(s, q, l)'
    BY <1>4, <2>3, <2>4 DEF NoGap
  <2>5. ASSUME NEW k \in 1..L + 1, pos'[s] <= k, chunks'[k] = <<q, n>>
        PROVE  (\A m \in Nat : Got(s, <<q, m>>)' => m < n) /\ NoGap(s, q, n - 1)'
    <3>1. CASE k \in 1..L
      <4>1. chunks[k] = <<q, n>> /\ pos[s] <= k
        BY <1>1, <2>2, <2>5, <3>1
      <4>2. (\A m \in Nat : Got(s, <<q, m>>) => m < n) /\ NoGap(s, q, n - 1)
        BY <2>1, <3>1, <4>1
      <4> QED BY <1>4, <2>4, <4>2
    <3>2. CASE k = L + 1
      <4>1. q = p /\ n = pushes[p] + 1 /\ pushes[p] \in Nat
        BY <1>1, <1>2, <2>5, <3>2
      <4>2. n - 1 = pushes[p]
        BY <4>1
      <4>3. \A m \in Nat : Got(s, <<q, m>>)' => m < n
        BY <1>4, <1>7, <4>1
      <4>4. NoGap(s, q, n - 1)
        BY <2>1, <4>1, <4>2
      <4> QED BY <2>4, <4>3, <4>4
    <3> QED BY <1>6, <3>1, <3>2
  <2>6. ASSUME n = pushes'[q] PROVE NoGap(s, q, n)'
    <3>1. CASE q # p
      <4>1. NoGap(s, q, n)
        BY <1>1, <2>1, <2>6, <3>1
      <4> QED BY <2>4, <4>1
    <3>2. CASE q = p
      <4>1. n = pushes[p] + 1
        BY <1>1, <2>6, <3>2
      <4>2. CASE pos[s] <= L + 1
        <5>1. Left(s, <<q, n>>)'
          BY <1>1, <1>6, <2>2, <3>2, <4>1, <4>2 DEF Left
        <5> QED BY <5>1 DEF NoGap
      <4>3. CASE ~(pos[s] <= L + 1)
        <5>1. NoSeam(s, q)'
          BY <1>4, <2>1, <4>3
        <5> QED BY <5>1 DEF NoGap
      <4> QED BY <4>2, <4>3
    <3> QED BY <3>1, <3>2
  <2>7. NoSeam(s, q)' \/ pos'[s] <= L + 1 + 1
    BY <1>2, <1>4, <2>1, <2>2
  <2> QED BY <2>5, <2>6, <2>7
<1> QED BY <1>8, <1>9, <1>10 DEF ReplayInv

(* One thread at most may dispose of the stream. *)
OneDisposer == \A d, e \in Disposers : d = e

(* A clearing finds no seam yet, if it is the only one. *)
LEMMA ClearReplay ==
    ASSUME TypeOK, OneDisposer, ClearedLast, ReplayInv, NEW d \in Disposers, Clear(d)
    PROVE  ReplayInv'
<1>1. /\ pc[d] = "clear" /\ pc' = [pc EXCEPT ![d] = "done"]
      /\ chunks' = <<>> /\ log' = log /\ pos' = pos
  BY DEF Clear, Goto
<1>2. ~Cleared
  BY <1>1 DEF OneDisposer, Cleared
<1>3. Cleared'
  BY <1>1 DEF Cleared, TypeOK
<1>4. \A s \in Subscribers : pc'[s] = pc[s]
  BY <1>1 DEF TypeOK
<1>5. \A s \in Subscribers : \A p \in Producers : NoSeam(s, p)' <=> NoSeam(s, p)
  BY <1>1, SameGot
<1>6. NoSeamYet'
  BY <1>3, <1>4, <1>5 DEF ReplayInv, NoSeamYet
<1>7. ReplayExact'
  BY <1>1, <1>3, <1>4 DEF ReplayInv, ReplayExact
<1>8. ReplayGoesOn'
  <2>1. 1..Len(chunks') = {}
    BY <1>1
  <2>2. ASSUME NEW s \in Subscribers, NEW p \in Producers, NEW n \in Nat, pc'[s] = "replay"
        PROVE  NoSeam(s, p)' /\ NoGap(s, p, n)'
    <3>1. NoSeam(s, p)'
      BY <1>2, <1>4, <1>5, <2>2 DEF ReplayInv, NoSeamYet
    <3> QED BY <3>1 DEF NoGap
  <2> QED BY <2>1, <2>2 DEF ReplayGoesOn
<1> QED BY <1>6, <1>7, <1>8 DEF ReplayInv

(* A replay begins with nothing received. *)
LEMMA SubscribeReplay ==
    ASSUME TypeOK, ReplayInv, NEW s \in Subscribers, Subscribe(s), Cleared' <=> Cleared
    PROVE  ReplayInv'
<1>1. /\ pc[s] = "idle" /\ pc' = [pc EXCEPT ![s] = "replay"] /\ pos' = [pos EXCEPT ![s] = 1]
      /\ chunks' = chunks /\ pushes' = pushes /\ log' = log
  BY DEF Subscribe, StartLoop, Goto
<1>2. /\ pc'[s] = "replay" /\ pos'[s] = 1
      /\ \A u \in Subscribers : u # s => pc'[u] = pc[u] /\ pos'[u] = pos[u]
  BY <1>1 DEF TypeOK
<1>3. Len(log[s]) = 0
  BY <1>1 DEF ReplayInv, ReplayExact
<1>4. \A p \in Producers : NoSeam(s, p)
  BY <1>3 DEF NoSeam
<1>5. \A x : ~Got(s, x)
  BY <1>3 DEF Got, Contains
<1>6. /\ \A u \in Subscribers : \A x : Got(u, x)' <=> Got(u, x)
      /\ \A u \in Subscribers : \A p \in Producers : NoSeam(u, p)' <=> NoSeam(u, p)
  BY <1>1, SameGot
<1>7. Len(chunks) \in Nat
  BY ListTyped
<1>8. NoSeamYet'
  BY <1>2, <1>4, <1>6 DEF ReplayInv, NoSeamYet
<1>9. ReplayExact'
  <2>1. ASSUME NEW u \in Subscribers, pc'[u] = "idle" PROVE Len(log'[u]) = 0
    BY <1>1, <1>2, <2>1 DEF ReplayInv, ReplayExact
  <2>2. ASSUME NEW u \in Subscribers, ~Cleared', pc'[u] = "replay"
        PROVE  /\ pos'[u] <= Len(chunks) + 1
               /\ \A k \in 1..Len(chunks), x \in Chunk :
                     chunks[k] = x => (Got(u, x)' <=> k < pos'[u])
    <3>1. CASE u = s
      BY <1>2, <1>5, <1>6, <1>7, <3>1
    <3>2. CASE u # s
      <4>1. pc[u] = "replay" /\ pos'[u] = pos[u] /\ ~Cleared
        BY <1>2, <2>2, <3>2
      <4> QED BY <1>6, <4>1 DEF ReplayInv, ReplayExact
    <3> QED BY <3>1, <3>2
  <2> QED BY <1>1, <2>1, <2>2 DEF ReplayExact
<1>10. ReplayGoesOn'
  <2> SUFFICES ASSUME NEW u \in Subscribers, NEW p \in Producers, NEW n \in Nat, pc'[u] = "replay"
               PROVE  /\ \A k \in 1..Len(chunks) : pos'[u] <= k /\ chunks[k] = <<p, n>> =>
                            /\ \A m \in Nat : Got(u, <<p, m>>)' => m < n
                            /\ NoGap(u, p, n - 1)'
                      /\ n = pushes[p] => NoGap(u, p, n)'
                      /\ NoSeam(u, p)' \/ pos'[u] <= Len(chunks) + 1
    BY <1>1 DEF ReplayGoesOn
  <2>1. CASE u = s
    <3>1. NoSeam(s, p)' /\ \A l : NoGap(s, p, l)'
      BY <1>4, <1>6 DEF NoGap
    <3> QED BY <1>5, <1>6, <2>1, <3>1
  <2>2. CASE u # s
    <3>1. pc[u] = "replay" /\ pos'[u] = pos[u]
      BY <1>2, <2>2
    <3>2. \A l : NoGap(u, p, l)' <=> NoGap(u, p, l)
      BY <1>1, <1>6, <3>1 DEF NoGap, Left
    <3>3. /\ \A k \in 1..Len(chunks) : pos[u] <= k /\ chunks[k] = <<p, n>> =>
                /\ \A m \in Nat : Got(u, <<p, m>>) => m < n
                /\ NoGap(u, p, n - 1)
          /\ n = pushes[p] => NoGap(u, p, n)
          /\ NoSeam(u, p) \/ pos[u] <= Len(chunks) + 1
      BY <3>1 DEF ReplayInv, ReplayGoesOn
    <3> QED BY <1>6, <3>1, <3>2, <3>3
  <2> QED BY <2>1, <2>2
<1> QED BY <1>8, <1>9, <1>10 DEF ReplayInv

(* The next chunk of a replay is newer than the last, and follows it where *)
(* nothing has been cleared or something has been missed already.          *)
LEMMA ReplayNextReplay ==
    ASSUME TypeOK, ChunksInOrder, ReplayInv, OneSeam,
           NEW s \in Subscribers, ReplayNext(s), Cleared' <=> Cleared
    PROVE  ReplayInv' /\ OneSeam'
<1> DEFINE L == Len(chunks)
<1>1. PICK k : k = pos[s]
  OBVIOUS
<1>2. /\ k \in 1..L /\ L \in Nat /\ pc[s] = "replay" /\ pc' = pc /\ pos' = [pos EXCEPT ![s] = @ + 1]
      /\ chunks' = chunks /\ pushes' = pushes
  BY <1>1, ListTyped DEF ReplayNext, AtTurn, Turn
<1>3. PICK p \in Producers, n \in Nat : chunks[k] = <<p, n>>
  BY <1>2, ListTyped
<1>4. Call(s, <<p, n>>)
  BY <1>1, <1>3 DEF ReplayNext
<1>5. /\ pos'[s] = k + 1
      /\ \A u \in Subscribers : u # s => pos'[u] = pos[u]
  BY <1>1, <1>2 DEF TypeOK
<1>6. PICK x \in Chunk : x = <<p, n>>
  OBVIOUS
<1>7. x[1] = p /\ x[2] = n /\ x # End /\ Call(s, x)
  BY <1>4, <1>6, ChunkIsNotEnd
<1>8. \A u \in Subscribers : \A y : Got(u, y)' <=> Got(u, y) \/ (u = s /\ y = x)
  BY <1>7, CallGot
<1>9. n \in 1..pushes[p] /\ pushes[p] \in Nat
  <2>1. chunks[k][1] = p /\ chunks[k][2] = n
    BY <1>3
  <2> QED BY <1>2, <2>1, ListTyped DEF ChunksInOrder
<1>10. \A i, j \in 1..L : \A l, m \in Nat :
          i < j /\ chunks[i] = <<p, l>> /\ chunks[j] = <<p, m>> => l < m
  <2> SUFFICES ASSUME NEW i \in 1..L, NEW j \in 1..L, NEW l \in Nat, NEW m \in Nat,
                      i < j, chunks[i] = <<p, l>>, chunks[j] = <<p, m>>
               PROVE  l < m
    OBVIOUS
  <2>1. chunks[i][1] = p /\ chunks[i][2] = l /\ chunks[j][1] = p /\ chunks[j][2] = m
    OBVIOUS
  <2> QED BY <2>1 DEF ChunksInOrder
<1>11. \A l \in n..pushes[p] : \E j \in k..L : chunks[j] = <<p, l>>
  <2>1. chunks[k][1] = p /\ chunks[k][2] = n
    BY <1>3
  <2>2. \A l \in chunks[k][2]..pushes[chunks[k][1]] :
          \E j \in k..L : chunks[j] = <<chunks[k][1], l>>
    BY <1>2 DEF ChunksInOrder
  <2> QED BY <2>1, <2>2
<1>12. /\ \A m \in Nat : Got(s, <<p, m>>) => m < n
       /\ NoGap(s, p, n - 1)
  <2>1. pos[s] <= k
    BY <1>1, <1>2
  <2>2. \A i \in 1..L : pos[s] <= i /\ chunks[i] = <<p, n>> =>
          (\A m \in Nat : Got(s, <<p, m>>) => m < n) /\ NoGap(s, p, n - 1)
    BY <1>2 DEF ReplayInv, ReplayGoesOn
  <2> QED BY <1>2, <1>3, <2>1, <2>2
<1> HIDE DEF L
<1>13. ~Left(s, <<p, n - 1>>)
  <2> SUFFICES ASSUME NEW j \in 1..L, k <= j, chunks[j] = <<p, n - 1>> PROVE FALSE
    BY <1>1 DEF Left, L
  <2>1. n - 1 \in Nat
    BY <1>9
  <2>2. j # k
    BY <1>3, <1>9
  <2>3. k < j
    BY <1>2, <2>2
  <2>4. n < n - 1
    BY <1>2, <1>3, <1>10, <2>1, <2>3
  <2> QED BY <1>9, <2>4
<1>14. NoSeam(s, p) \/ Follows(s, p, n)
  BY <1>9, <1>12, <1>13 DEF NoGap, Follows
<1>15. OneSeam'
  <2>1. \A m \in Nat : Got(s, <<p, m>>) => m <= n
    BY <1>9, <1>12
  <2> QED BY <1>4, <1>14, <2>1, CallOneSeam
<1>16. ASSUME ~Cleared PROVE Follows(s, p, n)
  <2>1. \A i \in 1..L, y \in Chunk : chunks[i] = y => (Got(s, y) <=> i < k)
    BY <1>1, <1>2, <1>16 DEF ReplayInv, ReplayExact, L
  <2>2. ~Got(s, <<p, n>>)
    BY <1>12
  <2>3. CASE n = 1
    BY <2>2, <2>3 DEF Follows
  <2>4. CASE n # 1
    <3>1. n - 1 \in 1..pushes[p] /\ n - 1 \in Nat
      BY <1>9, <2>4
    <3>2. PICK i \in 1..L : chunks[i] = <<p, n - 1>>
      BY <1>16, <3>1 DEF ChunksInOrder, L
    <3>3. ~(k <= i)
      BY <1>1, <1>13, <3>2 DEF Left, L
    <3>4. i < k
      BY <1>2, <3>3
    <3>5. <<p, n - 1>> \in Chunk
      BY <3>1
    <3> QED BY <2>1, <2>2, <3>2, <3>4, <3>5 DEF Follows
  <2> QED BY <2>3, <2>4
<1>17. NoSeamYet'
  <2> SUFFICES ASSUME NEW u \in Subscribers, NEW q \in Producers,
                      pc'[u] = "append" \/ (~Cleared' /\ pc'[u] \in {"idle", "replay", "check"})
               PROVE  NoSeam(u, q)'
    BY DEF NoSeamYet
  <2>1. NoSeam(u, q)
    BY <1>2 DEF ReplayInv, NoSeamYet
  <2>2. CASE u # s \/ q # p
    BY <1>7, <2>1, <2>2, CallNoSeam
  <2>3. CASE u = s /\ q = p
    <3>1. ~Cleared
      BY <1>2, <2>3
    <3>2. Follows(s, p, x[2])
      BY <1>7, <1>16, <3>1
    <3> QED BY <1>7, <2>1, <2>3, <3>2, CallNoSeam
  <2> QED BY <2>2, <2>3
<1>18. ReplayExact'
  <2>1. ASSUME NEW u \in Subscribers, pc'[u] = "idle" PROVE Len(log'[u]) = 0
    <3>1. u # s
      BY <1>2, <2>1
    <3>2. log'[u] = log[u]
      BY <1>7, <3>1, CallTyped
    <3> QED BY <1>2, <2>1, <3>2 DEF ReplayInv, ReplayExact
  <2>2. ASSUME NEW u \in Subscribers, ~Cleared', pc'[u] = "replay"
        PROVE  /\ pos'[u] <= L + 1
               /\ \A i \in 1..L, y \in Chunk : chunks[i] = y => (Got(u, y)' <=> i < pos'[u])
    <3>1. /\ pos[u] <= L + 1
          /\ \A i \in 1..L, y \in Chunk : chunks[i] = y => (Got(u, y) <=> i < pos[u])
      BY <1>2, <2>2 DEF ReplayInv, ReplayExact, L
    <3>2. CASE u # s
      BY <1>5, <1>8, <3>1, <3>2
    <3>3. CASE u = s
      <4>1. pos'[u] <= L + 1
        BY <1>2, <1>5, <3>3
      <4>2. ASSUME NEW i \in 1..L, NEW y \in Chunk, chunks[i] = y PROVE Got(s, y)' <=> i < k + 1
        <5>1. CASE i = k
          BY <1>2, <1>3, <1>6, <1>8, <4>2, <5>1
        <5>2. CASE i # k
          <6>1. y # x
            <7> SUFFICES ASSUME y = x PROVE FALSE
              OBVIOUS
            <7>1. i < k \/ k < i
              BY <1>2, <5>2
            <7>2. n < n
              BY <1>2, <1>3, <1>6, <1>10, <4>2, <7>1
            <7> QED BY <1>9, <7>2
          <6>2. Got(s, y)' <=> i < k
            BY <1>1, <1>8, <3>1, <3>3, <4>2, <6>1
          <6>3. i < k <=> i < k + 1
            BY <1>2, <5>2
          <6> QED BY <6>2, <6>3
        <5> QED BY <5>1, <5>2
      <4> QED BY <1>5, <3>3, <4>1, <4>2
    <3> QED BY <3>2, <3>3
  <2> QED BY <1>2, <2>1, <2>2 DEF ReplayExact, L
<1>19. ASSUME NEW u \in Subscribers, NEW q \in Producers, NEW l, u # s \/ q # p
       PROVE  NoGap(u, q, l) => NoGap(u, q, l)'
  <2>1. NoSeam(u, q)' <=> NoSeam(u, q)
    BY <1>7, <1>19, CallNoSeam
  <2>2. <<q, l>> = x => q = p
    BY <1>6
  <2>3. Left(u, <<q, l>>) => Left(u, <<q, l>>)'
    <3> SUFFICES ASSUME NEW j \in 1..L, pos[u] <= j, chunks[j] = <<q, l>>
                 PROVE  pos'[u] <= j
      BY <1>2 DEF Left, L
    <3>1. CASE u # s
      BY <1>5, <3>1
    <3>2. CASE u = s
      <4>1. j # k
        BY <1>3, <1>19, <3>2
      <4> QED BY <1>1, <1>2, <1>5, <3>2, <4>1
    <3> QED BY <3>1, <3>2
  <2> QED BY <1>8, <2>1, <2>2, <2>3 DEF NoGap
<1>20. ASSUME NEW l \in n..pushes[p] PROVE NoGap(s, p, l)'
  <2>1. PICK j \in k..L : chunks[j] = <<p, l>>
    BY <1>11, <1>20
  <2>2. CASE j = k
    <3>1. Got(s, <<p, l>>)'
      BY <1>3, <1>6, <1>8, <2>1, <2>2
    <3> QED BY <3>1 DEF NoGap
  <2>3. CASE j # k
    <3>1. j \in 1..L /\ k + 1 <= j
      BY <1>2, <2>1, <2>3
    <3>2. Left(s, <<p, l>>)'
      BY <1>2, <1>5, <2>1, <3>1 DEF Left, L
    <3> QED BY <3>2 DEF NoGap
  <2> QED BY <2>2, <2>3
<1>21. ReplayGoesOn'
  <2> SUFFICES ASSUME NEW u \in Subscribers, NEW q \in Producers, NEW l \in Nat, pc'[u] = "replay"
               PROVE  /\ \A j \in 1..L : pos'[u] <= j /\ chunks[j] = <<q, l>> =>
                            /\ \A m \in Nat : Got(u, <<q, m>>)' => m < l
                            /\ NoGap(u, q, l - 1)'
                      /\ l = pushes[q] => NoGap(u, q, l)'
                      /\ NoSeam(u, q)' \/ pos'[u] <= L + 1
    BY <1>2 DEF ReplayGoesOn, L
  <2>1. /\ \A j \in 1..L : pos[u] <= j /\ chunks[j] = <<q, l>> =>
              /\ \A m \in Nat : Got(u, <<q, m>>) => m < l
              /\ NoGap(u, q, l - 1)
        /\ l = pushes[q] => NoGap(u, q, l)
        /\ NoSeam(u, q) \/ pos[u] <= L + 1
    BY <1>2 DEF ReplayInv, ReplayGoesOn, L
  <2>2. pos[u] <= pos'[u] /\ pos[u] \in Nat
    BY <1>1, <1>2, <1>5, ListTyped
  <2>3. NoSeam(u, q)' \/ pos'[u] <= L + 1
    <3>1. CASE u = s
      BY <1>2, <1>5, <3>1
    <3>2. CASE u # s
      <4>1. NoSeam(u, q)' <=> NoSeam(u, q)
        BY <1>7, <3>2, CallNoSeam
      <4> QED BY <1>5, <2>1, <3>2, <4>1
    <3> QED BY <3>1, <3>2
  <2>4. CASE u # s \/ q # p
    <3>1. \A m \in Nat : Got(u, <<q, m>>)' => Got(u, <<q, m>>)
      BY <1>6, <1>8, <2>4
    <3>2. ASSUME NEW j \in 1..L, pos'[u] <= j, chunks[j] = <<q, l>>
          PROVE  (\A m \in Nat : Got(u, <<q, m>>)' => m < l) /\ NoGap(u, q, l - 1)'
      <4>1. pos[u] <= j
        BY <1>2, <1>5, <2>2, <3>2, ListTyped
      <4> QED BY <1>19, <2>1, <2>4, <3>1, <3>2, <4>1
    <3>3. l = pushes[q] => NoGap(u, q, l)'
      BY <1>19, <2>1, <2>4
    <3> QED BY <2>3, <3>2, <3>3
  <2>5. CASE u = s /\ q = p
    <3>1. ASSUME NEW j \in 1..L, k + 1 <= j, chunks[j] = <<p, l>>
          PROVE  (\A m \in Nat : Got(s, <<p, m>>)' => m < l) /\ NoGap(s, p, l - 1)'
      <4>1. k < j
        BY <1>2, <3>1
      <4>2. n < l
        BY <1>2, <1>3, <1>10, <3>1, <4>1
      <4>3. \A m \in Nat : Got(s, <<p, m>>)' => m < l
        <5> SUFFICES ASSUME NEW m \in Nat, Got(s, <<p, m>>)' PROVE m < l
          OBVIOUS
        <5>1. Got(s, <<p, m>>) \/ m = n
          BY <1>6, <1>8
        <5>2. m <= n
          BY <1>12, <5>1
        <5> QED BY <4>2, <5>2
      <4>4. l \in 1..pushes[p]
        <5>1. chunks[j][1] = p /\ chunks[j][2] = l
          BY <3>1
        <5> QED BY <5>1 DEF ChunksInOrder, L
      <4>5. l - 1 \in n..pushes[p]
        BY <1>9, <4>2, <4>4
      <4> QED BY <1>20, <4>3, <4>5
    <3>2. l = pushes[p] => NoGap(s, p, l)'
      BY <1>9, <1>20
    <3> QED BY <1>5, <2>3, <2>5, <3>1, <3>2
  <2> QED BY <2>4, <2>5
<1> QED BY <1>15, <1>17, <1>18, <1>21 DEF ReplayInv

(* The observers are told by producers and closers, and have joined. *)
LEMMA LoopCalls ==
    ASSUME CloseInv, NEW t \in Thread, t \notin Subscribers, NEW x \in Chunk \cup {End},
           pos[t] <= Len(observers), Call(observers[pos[t]], x), Turn(t), pc' = pc
    PROVE  \A s \in Subscribers : pc'[s] \in Outside =>
               log'[s] = log[s] /\ pc'[s] = pc[s] /\ pos'[s] = pos[s]
<1>1. PICK i : i = pos[t]
  OBVIOUS
<1>2. TypeOK /\ i \in 1..Len(observers) /\ observers[i] \in Subscribers
  <2>1. TypeOK /\ pos[t] \in Nat \ {0}
    BY DEF CloseInv, TypeOK
  <2>2. observers \in Seq(Subscribers) /\ Len(observers) \in Nat
    BY LenProperties DEF CloseInv, TypeOK
  <2> QED BY <1>1, <2>1, <2>2
<1>3. PICK o \in Subscribers : o = observers[i]
  BY <1>2
<1>4. Call(o, x)
  BY <1>1, <1>3
<1>5. \A s \in Subscribers : s # o => log'[s] = log[s]
  BY <1>2, <1>4, CallTyped
<1>6. \A s \in Subscribers : pc[s] \in Outside => s # o
  BY <1>2, <1>3 DEF CloseInv, OutsideUntold, Outside
<1>7. \A s \in Subscribers : pos'[s] = pos[s]
  BY <1>2 DEF Turn, TypeOK
<1> QED BY <1>5, <1>6, <1>7

(* What is said of the replays is kept by every step: one clearing at most *)
(* can come between two turns of a replay.                                 *)
LEMMA ReplayStep ==
    ASSUME CloseInv, OneDisposer, ClearedLast, ChunksInOrder, OnlyPushed, ReplayInv, OneSeam,
           [Next]_vars
    PROVE  ReplayInv'
<1>0. TypeOK /\ pc \in [Thread -> Pc] /\ pos \in [Thread -> Nat \ {0}]
  BY DEF CloseInv, TypeOK
<1>1. CASE \E d \in Disposers : Clear(d)
  BY <1>0, <1>1, ClearReplay
<1>2. CASE ~\E d \in Disposers : Clear(d)
  <2>0. Cleared' <=> Cleared
    BY <1>2, ListNext
  <2>1. ASSUME NEW p \in Producers, Push(p) PROVE ReplayInv'
    BY <1>0, <2>0, <2>1, PushReplay
  <2>2. ASSUME NEW p \in Producers, ProducerStep(p) PROVE ReplayInv'
    <3>0. chunks' = chunks /\ pushes' = pushes
      BY <2>2 DEF ProducerStep, FireNext, PushEnd
    <3>1. CASE FireNext(p)
      <4>1. PICK x : x = <<p, pushes[p]>>
        OBVIOUS
      <4>2. x \in Chunk
        BY <1>0, <4>1, ListTyped
      <4>3. pos[p] <= Len(observers) /\ Call(observers[pos[p]], x) /\ Turn(p) /\ pc' = pc
        BY <3>1, <4>1 DEF FireNext, AtTurn
      <4>4. \A s \in Subscribers : pc'[s] \in Outside =>
               log'[s] = log[s] /\ pc'[s] = pc[s] /\ pos'[s] = pos[s]
        BY <4>2, <4>3, LoopCalls
      <4> QED BY <2>0, <3>0, <4>4, ReplayFrame
    <3>2. CASE PushEnd(p)
      <4>1. log' = log /\ pos' = pos /\ \A s \in Subscribers : pc'[s] = pc[s]
        BY <1>0, <3>2 DEF PushEnd, Goto
      <4> QED BY <2>0, <3>0, <4>1, ReplayFrame
    <3> QED BY <2>2, <3>1, <3>2 DEF ProducerStep
  <2>3. ASSUME NEW t \in Closers, Close(t) PROVE ReplayInv'
    <3>1. log' = log /\ chunks' = chunks /\ pushes' = pushes
      BY <2>3 DEF Close
    <3>2. \A s \in Subscribers : pos'[s] = pos[s]
      BY <1>0, <2>3 DEF Close
    <3>3. ASSUME NEW s \in Subscribers, pc'[s] \in Outside PROVE pc'[s] = pc[s]
      <4>1. CASE closed
        BY <1>0, <2>3, <4>1 DEF Close, Goto
      <4>2. CASE ~closed
        <5>1. pc' = Woken(t)
          BY <2>3, <4>2 DEF Close
        <5> QED BY <3>3, <5>1 DEF Woken, Outside
      <4> QED BY <4>1, <4>2
    <3> QED BY <2>0, <3>1, <3>2, <3>3, ReplayFrame
  <2>4. ASSUME NEW t \in Closers, CloserStep(t) PROVE ReplayInv'
    <3>1. CASE CloseNext(t)
      <4>1. pos[t] <= Len(observers) /\ Call(observers[pos[t]], End) /\ Turn(t) /\ pc' = pc
        BY <3>1 DEF CloseNext, AtTurn
      <4>2. \A s \in Subscribers : pc'[s] \in Outside =>
               log'[s] = log[s] /\ pc'[s] = pc[s] /\ pos'[s] = pos[s]
        BY <4>1, LoopCalls
      <4>3. chunks' = chunks /\ pushes' = pushes
        BY <3>1 DEF CloseNext
      <4> QED BY <2>0, <4>2, <4>3, ReplayFrame
    <3>2. CASE CloseEnd(t)
      <4>1. /\ log' = log /\ pos' = pos /\ chunks' = chunks /\ pushes' = pushes
            /\ \A s \in Subscribers : pc'[s] = pc[s]
        BY <1>0, <3>2 DEF CloseEnd, Goto
      <4> QED BY <2>0, <4>1, ReplayFrame
    <3>3. CASE Clear(t)
      <4>1. t \in Disposers
        BY <3>3 DEF Clear, ClearedLast
      <4> QED BY <1>2, <3>3, <4>1
    <3> QED BY <2>4, <3>1, <3>2, <3>3 DEF CloserStep
  <2>5. ASSUME NEW s \in Subscribers, Subscribe(s) PROVE ReplayInv'
    BY <1>0, <2>0, <2>5, SubscribeReplay
  <2>6. ASSUME NEW s \in Subscribers, SubscriberStep(s) PROVE ReplayInv'
    <3>1. CASE ReplayNext(s)
      BY <1>0, <2>0, <3>1, ReplayNextReplay
    <3>2. CASE ReplayEnd(s)
      <4>1. /\ log' = log /\ pos' = pos /\ chunks' = chunks /\ pushes' = pushes
            /\ pc[s] = "replay" /\ pc'[s] = "check"
            /\ \A u \in Subscribers : u # s => pc'[u] = pc[u]
        BY <1>0, <3>2 DEF ReplayEnd, AtExit, Goto
      <4> QED BY <2>0, <4>1, ReplayFrame
    <3>3. CASE CheckClosed(s)
      <4>1. /\ pos' = pos /\ chunks' = chunks /\ pushes' = pushes /\ pc[s] = "check"
            /\ Goto(s, IF closed THEN AfterSubscribe(s) ELSE "append")
        BY <3>3 DEF CheckClosed
      <4>2. \A u \in Subscribers : u # s => pc'[u] = pc[u]
        BY <1>0, <4>1 DEF Goto
      <4>3. CASE closed
        <5>1. Call(s, End)
          BY <3>3, <4>3 DEF CheckClosed
        <5>2. \A u \in Subscribers : u # s => log'[u] = log[u]
          BY <1>0, <5>1, CallTyped
        <5>3. pc'[s] \notin Outside
          BY <1>0, <4>1, <4>3 DEF Goto, AfterSubscribe, Outside
        <5> QED BY <2>0, <4>1, <4>2, <5>2, <5>3, ReplayFrame
      <4>4. CASE ~closed
        <5>1. log' = log
          BY <3>3, <4>4 DEF CheckClosed
        <5>2. pc'[s] = "append"
          BY <1>0, <4>1, <4>4 DEF Goto
        <5>3. ~Cleared
          BY <4>4 DEF Cleared, ClearedLast
        <5> QED BY <2>0, <4>1, <4>2, <5>1, <5>2, <5>3, ReplayFrame
      <4> QED BY <4>3, <4>4
    <3>4. CASE AppendObserver(s)
      <4>1. /\ log' = log /\ pos' = pos /\ chunks' = chunks /\ pushes' = pushes
            /\ pc'[s] \notin Outside
            /\ \A u \in Subscribers : u # s => pc'[u] = pc[u]
        BY <1>0, <3>4 DEF AppendObserver, Goto, AfterSubscribe, Outside
      <4> QED BY <2>0, <4>1, ReplayFrame
    <3>5. CASE WaitClose(s)
      <4>1. /\ log' = log /\ pos' = pos /\ chunks' = chunks /\ pushes' = pushes
            /\ pc'[s] \notin Outside
            /\ \A u \in Subscribers : u # s => pc'[u] = pc[u]
        BY <1>0, <3>5 DEF WaitClose, Goto, Outside
      <4> QED BY <2>0, <4>1, ReplayFrame
    <3> QED BY <2>6, <3>1, <3>2, <3>3, <3>4, <3>5 DEF SubscriberStep
  <2>7. CASE UNCHANGED vars
    <3>1. log' = log /\ pos' = pos /\ pc' = pc /\ chunks' = chunks /\ pushes' = pushes
      BY <2>7 DEF vars
    <3> QED BY <2>0, <3>1, ReplayFrame
  <2> QED BY <2>1, <2>2, <2>3, <2>4, <2>5, <2>6, <2>7 DEF Next
<1> QED BY <1>1, <1>2

-----------------------------------------------------------------------------
(* Who has joined. *)

Joined(s) == \E i \in 1..Len(observers) : observers[i] = s

(* Observers that are given nothing, and pushes that do not move on, leave *)
(* what is said of who has joined.                                         *)
LEMMA LiveFrame ==
    ASSUME LiveGoesOn, TypeOK, EndIsLast,
           \A i \in 1..Len(observers') :
               /\ i \in 1..Len(observers) /\ observers'[i] = observers[i]
               /\ \A p \in Producers : Fresh(i, p)' = Fresh(i, p),
           \A s \in Subscribers, p \in Producers : Joined(s) =>
               /\ \A n \in Nat : Got(s, <<p, n>>)' <=> Got(s, <<p, n>>)
               /\ NoSeam(s, p)' <=> NoSeam(s, p)
    PROVE  LiveGoesOn'
<1> SUFFICES ASSUME NEW i \in 1..Len(observers'), NEW s \in Subscribers, NEW p \in Producers,
                    NEW n \in Nat, observers'[i] = s, n = Fresh(i, p)'
             PROVE  NoSeam(s, p)' \/ (Got(s, <<p, n - 1>>)' /\ ~Got(s, <<p, n>>)')
  BY DEF LiveGoesOn
<1>1. i \in 1..Len(observers) /\ observers[i] = s /\ n = Fresh(i, p)
  OBVIOUS
<1>2. Joined(s)
  BY <1>1 DEF Joined
<1>3. NoSeam(s, p) \/ (Got(s, <<p, n - 1>>) /\ ~Got(s, <<p, n>>))
  BY <1>1 DEF LiveGoesOn
<1>4. pushes[p] \in Nat /\ (pc[p] = "push" => pushes[p] > 0)
  BY ListTyped DEF EndIsLast
<1>5. n - 1 \in Nat
  BY <1>1, <1>4 DEF Fresh, Due
<1> QED BY <1>2, <1>3, <1>5

(* What a producer has fresh for an observer depends on its place and      *)
(* count.                                                                  *)
LEMMA SameFresh ==
    ASSUME NEW i, NEW p \in Producers, pushes' = pushes,
           pc'[p] = "push" <=> pc[p] = "push", pc[p] = "push" => pos'[p] = pos[p]
    PROVE  Fresh(i, p)' = Fresh(i, p)
BY DEF Fresh, Due

(* A step that calls no observer of its own. *)
LEMMA LiveQuiet ==
    ASSUME LiveGoesOn, TypeOK, EndIsLast, pushes' = pushes,
           observers' = observers \/ observers' = <<>>,
           \A s \in Subscribers : Joined(s) => log'[s] = log[s],
           \A p \in Producers : /\ pc'[p] = "push" <=> pc[p] = "push"
                                /\ pc[p] = "push" => pos'[p] = pos[p]
    PROVE  LiveGoesOn'
<1>1. \A i \in 1..Len(observers') : i \in 1..Len(observers) /\ observers'[i] = observers[i]
  <2>1. observers' = <<>> => 1..Len(observers') = {}
    OBVIOUS
  <2> QED BY <2>1
<1>2. \A i \in 1..Len(observers') : \A p \in Producers : Fresh(i, p)' = Fresh(i, p)
  BY SameFresh
<1>3. \A s \in Subscribers, p \in Producers : Joined(s) =>
        /\ \A n : Got(s, <<p, n>>)' <=> Got(s, <<p, n>>)
        /\ NoSeam(s, p)' <=> NoSeam(s, p)
  BY SameGot
<1> QED BY <1>1, <1>2, <1>3, LiveFrame

(* A push makes its chunk due to everybody who has joined. *)
LEMMA PushLive ==
    ASSUME TypeOK, LiveGoesOn, EndIsLast, NEW p \in Producers, Push(p)
    PROVE  LiveGoesOn'
<1>1. /\ pc[p] = "idle" /\ pc' = [pc EXCEPT ![p] = "push"] /\ pos' = [pos EXCEPT ![p] = 1]
      /\ pushes' = [pushes EXCEPT ![p] = @ + 1] /\ observers' = observers /\ log' = log
  BY PushDoes
<1>2. \A q \in Producers : pushes[q] \in Nat
  BY ListTyped
<1>3. ASSUME NEW i \in 1..Len(observers), NEW q \in Producers PROVE Fresh(i, q)' = Fresh(i, q)
  <2>1. CASE q = p
    <3>1. pc'[p] = "push" /\ pos'[p] = 1 /\ pushes'[p] = pushes[p] + 1
      BY <1>1 DEF TypeOK
    <3>2. Due(i, p)' /\ ~Due(i, p)
      BY <1>1, <3>1 DEF Due
    <3> QED BY <2>1, <3>1, <3>2 DEF Fresh
  <2>2. CASE q # p
    <3>1. pc'[q] = pc[q] /\ pos'[q] = pos[q] /\ pushes'[q] = pushes[q]
      BY <1>1, <2>2 DEF TypeOK
    <3> QED BY <3>1 DEF Fresh, Due
  <2> QED BY <2>1, <2>2
<1>4. \A s \in Subscribers, q \in Producers :
        /\ \A n : Got(s, <<q, n>>)' <=> Got(s, <<q, n>>)
        /\ NoSeam(s, q)' <=> NoSeam(s, q)
  BY <1>1, SameGot
<1> QED BY <1>1, <1>3, <1>4, LiveFrame

(* An observer that has missed something already is called with the chunk  *)
(* after its last.                                                         *)
LEMMA FireNextLive ==
    ASSUME CloseInv, LiveGoesOn, OnlyPushed, EndIsLast, OneSeam, NEW p \in Producers, FireNext(p)
    PROVE  LiveGoesOn' /\ OneSeam'
<1>0. TypeOK /\ pos \in [Thread -> Nat \ {0}] /\ \A q \in Producers : pushes[q] \in Nat
  BY ListTyped DEF CloseInv, TypeOK
<1>1. PICK k : k = pos[p]
  OBVIOUS
<1>2. PICK m \in Nat : m = pushes[p]
  BY <1>0
<1>3. /\ k \in 1..Len(observers) /\ Len(observers) \in Nat /\ pc[p] = "push" /\ pc' = pc
      /\ observers' = observers /\ pushes' = pushes /\ pos' = [pos EXCEPT ![p] = @ + 1]
  <2>1. observers \in Seq(Subscribers) /\ Len(observers) \in Nat /\ k \in Nat \ {0}
    BY <1>0, <1>1, LenProperties DEF TypeOK
  <2> QED BY <1>1, <2>1 DEF FireNext, AtTurn, Turn
<1>4. PICK o \in Subscribers : o = observers[k]
  BY <1>0, <1>3 DEF TypeOK
<1>5. PICK x \in Chunk : x = <<p, m>>
  OBVIOUS
<1>6. x[1] = p /\ x[2] = m /\ x # End /\ Call(o, x)
  <2>1. x[1] = p /\ x[2] = m
    BY ONLY <1>5
  <2> QED BY <1>1, <1>2, <1>4, <1>5, <2>1, ChunkIsNotEnd DEF FireNext
<1>7. \A u \in Subscribers : \A y : Got(u, y)' <=> Got(u, y) \/ (u = o /\ y = x)
  BY <1>0, <1>6, CallGot
<1>8. pos'[p] = k + 1 /\ \A q \in Producers : q # p => pos'[q] = pos[q]
  BY <1>0, <1>1, <1>3
<1>9. \A n \in Nat : Got(o, <<p, n>>) => n \in 1..m
  BY <1>2 DEF OnlyPushed
<1>10. m > 0
  BY <1>2, <1>3 DEF EndIsLast
<1>11. NoSeam(o, p) \/ Follows(o, p, m)
  <2>1. Fresh(k, p) = m
    BY <1>0, <1>1, <1>2, <1>3 DEF Fresh, Due
  <2>2. NoSeam(o, p) \/ (Got(o, <<p, m - 1>>) /\ ~Got(o, <<p, m>>))
    BY <1>3, <1>4, <2>1 DEF LiveGoesOn
  <2> QED BY <2>2 DEF Follows
<1>12. OneSeam'
  <2>1. \A n \in Nat : Got(o, <<p, n>>) => n <= m
    BY <1>9
  <2>2. Call(o, <<p, m>>)
    BY <1>5, <1>6
  <2> QED BY <1>0, <1>11, <2>1, <2>2, CallOneSeam
<1>13. LiveGoesOn'
  <2> SUFFICES ASSUME NEW i \in 1..Len(observers), NEW s \in Subscribers, NEW q \in Producers,
                      NEW n \in Nat, observers[i] = s, n = Fresh(i, q)'
               PROVE  NoSeam(s, q)' \/ (Got(s, <<q, n - 1>>)' /\ ~Got(s, <<q, n>>)')
    BY <1>3 DEF LiveGoesOn
  <2>1. CASE q # p \/ i # k
    <3>1. q # p \/ s # o
      BY <1>3, <1>4, <2>1 DEF CloseInv, JoinedOnce
    <3>2. n = Fresh(i, q)
      <4>1. CASE q # p
        BY <1>3, <1>8, <4>1 DEF Fresh, Due
      <4>2. CASE q = p /\ i # k
        <5>1. pos'[p] <= i <=> pos[p] <= i
          BY <1>1, <1>3, <1>8, <4>2
        <5> QED BY <1>3, <4>2, <5>1 DEF Fresh, Due
      <4> QED BY <2>1, <4>1, <4>2
    <3>3. NoSeam(s, q) \/ (Got(s, <<q, n - 1>>) /\ ~Got(s, <<q, n>>))
      BY <3>2 DEF LiveGoesOn
    <3>4. NoSeam(s, q)' <=> NoSeam(s, q)
      BY <1>0, <1>6, <3>1, CallNoSeam
    <3>5. \A l : Got(s, <<q, l>>)' <=> Got(s, <<q, l>>)
      BY <1>5, <1>7, <3>1
    <3> QED BY <3>3, <3>4, <3>5
  <2>2. CASE q = p /\ i = k
    <3>1. n = m + 1
      <4>1. ~Due(k, p)'
        BY <1>3, <1>8 DEF Due
      <4> QED BY <1>2, <1>3, <2>2, <4>1 DEF Fresh
    <3>2. n - 1 = m
      BY <3>1
    <3>3. Got(o, <<p, m>>)'
      BY <1>5, <1>7
    <3>4. ~Got(o, <<p, n>>)'
      <4>1. ~Got(o, <<p, n>>)
        BY <1>9, <3>1
      <4>2. <<p, n>> # x
        BY <1>5, <3>1
      <4> QED BY <1>7, <4>1, <4>2
    <3> QED BY <1>4, <2>2, <3>2, <3>3, <3>4
  <2> QED BY <2>1, <2>2
<1> QED BY <1>12, <1>13

(* A call of on_close makes no seam. *)
LEMMA CloseNextLive ==
    ASSUME CloseInv, LiveGoesOn, EndIsLast, OneSeam, NEW t \in Closers, CloseNext(t)
    PROVE  LiveGoesOn' /\ OneSeam'
<1>0. TypeOK /\ pos \in [Thread -> Nat \ {0}]
  BY DEF CloseInv, TypeOK
<1>1. PICK o : o = observers[pos[t]]
  OBVIOUS
<1>2. o \in Subscribers /\ Call(o, End)
  BY <1>1 DEF CloseNext, AtTurn, CloseInv, TypeOK
<1>3. /\ pc[t] = "close" /\ pc' = pc /\ observers' = observers /\ pushes' = pushes
      /\ pos' = [pos EXCEPT ![t] = @ + 1]
  BY DEF CloseNext, AtTurn, Turn
<1>4. \A i \in 1..Len(observers) : \A p \in Producers : Fresh(i, p)' = Fresh(i, p)
  <2> SUFFICES ASSUME NEW p \in Producers
               PROVE  (pc'[p] = "push" <=> pc[p] = "push") /\ (pc[p] = "push" => pos'[p] = pos[p])
    BY <1>3, SameFresh
  <2> QED BY <1>0, <1>3
<1>5. \A s \in Subscribers, p \in Producers :
        /\ \A n \in Nat : Got(s, <<p, n>>)' <=> Got(s, <<p, n>>)
        /\ NoSeam(s, p)' <=> NoSeam(s, p)
  <2> SUFFICES ASSUME NEW s \in Subscribers, NEW p \in Producers
               PROVE  /\ \A n \in Nat : Got(s, <<p, n>>)' <=> Got(s, <<p, n>>)
                      /\ NoSeam(s, p)' <=> NoSeam(s, p)
    OBVIOUS
  <2>1. NoSeam(s, p)' <=> NoSeam(s, p)
    BY <1>0, <1>2, CallNoSeam
  <2>2. \A y : Got(s, y)' <=> Got(s, y) \/ (s = o /\ y = End)
    BY <1>0, <1>2, CallGot
  <2>3. \A n \in Nat : <<p, n>> \in Chunk
    OBVIOUS
  <2> QED BY <2>1, <2>2, <2>3, ChunkIsNotEnd
<1>6. LiveGoesOn'
  BY <1>0, <1>3, <1>4, <1>5, LiveFrame
<1> QED BY <1>0, <1>2, <1>6, CallEndSeam

(* Who joins has no seam yet, so whatever it has missed makes its first. *)
LEMMA AppendLive ==
    ASSUME TypeOK, LiveGoesOn, NoSeamYet, NEW s \in Subscribers, AppendObserver(s)
    PROVE  LiveGoesOn'
<1>1. /\ observers \in Seq(Subscribers) /\ Len(observers) \in Nat
      /\ observers' = Append(observers, s) /\ log' = log /\ pos' = pos /\ pushes' = pushes
      /\ pc[s] = "append"
  BY LenProperties DEF AppendObserver, TypeOK
<1>2. \A q \in Producers : pc'[q] = pc[q]
  BY DEF AppendObserver, Goto, TypeOK
<1>3. /\ Len(observers') = Len(observers) + 1
      /\ observers'[Len(observers) + 1] = s
      /\ \A i \in 1..Len(observers) : observers'[i] = observers[i]
  BY <1>1, AppendProperties
<1> SUFFICES ASSUME NEW i \in 1..Len(observers'), NEW u \in Subscribers, NEW p \in Producers,
                    NEW n \in Nat, observers'[i] = u, n = Fresh(i, p)'
             PROVE  NoSeam(u, p)' \/ (Got(u, <<p, n - 1>>)' /\ ~Got(u, <<p, n>>)')
  BY DEF LiveGoesOn
<1>4. (NoSeam(u, p)' <=> NoSeam(u, p)) /\ \A y : Got(u, y)' <=> Got(u, y)
  BY <1>1, SameGot
<1>5. CASE i \in 1..Len(observers)
  <2>1. n = Fresh(i, p)
    BY <1>1, <1>2, SameFresh
  <2> QED BY <1>3, <1>4, <1>5, <2>1 DEF LiveGoesOn
<1>6. CASE i = Len(observers) + 1
  <2>1. u = s
    BY <1>3, <1>6
  <2>2. NoSeam(s, p)
    BY <1>1 DEF NoSeamYet
  <2> QED BY <1>4, <2>1, <2>2
<1> QED BY <1>1, <1>3, <1>5, <1>6

(* What is said of who has joined is kept by every step, and no observer   *)
(* gets a second seam.                                                     *)
LEMMA LiveStep ==
    ASSUME CloseInv, ClearedLast, ChunksInOrder, OnlyPushed, ReplayInv, LiveGoesOn, EndIsLast,
           OneSeam, [Next]_vars
    PROVE  LiveGoesOn' /\ OneSeam'
<1>0. TypeOK /\ pc \in [Thread -> Pc] /\ pos \in [Thread -> Nat \ {0}]
  BY DEF CloseInv, TypeOK
<1>1. ASSUME log' = log PROVE OneSeam'
  BY <1>1, SameGot DEF OneSeam
<1>2. \A s \in Subscribers : Joined(s) => pc[s] \notin Outside
  BY DEF Joined, CloseInv, OutsideUntold, Outside
<1>3. ASSUME NEW p \in Producers, Push(p) PROVE LiveGoesOn' /\ OneSeam'
  BY <1>0, <1>1, <1>3, PushDoes, PushLive
<1>4. ASSUME NEW p \in Producers, ProducerStep(p) PROVE LiveGoesOn' /\ OneSeam'
  <2>1. CASE FireNext(p)
    BY <2>1, FireNextLive
  <2>2. CASE PushEnd(p)
    <3>1. /\ pc[p] = "push" /\ pos[p] > Len(observers) /\ pc' = [pc EXCEPT ![p] = "idle"]
          /\ pos' = pos /\ log' = log /\ observers' = observers /\ pushes' = pushes
      BY <2>2 DEF PushEnd, AtExit, Goto
    <3>2. pos[p] \in Nat /\ Len(observers) \in Nat
      BY <1>0, LenProperties DEF TypeOK
    <3>3. ASSUME NEW i \in 1..Len(observers), NEW q \in Producers PROVE Fresh(i, q)' = Fresh(i, q)
      <4>1. CASE q = p
        <5>1. ~Due(i, p)
          BY <3>1, <3>2 DEF Due
        <5>2. ~Due(i, p)'
          BY <1>0, <3>1 DEF Due
        <5> QED BY <3>1, <4>1, <5>1, <5>2 DEF Fresh
      <4>2. CASE q # p
        BY <1>0, <3>1, <4>2 DEF Fresh, Due
      <4> QED BY <4>1, <4>2
    <3>4. \A s \in Subscribers, q \in Producers :
            /\ \A n \in Nat : Got(s, <<q, n>>)' <=> Got(s, <<q, n>>)
            /\ NoSeam(s, q)' <=> NoSeam(s, q)
      BY <3>1, SameGot
    <3> QED BY <1>0, <1>1, <3>1, <3>3, <3>4, LiveFrame
  <2> QED BY <1>4, <2>1, <2>2 DEF ProducerStep
<1>5. ASSUME NEW t \in Closers, Close(t) PROVE LiveGoesOn' /\ OneSeam'
  <2>1. log' = log /\ pushes' = pushes /\ observers' = observers /\ pc[t] = "idle"
    BY <1>5 DEF Close
  <2>2. ASSUME NEW p \in Producers
        PROVE  (pc'[p] = "push" <=> pc[p] = "push") /\ (pc[p] = "push" => pos'[p] = pos[p])
    <3>1. CASE closed
      BY <1>0, <1>5, <2>1, <3>1 DEF Close, Goto
    <3>2. CASE ~closed
      <4>1. pc' = Woken(t) /\ pos' = [pos EXCEPT ![t] = 1]
        BY <1>5, <3>2 DEF Close
      <4> QED BY <1>0, <2>1, <4>1 DEF Woken
    <3> QED BY <3>1, <3>2
  <2> QED BY <1>0, <1>1, <2>1, <2>2, LiveQuiet
<1>6. ASSUME NEW t \in Closers, CloserStep(t) PROVE LiveGoesOn' /\ OneSeam'
  <2>1. CASE CloseNext(t)
    BY <2>1, CloseNextLive
  <2>2. CASE CloseEnd(t)
    <3>1. /\ log' = log /\ pushes' = pushes /\ observers' = <<>> /\ pos' = pos /\ pc[t] = "close"
          /\ pc' = [pc EXCEPT ![t] = IF t \in Disposers THEN "clear" ELSE "done"]
      BY <2>2 DEF CloseEnd, AtExit, Goto
    <3>2. \A p \in Producers : pc'[p] = "push" <=> pc[p] = "push"
      BY <1>0, <3>1
    <3> QED BY <1>0, <1>1, <3>1, <3>2, LiveQuiet
  <2>3. CASE Clear(t)
    <3>1. /\ log' = log /\ pushes' = pushes /\ observers' = observers /\ pos' = pos
          /\ pc[t] = "clear" /\ pc' = [pc EXCEPT ![t] = "done"]
      BY <2>3 DEF Clear, Goto
    <3>2. \A p \in Producers : pc'[p] = "push" <=> pc[p] = "push"
      BY <1>0, <3>1
    <3> QED BY <1>0, <1>1, <3>1, <3>2, LiveQuiet
  <2> QED BY <1>6, <2>1, <2>2, <2>3 DEF CloserStep
<1>7. ASSUME NEW s \in Subscribers, Subscribe(s) PROVE LiveGoesOn' /\ OneSeam'
  <2>1. /\ log' = log /\ pushes' = pushes /\ observers' = observers
        /\ \A p \in Producers : pc'[p] = pc[p] /\ pos'[p] = pos[p]
    BY <1>0, <1>7 DEF Subscribe, StartLoop, Goto
  <2> QED BY <1>0, <1>1, <2>1, LiveQuiet
<1>8. ASSUME NEW s \in Subscribers, SubscriberStep(s) PROVE LiveGoesOn' /\ OneSeam'
  <2>1. CASE ReplayNext(s)
    <3>1. /\ pushes' = pushes /\ observers' = observers /\ pc' = pc /\ pc[s] = "replay"
          /\ pos' = [pos EXCEPT ![s] = @ + 1] /\ chunks' = chunks
      BY <2>1 DEF ReplayNext, AtTurn, Turn
    <3>2. \A u \in Subscribers : u # s => log'[u] = log[u]
      <4>1. PICK k : k = pos[s]
        OBVIOUS
      <4>2. k \in 1..Len(chunks)
        BY <1>0, <2>1, <4>1, ListTyped DEF ReplayNext, AtTurn
      <4>3. PICK x \in Chunk : x = chunks[k]
        BY <1>0, <4>2, ListTyped
      <4>4. Call(s, x)
        BY <2>1, <4>1, <4>3 DEF ReplayNext
      <4> QED BY <1>0, <4>4, CallTyped
    <3>3. \A u \in Subscribers : Joined(u) => u # s
      BY <1>2, <3>1 DEF Outside
    <3>4. \A p \in Producers : pos'[p] = pos[p]
      BY <1>0, <3>1
    <3>5. LiveGoesOn'
      BY <1>0, <3>1, <3>2, <3>3, <3>4, LiveQuiet
    <3>6. Cleared' <=> Cleared
      BY <3>1 DEF Cleared
    <3> QED BY <1>0, <2>1, <3>5, <3>6, ReplayNextReplay
  <2>2. CASE ReplayEnd(s)
    <3>1. /\ log' = log /\ pushes' = pushes /\ observers' = observers
          /\ \A p \in Producers : pc'[p] = pc[p] /\ pos'[p] = pos[p]
      BY <1>0, <2>2 DEF ReplayEnd, Goto
    <3> QED BY <1>0, <1>1, <3>1, LiveQuiet
  <2>3. CASE CheckClosed(s)
    <3>1. /\ pushes' = pushes /\ observers' = observers /\ pos' = pos /\ pc[s] = "check"
          /\ Goto(s, IF closed THEN AfterSubscribe(s) ELSE "append")
          /\ log' = log \/ Call(s, End)
      BY <2>3 DEF CheckClosed
    <3>2. \A u \in Subscribers : u # s => log'[u] = log[u]
      BY <1>0, <3>1, CallTyped
    <3>3. \A u \in Subscribers : Joined(u) => u # s
      BY <1>2, <3>1 DEF Outside
    <3>4. \A p \in Producers : pc'[p] = pc[p]
      BY <1>0, <3>1 DEF Goto
    <3>5. LiveGoesOn'
      BY <1>0, <3>1, <3>2, <3>3, <3>4, LiveQuiet
    <3> QED BY <1>0, <1>1, <3>1, <3>5, CallEndSeam
  <2>4. CASE AppendObserver(s)
    BY <1>0, <1>1, <2>4, AppendLive DEF ReplayInv, AppendObserver
  <2>5. CASE WaitClose(s)
    <3>1. /\ log' = log /\ pushes' = pushes /\ observers' = observers
          /\ \A p \in Producers : pc'[p] = pc[p] /\ pos'[p] = pos[p]
      BY <1>0, <2>5 DEF WaitClose, Goto
    <3> QED BY <1>0, <1>1, <3>1, LiveQuiet
  <2> QED BY <1>8, <2>1, <2>2, <2>3, <2>4, <2>5 DEF SubscriberStep
<1>9. CASE UNCHANGED vars
  <2>1. log' = log /\ pushes' = pushes /\ observers' = observers /\ pc' = pc /\ pos' = pos
    BY <1>9 DEF vars
  <2> QED BY <1>0, <1>1, <2>1, LiveQuiet
<1> QED BY <1>3, <1>4, <1>5, <1>6, <1>7, <1>8, <1>9 DEF Next

-----------------------------------------------------------------------------
(* The owner's pushes, and the end. *)

(* A step calls one observer at most; with on_close only when the stream   *)
(* is closed, and nobody after its end unless others push or dispose.      *)
OneCall ==
    \/ log' = log
    \/ \E s \in Subscribers : \E x \in Chunk \cup {End} :
          Call(s, x) /\ (x = End => closed) /\ (OwnerAlone => ~Ended(s))

(* Every step calls so. *)
LEMMA CallsOne ==
    ASSUME CloseInv, EndIsLast, [Next]_vars
    PROVE  OneCall
<1> USE DEF OneCall
<1>0. TypeOK /\ pos \in [Thread -> Nat \ {0}] /\ \A q \in Producers : pushes[q] \in Nat
  BY ListTyped DEF CloseInv, TypeOK
<1>1. ASSUME NEW p \in Producers, FireNext(p) PROVE OneCall
  <2>1. PICK s : s = observers[pos[p]]
    OBVIOUS
  <2>2. PICK x \in Chunk : x = <<p, pushes[p]>>
    BY <1>0
  <2>3. s \in Subscribers /\ pc[p] = "push" /\ Call(s, x)
    BY <1>0, <1>1, <2>1, <2>2 DEF FireNext, AtTurn, TypeOK
  <2>4. OwnerAlone => ~Ended(s)
    <3> SUFFICES ASSUME OwnerAlone, Ended(s) PROVE FALSE
      OBVIOUS
    <3>1. pushes[p] > 0
      BY <2>3 DEF EndIsLast
    <3>2. p = Owner
      BY <1>0, <3>1 DEF OwnerAlone
    <3>3. closed
      BY <2>3 DEF EndIsLast
    <3>4. pc[Owner] \in {"close", "done"}
      BY <3>3 DEF EndIsLast
    <3> QED BY <2>3, <3>2, <3>4
  <2> QED BY <2>2, <2>3, <2>4, ChunkIsNotEnd
<1>2. ASSUME NEW t \in Closers, CloseNext(t) PROVE OneCall
  <2>1. PICK i : i = pos[t]
    OBVIOUS
  <2>2. i \in 1..Len(observers) /\ pc[t] = "close"
    <3>1. Len(observers) \in Nat /\ i \in Nat \ {0}
      BY <1>0, <2>1, LenProperties DEF TypeOK
    <3> QED BY <1>2, <2>1, <3>1 DEF CloseNext, AtTurn
  <2>3. PICK s \in Subscribers : s = observers[i]
    BY <1>0, <2>2 DEF TypeOK
  <2>4. Call(s, End)
    BY <1>2, <2>1, <2>3 DEF CloseNext
  <2>5. closed
    BY <2>2 DEF CloseInv, OneCloser
  <2>6. ~Ended(s)
    <3> SUFFICES ASSUME Ended(s) PROVE FALSE
      OBVIOUS
    <3>1. PICK u \in Closers : pc[u] = "close" /\ i < pos[u]
      BY <2>2, <2>3 DEF CloseInv, ToldInOrder
    <3>2. u = t
      BY <2>2, <3>1 DEF CloseInv, OneCloser
    <3> QED BY <1>0, <2>1, <3>1, <3>2
  <2> QED BY <2>4, <2>5, <2>6
<1>3. ASSUME NEW s \in Subscribers, ReplayNext(s) PROVE OneCall
  <2>1. PICK k : k = pos[s]
    OBVIOUS
  <2>2. k \in 1..Len(chunks) /\ pc[s] = "replay" /\ Call(s, chunks[k])
    BY <1>0, <1>3, <2>1, ListTyped DEF ReplayNext, AtTurn
  <2>3. PICK x \in Chunk : x = chunks[k]
    BY <1>0, <2>2, ListTyped
  <2>4. Call(s, x) /\ x # End
    BY <2>2, <2>3, ChunkIsNotEnd
  <2>5. ~Ended(s)
    BY <2>2 DEF CloseInv, OutsideUntold
  <2> QED BY <2>4, <2>5
<1>4. ASSUME NEW s \in Subscribers, CheckClosed(s), log' # log PROVE OneCall
  <2>1. closed /\ Call(s, End) /\ pc[s] = "check"
    BY <1>4 DEF CheckClosed
  <2>2. ~Ended(s)
    BY <2>1 DEF CloseInv, OutsideUntold
  <2> QED BY <2>1, <2>2
<1> HIDE DEF OneCall
<1>5. ASSUME NEW p \in Producers, Push(p) \/ ProducerStep(p) PROVE OneCall
  <2>1. CASE Push(p) \/ PushEnd(p)
    BY <2>1 DEF Push, PushEnd, OneCall
  <2> QED BY <1>1, <1>5, <2>1 DEF ProducerStep
<1>6. ASSUME NEW t \in Closers, Close(t) \/ CloserStep(t) PROVE OneCall
  <2>1. CASE Close(t) \/ CloseEnd(t) \/ Clear(t)
    BY <2>1 DEF Close, CloseEnd, Clear, OneCall
  <2> QED BY <1>2, <1>6, <2>1 DEF CloserStep
<1>7. ASSUME NEW s \in Subscribers, Subscribe(s) \/ SubscriberStep(s) PROVE OneCall
  <2>1. CASE Subscribe(s) \/ ReplayEnd(s) \/ AppendObserver(s) \/ WaitClose(s)
    BY <2>1 DEF Subscribe, ReplayEnd, AppendObserver, WaitClose, OneCall
  <2>2. CASE CheckClosed(s)
    <3>1. log' = log => OneCall
      BY DEF OneCall
    <3> QED BY <1>4, <2>2, <3>1
  <2> QED BY <1>3, <1>7, <2>1, <2>2 DEF SubscriberStep
<1>8. CASE UNCHANGED vars
  BY <1>8 DEF vars, OneCall
<1> QED BY <1>5, <1>6, <1>7, <1>8 DEF Next

(* What an observer has got it keeps. *)
LEMMA GotStays ==
    ASSUME CloseInv, EndIsLast, [Next]_vars
    PROVE  \A s \in Subscribers : \A x : Got(s, x) => Got(s, x)'
BY CallsOne, CallGot, SameGot DEF CloseInv, OneCall

(* The counters of the pushes grow, the flag is set by closing, and who    *)
(* has disposed has done so.                                               *)
LEMMA StepsGrow ==
    ASSUME TypeOK, [Next]_vars
    PROVE  /\ \A p \in Producers : pushes'[p] \in Nat /\ pushes[p] <= pushes'[p]
           /\ closed' = closed \/ \E t \in Closers : Close(t) /\ pc'[t] = "close"
           /\ OwnerAlone' => OwnerAlone
<1>0. \A q \in Producers : pushes[q] \in Nat
  BY ListTyped
<1>1. \A p \in Producers : pushes'[p] \in Nat /\ pushes[p] <= pushes'[p]
  <2>1. CASE \E p \in Producers : Push(p)
    <3>1. PICK p \in Producers : Push(p)
      BY <2>1
    <3>2. pushes'[p] = pushes[p] + 1 /\ \A q \in Producers : q # p => pushes'[q] = pushes[q]
      BY <3>1, PushDoes
    <3> QED BY <1>0, <3>2
  <2>2. CASE ~\E p \in Producers : Push(p)
    <3>1. pushes' = pushes
      BY <2>2, Frames DEF Clear
    <3> QED BY <1>0, <3>1
  <2> QED BY <2>1, <2>2
<1>2. closed' = closed \/ \E t \in Closers : Close(t) /\ pc'[t] = "close"
  <2> USE DEF Push, FireNext, PushEnd, CloseNext, CloseEnd, Clear, Subscribe, ReplayNext,
              ReplayEnd, CheckClosed, AppendObserver, WaitClose
  <2>1. ASSUME NEW p \in Producers, Push(p) \/ ProducerStep(p) PROVE closed' = closed
    BY <2>1 DEF ProducerStep
  <2>2. ASSUME NEW t \in Closers, CloserStep(t) PROVE closed' = closed
    BY <2>2 DEF CloserStep
  <2>3. ASSUME NEW s \in Subscribers, Subscribe(s) \/ SubscriberStep(s) PROVE closed' = closed
    BY <2>3 DEF SubscriberStep
  <2>4. ASSUME NEW t \in Closers, Close(t), closed' # closed PROVE pc'[t] = "close"
    <3>1. pc' = Woken(t)
      BY <2>4 DEF Close
    <3> QED BY <3>1 DEF Woken
  <2>5. CASE UNCHANGED vars
    BY <2>5 DEF vars
  <2> HIDE DEF Push, FireNext, PushEnd, CloseNext, CloseEnd, Clear, Subscribe, ReplayNext,
               ReplayEnd, CheckClosed, AppendObserver, WaitClose
  <2> QED BY <2>1, <2>2, <2>3, <2>4, <2>5 DEF Next
<1>3. ASSUME OwnerAlone' PROVE OwnerAlone
  <2>1. ASSUME NEW p \in Producers \ {Owner} PROVE pushes[p] = 0
    <3>1. pushes'[p] = 0
      BY <1>3 DEF OwnerAlone
    <3> QED BY <1>0, <1>1, <3>1
  <2>2. ASSUME NEW d \in Disposers PROVE pc[d] = "idle"
    <3>1. pc'[d] = "idle"
      BY <1>3 DEF OwnerAlone
    <3>2. Moves(d)
      BY ThreadMoves
    <3> QED BY <3>1, <3>2 DEF Moves
  <2> QED BY <2>1, <2>2 DEF OwnerAlone
<1> QED BY <1>1, <1>2, <1>3

(* The end stays the last call, unless others push or dispose. *)
LEMMA EndStep ==
    ASSUME CloseInv, ClearedLast, EndIsLast, [Next]_vars
    PROVE  EndIsLast'
<1>0. TypeOK /\ \A q \in Producers : pushes[q] \in Nat
  BY ListTyped DEF CloseInv
<1>1. closed => closed'
  BY Frames
<1>2. \A p \in Producers : pc'[p] = "push" => pushes'[p] > 0
  <2> SUFFICES ASSUME NEW p \in Producers, pc'[p] = "push" PROVE pushes'[p] > 0
    OBVIOUS
  <2>1. pushes'[p] \in Nat /\ pushes[p] <= pushes'[p]
    BY <1>0, StepsGrow
  <2>2. CASE pc[p] = "push"
    <3>1. pushes[p] > 0
      BY <2>2 DEF EndIsLast
    <3> QED BY <1>0, <2>1, <3>1
  <2>3. CASE pc[p] # "push"
    <3>1. Push(p)
      BY <1>0, <2>3, ThreadMoves DEF Moves
    <3>2. pushes'[p] = pushes[p] + 1
      BY <1>0, <3>1, PushDoes
    <3> QED BY <1>0, <3>2
  <2> QED BY <2>2, <2>3
<1>3. OwnerAlone' /\ closed' => pc'[Owner] \in {"close", "done"}
  <2> SUFFICES ASSUME OwnerAlone', closed' PROVE pc'[Owner] \in {"close", "done"}
    OBVIOUS
  <2>1. OwnerAlone
    BY <1>0, StepsGrow
  <2>2. CASE closed
    <3>1. pc[Owner] \in {"close", "done"}
      BY <2>1, <2>2 DEF EndIsLast
    <3>2. Moves(Owner)
      BY <1>0, ThreadMoves
    <3> QED BY <3>1, <3>2 DEF Moves
  <2>3. CASE ~closed
    <3>1. closed' # closed
      BY <2>3
    <3>2. PICK t \in Closers : Close(t) /\ pc'[t] = "close"
      BY <1>0, <3>1, StepsGrow
    <3>3. t \notin Disposers
      BY <3>2 DEF OwnerAlone
    <3> QED BY <3>2, <3>3
  <2> QED BY <2>2, <2>3
<1>4. CASE log' = log
  <2>1. \A s \in Subscribers : Ended(s)' => closed'
    BY <1>1, <1>4 DEF EndIsLast, Ended
  <2>2. NothingAfterEnd'
    BY <1>0, <1>4, StepsGrow DEF EndIsLast, NothingAfterEnd
  <2> QED BY <1>2, <1>3, <2>1, <2>2 DEF EndIsLast
<1>5. CASE \E s \in Subscribers : \E x \in Chunk \cup {End} :
              Call(s, x) /\ (x = End => closed) /\ (OwnerAlone => ~Ended(s))
  <2>1. PICK o \in Subscribers, x \in Chunk \cup {End} :
              Call(o, x) /\ (x = End => closed) /\ (OwnerAlone => ~Ended(o))
    BY <1>5
  <2>2. /\ Len(log'[o]) = Len(log[o]) + 1 /\ Len(log[o]) \in Nat
        /\ \A i \in 1..Len(log[o]) : log'[o][i] = log[o][i]
        /\ log'[o][Len(log[o]) + 1] = x
        /\ \A u \in Subscribers : u # o => log'[u] = log[u]
    BY <1>0, <2>1, CallTyped
  <2>3. ASSUME NEW s \in Subscribers, Ended(s)' PROVE closed'
    <3>1. CASE s # o
      BY <1>1, <2>2, <2>3, <3>1 DEF EndIsLast, Ended
    <3>2. CASE s = o
      <4>1. PICK i \in 1..Len(log'[o]) : log'[o][i] = End
        BY <2>3, <3>2 DEF Ended
      <4>2. CASE i = Len(log[o]) + 1
        BY <1>1, <2>1, <2>2, <4>1, <4>2
      <4>3. CASE i # Len(log[o]) + 1
        <5>1. i \in 1..Len(log[o])
          BY <2>2, <4>3
        <5>2. Ended(o)
          BY <2>2, <4>1, <5>1 DEF Ended
        <5> QED BY <1>1, <5>2 DEF EndIsLast
      <4> QED BY <4>2, <4>3
    <3> QED BY <3>1, <3>2
  <2>4. NothingAfterEnd'
    <3> SUFFICES ASSUME OwnerAlone', NEW s \in Subscribers, NEW i \in 1..Len(log'[s]),
                        log'[s][i] = End
                 PROVE  i = Len(log'[s])
      BY DEF NothingAfterEnd
    <3>1. OwnerAlone
      BY <1>0, StepsGrow
    <3>2. CASE s # o
      BY <2>2, <3>1, <3>2 DEF EndIsLast, NothingAfterEnd
    <3>3. CASE s = o
      <4>1. \A j \in 1..Len(log[o]) : log[o][j] # End
        BY <2>1, <3>1 DEF Ended
      <4>2. i \notin 1..Len(log[o])
        BY <2>2, <3>3, <4>1
      <4> QED BY <2>2, <3>3, <4>2
    <3> QED BY <3>2, <3>3
  <2> QED BY <1>2, <1>3, <2>3, <2>4 DEF EndIsLast
<1> QED BY <1>4, <1>5, CallsOne DEF OneCall

(* A step that starts no push of the owner, and changes who has joined     *)
(* and since when for nobody.                                              *)
LEMMA OwnerFrame ==
    ASSUME CloseInv, EndIsLast, OwnerPushesReach, [Next]_vars,
           pushes' = pushes, owed' = owed, observers' = observers,
           pc[Owner] \in {"close", "done"} => pc'[Owner] \in {"close", "done"},
           OwnerAlone => \A i \in 1..Len(observers), s \in Subscribers :
               observers[i] = s /\ Due(i, Owner) =>
                   Due(i, Owner)' \/ \A n \in Nat : n = pushes[Owner] => Got(s, <<Owner, n>>)'
    PROVE  OwnerPushesReach'
<1>0. TypeOK /\ Owner \in Producers /\ pushes[Owner] \in Nat
  BY ListTyped DEF CloseInv
<1> SUFFICES ASSUME OwnerAlone', NEW s \in Subscribers
             PROVE  /\ pushes'[Owner] <= MaxPushes
                    /\ \/ owed'[s][Owner] = MaxPushes
                       \/ \E i \in 1..Len(observers') : observers'[i] = s
                       \/ pc'[Owner] \in {"close", "done"}
                    /\ \A n \in owed'[s][Owner] + 1..pushes'[Owner] :
                          \/ Got(s, <<Owner, n>>)'
                          \/ /\ n = pushes'[Owner]
                             /\ \E i \in 1..Len(observers') : observers'[i] = s /\ Due(i, Owner)'
  BY DEF OwnerPushesReach
<1>1. OwnerAlone
  BY <1>0, StepsGrow
<1>2. /\ pushes[Owner] <= MaxPushes
      /\ \/ owed[s][Owner] = MaxPushes
         \/ \E i \in 1..Len(observers) : observers[i] = s
         \/ pc[Owner] \in {"close", "done"}
      /\ \A n \in owed[s][Owner] + 1..pushes[Owner] :
            \/ Got(s, <<Owner, n>>)
            \/ /\ n = pushes[Owner]
               /\ \E i \in 1..Len(observers) : observers[i] = s /\ Due(i, Owner)
  BY <1>1 DEF OwnerPushesReach
<1>3. ASSUME NEW n \in owed[s][Owner] + 1..pushes[Owner]
      PROVE  \/ Got(s, <<Owner, n>>)'
             \/ /\ n = pushes[Owner]
                /\ \E i \in 1..Len(observers) : observers[i] = s /\ Due(i, Owner)'
  <2>0. n \in Nat
    <3>1. owed[s][Owner] \in Nat
      BY <1>0 DEF TypeOK
    <3> QED BY <1>0, <3>1
  <2>1. CASE Got(s, <<Owner, n>>)
    BY <2>1, GotStays
  <2>2. CASE n = pushes[Owner] /\ \E i \in 1..Len(observers) : observers[i] = s /\ Due(i, Owner)
    <3>1. PICK i \in 1..Len(observers) : observers[i] = s /\ Due(i, Owner)
      BY <2>2
    <3>2. Due(i, Owner)' \/ Got(s, <<Owner, n>>)'
      BY <1>1, <2>0, <2>2, <3>1
    <3> QED BY <2>2, <3>1, <3>2
  <2> QED BY <1>2, <2>1, <2>2
<1> QED BY <1>2, <1>3

(* A push of the owner is due to everybody who has joined. *)
LEMMA OwnerPush ==
    ASSUME CloseInv, EndIsLast, OwnerPushesReach, [Next]_vars, Push(Owner)
    PROVE  OwnerPushesReach'
<1>0. TypeOK /\ Owner \in Producers /\ pushes[Owner] \in Nat
  BY ListTyped DEF CloseInv
<1>1. /\ pc[Owner] = "idle" /\ pushes[Owner] < MaxPushes
      /\ pc' = [pc EXCEPT ![Owner] = "push"] /\ pos' = [pos EXCEPT ![Owner] = 1]
      /\ pushes'[Owner] = pushes[Owner] + 1 /\ observers' = observers /\ owed' = owed
  BY <1>0, PushDoes
<1>2. \A i \in 1..Len(observers) : Due(i, Owner)'
  <2>1. pc'[Owner] = "push" /\ pos'[Owner] = 1
    BY <1>0, <1>1 DEF TypeOK
  <2> QED BY <2>1 DEF Due
<1>3. MaxPushes \in Nat
  OBVIOUS
<1> SUFFICES ASSUME OwnerAlone', NEW s \in Subscribers
             PROVE  /\ pushes'[Owner] <= MaxPushes
                    /\ \/ owed'[s][Owner] = MaxPushes
                       \/ \E i \in 1..Len(observers') : observers'[i] = s
                       \/ pc'[Owner] \in {"close", "done"}
                    /\ \A n \in owed'[s][Owner] + 1..pushes'[Owner] :
                          \/ Got(s, <<Owner, n>>)'
                          \/ /\ n = pushes'[Owner]
                             /\ \E i \in 1..Len(observers') : observers'[i] = s /\ Due(i, Owner)'
  BY DEF OwnerPushesReach
<1>4. OwnerAlone
  BY <1>0, StepsGrow
<1>5. /\ owed[s][Owner] = MaxPushes \/ \E i \in 1..Len(observers) : observers[i] = s
      /\ \A n \in owed[s][Owner] + 1..pushes[Owner] : Got(s, <<Owner, n>>)
  BY <1>1, <1>4 DEF OwnerPushesReach, Due
<1>6. owed[s][Owner] \in Nat
  BY <1>0 DEF TypeOK
<1>7. ASSUME NEW n \in owed[s][Owner] + 1..pushes[Owner] + 1
      PROVE  \/ Got(s, <<Owner, n>>)'
             \/ /\ n = pushes[Owner] + 1
                /\ \E i \in 1..Len(observers) : observers[i] = s
  <2>1. CASE n \in owed[s][Owner] + 1..pushes[Owner]
    BY <1>5, <2>1, GotStays
  <2>2. CASE n = pushes[Owner] + 1
    <3>1. owed[s][Owner] # MaxPushes
      BY <1>0, <1>1, <1>3, <1>6, <2>2
    <3> QED BY <1>5, <2>2, <3>1
  <2> QED BY <1>0, <1>6, <2>1, <2>2
<1>8. pushes'[Owner] <= MaxPushes
  BY <1>0, <1>1, <1>3
<1> QED BY <1>1, <1>2, <1>5, <1>7, <1>8

(* Who joins is owed the pushes to come, and changes nobody's place. *)
LEMMA OwnerAppend ==
    ASSUME CloseInv, EndIsLast, OwnerPushesReach, [Next]_vars,
           NEW u \in Subscribers, AppendObserver(u)
    PROVE  OwnerPushesReach'
<1>0. TypeOK /\ Owner \in Producers /\ pushes[Owner] \in Nat
  BY ListTyped DEF CloseInv
<1>1. /\ observers \in Seq(Subscribers) /\ Len(observers) \in Nat
      /\ observers' = Append(observers, u) /\ log' = log /\ pos' = pos /\ pushes' = pushes
      /\ owed' = [owed EXCEPT ![u] = pushes] /\ owed \in [Subscribers -> [Producers -> Nat]]
  BY <1>0, LenProperties DEF AppendObserver, TypeOK
<1>2. pc'[Owner] = pc[Owner]
  BY <1>0 DEF AppendObserver, Goto, TypeOK
<1>3. /\ Len(observers') = Len(observers) + 1
      /\ observers'[Len(observers) + 1] = u
      /\ \A i \in 1..Len(observers) : observers'[i] = observers[i]
  BY <1>1, AppendProperties
<1> SUFFICES ASSUME OwnerAlone', NEW s \in Subscribers
             PROVE  /\ pushes'[Owner] <= MaxPushes
                    /\ \/ owed'[s][Owner] = MaxPushes
                       \/ \E i \in 1..Len(observers') : observers'[i] = s
                       \/ pc'[Owner] \in {"close", "done"}
                    /\ \A n \in owed'[s][Owner] + 1..pushes'[Owner] :
                          \/ Got(s, <<Owner, n>>)'
                          \/ /\ n = pushes'[Owner]
                             /\ \E i \in 1..Len(observers') : observers'[i] = s /\ Due(i, Owner)'
  BY DEF OwnerPushesReach
<1>4. OwnerAlone
  BY <1>0, StepsGrow
<1>5. CASE s = u
  <2>1. owed'[u] = pushes
    BY <1>1
  <2>2. pushes[Owner] <= MaxPushes
    BY <1>4 DEF OwnerPushesReach
  <2>3. owed'[s][Owner] + 1..pushes'[Owner] = {}
    BY <1>0, <1>1, <1>5, <2>1
  <2>4. \E i \in 1..Len(observers') : observers'[i] = s
    BY <1>1, <1>3, <1>5
  <2> QED BY <1>1, <2>2, <2>3, <2>4
<1>6. CASE s # u
  <2>1. owed'[s] = owed[s]
    BY <1>1, <1>6
  <2>2. /\ pushes[Owner] <= MaxPushes
        /\ \/ owed[s][Owner] = MaxPushes
           \/ \E i \in 1..Len(observers) : observers[i] = s
           \/ pc[Owner] \in {"close", "done"}
        /\ \A n \in owed[s][Owner] + 1..pushes[Owner] :
              \/ Got(s, <<Owner, n>>)
              \/ /\ n = pushes[Owner]
                 /\ \E i \in 1..Len(observers) : observers[i] = s /\ Due(i, Owner)
    BY <1>4 DEF OwnerPushesReach
  <2>3. \A i \in 1..Len(observers) :
          i \in 1..Len(observers') /\ observers'[i] = observers[i] /\ (Due(i, Owner)' <=> Due(i, Owner))
    BY <1>1, <1>2, <1>3 DEF Due
  <2>4. \A y : Got(s, y)' <=> Got(s, y)
    BY <1>1, SameGot
  <2>5. ASSUME NEW n \in owed[s][Owner] + 1..pushes[Owner]
        PROVE  \/ Got(s, <<Owner, n>>)'
               \/ /\ n = pushes[Owner]
                  /\ \E i \in 1..Len(observers') : observers'[i] = s /\ Due(i, Owner)'
    BY <2>2, <2>3, <2>4
  <2>6. \/ owed[s][Owner] = MaxPushes
        \/ \E i \in 1..Len(observers') : observers'[i] = s
        \/ pc'[Owner] \in {"close", "done"}
    BY <1>2, <2>2, <2>3
  <2> QED BY <1>1, <2>1, <2>2, <2>5, <2>6
<1> QED BY <1>5, <1>6

(* When the owner lets the observers go, nothing is due any more. *)
LEMMA OwnerCloseEnd ==
    ASSUME CloseInv, EndIsLast, OwnerPushesReach, [Next]_vars, CloseEnd(Owner)
    PROVE  OwnerPushesReach'
<1>0. TypeOK /\ Owner \in Producers /\ Owner \in Thread /\ Owner \notin Disposers
  BY DEF CloseInv
<1>1. /\ pc[Owner] = "close" /\ pc'[Owner] = "done"
      /\ log' = log /\ pushes' = pushes /\ owed' = owed
  BY <1>0 DEF CloseEnd, AtExit, Goto, TypeOK
<1> SUFFICES ASSUME OwnerAlone', NEW s \in Subscribers
             PROVE  /\ pushes'[Owner] <= MaxPushes
                    /\ pc'[Owner] \in {"close", "done"}
                    /\ \A n \in owed'[s][Owner] + 1..pushes'[Owner] : Got(s, <<Owner, n>>)'
  BY DEF OwnerPushesReach
<1>2. OwnerAlone
  BY <1>0, StepsGrow
<1>3. /\ pushes[Owner] <= MaxPushes
      /\ \A n \in owed[s][Owner] + 1..pushes[Owner] : Got(s, <<Owner, n>>)
  BY <1>1, <1>2 DEF OwnerPushesReach, Due
<1>4. \A n \in owed[s][Owner] + 1..pushes[Owner] : Got(s, <<Owner, n>>)'
  BY <1>3, GotStays
<1> QED BY <1>1, <1>3, <1>4

(* What the owner has pushed since an observer joined reaches it. *)
LEMMA OwnerStep ==
    ASSUME CloseInv, ClearedLast, EndIsLast, OwnerPushesReach, [Next]_vars
    PROVE  OwnerPushesReach'
<1>0. /\ TypeOK /\ pc \in [Thread -> Pc] /\ pos \in [Thread -> Nat \ {0}]
      /\ Owner \in Producers /\ Owner \in Thread /\ Owner \notin Disposers
      /\ \A q \in Producers : pushes[q] \in Nat
  BY ListTyped DEF CloseInv, TypeOK
<1>1. ASSUME ~(OwnerAlone /\ OwnerAlone') PROVE OwnerPushesReach'
  <2>1. OwnerAlone' => OwnerAlone
    BY <1>0, StepsGrow
  <2> QED BY <1>1, <2>1 DEF OwnerPushesReach
<1> SUFFICES ASSUME OwnerAlone, OwnerAlone' PROVE OwnerPushesReach'
  BY <1>1
<1>2. ASSUME NEW p \in Producers, pushes[p] > 0 \/ pushes'[p] > 0 PROVE p = Owner
  BY <1>2 DEF OwnerAlone
<1>3. ASSUME NEW t \in Closers, pc[t] # "idle" \/ pc'[t] # "idle" PROVE t = Owner
  BY <1>3 DEF OwnerAlone
<1>4. ASSUME pushes' = pushes, owed' = owed, observers' = observers,
             pc'[Owner] = pc[Owner], pos'[Owner] = pos[Owner]
      PROVE  OwnerPushesReach'
  <2>1. \A i : Due(i, Owner) => Due(i, Owner)'
    BY <1>4 DEF Due
  <2> QED BY <1>4, <2>1, OwnerFrame
<1>5. ASSUME NEW p \in Producers, Push(p) PROVE OwnerPushesReach'
  <2>1. pushes'[p] = pushes[p] + 1
    BY <1>0, <1>5, PushDoes
  <2>2. p = Owner
    BY <1>0, <1>2, <2>1
  <2> QED BY <1>5, <2>2, OwnerPush
<1>6. ASSUME NEW p \in Producers, FireNext(p) PROVE OwnerPushesReach'
  <2>1. /\ pc[p] = "push" /\ pc' = pc /\ observers' = observers /\ pushes' = pushes
        /\ owed' = owed /\ pos' = [pos EXCEPT ![p] = @ + 1]
    BY <1>6 DEF FireNext, AtTurn, Turn
  <2>2. p = Owner
    <3>1. pushes[p] > 0
      BY <2>1 DEF EndIsLast
    <3> QED BY <1>2, <3>1
  <2>3. PICK k : k = pos[Owner]
    OBVIOUS
  <2>4. k \in 1..Len(observers) /\ k \in Nat
    <3>1. Len(observers) \in Nat /\ k \in Nat \ {0}
      BY <1>0, <2>3, LenProperties DEF TypeOK
    <3> QED BY <1>6, <2>2, <2>3, <3>1 DEF FireNext, AtTurn
  <2>5. PICK o \in Subscribers : o = observers[k]
    BY <1>0, <2>4 DEF TypeOK
  <2>6. PICK m \in Nat : m = pushes[Owner]
    BY <1>0
  <2>7. PICK x \in Chunk : x = <<Owner, m>>
    BY <1>0
  <2>8. Call(o, x)
    BY <1>6, <2>2, <2>3, <2>5, <2>6, <2>7 DEF FireNext
  <2>9. Got(o, x)'
    BY <1>0, <2>8, CallGot
  <2>10. ASSUME NEW i \in 1..Len(observers), NEW s \in Subscribers, observers[i] = s, Due(i, Owner)
         PROVE  Due(i, Owner)' \/ \A n \in Nat : n = pushes[Owner] => Got(s, <<Owner, n>>)'
    <3>1. CASE i = k
      BY <2>5, <2>6, <2>7, <2>9, <2>10, <3>1
    <3>2. CASE i # k
      <4>1. pos'[Owner] = k + 1
        BY <1>0, <2>1, <2>2, <2>3
      <4>2. k <= i
        BY <2>3, <2>10 DEF Due
      <4>3. pos'[Owner] <= i
        BY <2>4, <3>2, <4>1, <4>2
      <4> QED BY <2>1, <2>10, <4>3 DEF Due
    <3> QED BY <3>1, <3>2
  <2> QED BY <2>1, <2>10, OwnerFrame
<1>7. ASSUME NEW p \in Producers, PushEnd(p) PROVE OwnerPushesReach'
  <2>1. /\ pc[p] = "push" /\ pos[p] > Len(observers) /\ Goto(p, "idle")
        /\ observers' = observers /\ pushes' = pushes /\ owed' = owed
    BY <1>7 DEF PushEnd, AtExit
  <2>2. p = Owner
    <3>1. pushes[p] > 0
      BY <2>1 DEF EndIsLast
    <3> QED BY <1>2, <3>1
  <2>3. Len(observers) \in Nat /\ pos[Owner] \in Nat
    BY <1>0, LenProperties DEF TypeOK
  <2>4. \A i \in 1..Len(observers) : ~Due(i, Owner)
    BY <2>1, <2>2, <2>3 DEF Due
  <2>5. pc[Owner] \notin {"close", "done"}
    BY <2>1, <2>2
  <2> QED BY <2>1, <2>4, <2>5, OwnerFrame
<1>8. ASSUME NEW t \in Closers, Close(t) PROVE OwnerPushesReach'
  <2>1. /\ pc[t] = "idle" /\ observers' = observers /\ pushes' = pushes /\ owed' = owed
    BY <1>8 DEF Close
  <2>2. pc'[t] # "idle"
    <3>1. CASE closed
      BY <1>0, <1>8, <3>1 DEF Close, Goto
    <3>2. CASE ~closed
      <4>1. pc' = Woken(t)
        BY <1>8, <3>2 DEF Close
      <4> QED BY <4>1 DEF Woken
    <3> QED BY <3>1, <3>2
  <2>3. t = Owner
    BY <1>3, <2>2
  <2>4. \A i : ~Due(i, Owner)
    BY <2>1, <2>3 DEF Due
  <2>5. pc[Owner] \notin {"close", "done"}
    BY <2>1, <2>3
  <2> QED BY <2>1, <2>4, <2>5, OwnerFrame
<1>9. ASSUME NEW t \in Closers, CloserStep(t) PROVE OwnerPushesReach'
  <2>1. CASE CloseNext(t)
    <3>1. /\ pc[t] = "close" /\ pc' = pc
          /\ observers' = observers /\ pushes' = pushes /\ owed' = owed
      BY <2>1 DEF CloseNext, AtTurn
    <3>2. t = Owner
      BY <1>3, <3>1
    <3>3. \A i : ~Due(i, Owner)
      BY <3>1, <3>2 DEF Due
    <3> QED BY <3>1, <3>3, OwnerFrame
  <2>2. CASE CloseEnd(t)
    <3>1. t = Owner
      BY <1>3, <2>2 DEF CloseEnd, AtExit
    <3> QED BY <2>2, <3>1, OwnerCloseEnd
  <2>3. CASE Clear(t)
    <3>1. pc[t] = "clear" /\ t \in Disposers
      BY <2>3 DEF Clear, ClearedLast
    <3> QED BY <1>3, <1>0, <3>1
  <2> QED BY <1>9, <2>1, <2>2, <2>3 DEF CloserStep
<1>10. ASSUME NEW s \in Subscribers, Subscribe(s) \/ SubscriberStep(s) PROVE OwnerPushesReach'
  <2>1. CASE Subscribe(s)
    BY <1>0, <1>4, <2>1 DEF Subscribe, StartLoop, Goto
  <2>2. CASE ReplayNext(s)
    BY <1>0, <1>4, <2>2 DEF ReplayNext, Turn
  <2>3. CASE ReplayEnd(s)
    BY <1>0, <1>4, <2>3 DEF ReplayEnd, Goto
  <2>4. CASE CheckClosed(s)
    <3>1. /\ pushes' = pushes /\ owed' = owed /\ observers' = observers /\ pos' = pos
          /\ Goto(s, IF closed THEN AfterSubscribe(s) ELSE "append")
      BY <2>4 DEF CheckClosed
    <3>2. pc'[Owner] = pc[Owner]
      BY <1>0, <3>1 DEF Goto
    <3> QED BY <1>4, <3>1, <3>2
  <2>5. CASE AppendObserver(s)
    BY <2>5, OwnerAppend
  <2>6. CASE WaitClose(s)
    BY <1>0, <1>4, <2>6 DEF WaitClose, Goto
  <2> QED BY <1>10, <2>1, <2>2, <2>3, <2>4, <2>5, <2>6 DEF SubscriberStep
<1>11. CASE UNCHANGED vars
  BY <1>4, <1>11 DEF vars
<1> QED BY <1>5, <1>6, <1>7, <1>8, <1>9, <1>10, <1>11 DEF Next, ProducerStep

(* Every step keeps the invariant. *)
LEMMA OrderNext ==
    ASSUME OneDisposer, OrderInv, [Next]_vars
    PROVE  OrderInv'
<1>1. CloseInv' /\ ClearedLast' /\ ChunksInOrder'
  BY CloseInvNext, ListNext DEF OrderInv
<1>2. OnlyPushed'
  BY OnlyPushedNext DEF OrderInv, CloseInv
<1>3. ReplayInv'
  BY ReplayStep DEF OrderInv, ReplayInv
<1>4. LiveGoesOn' /\ OneSeam'
  BY LiveStep DEF OrderInv, ReplayInv
<1>5. OwnerPushesReach' /\ EndIsLast'
  BY OwnerStep, EndStep DEF OrderInv
<1> QED BY <1>1, <1>2, <1>3, <1>4, <1>5 DEF OrderInv, ReplayInv

(* The invariant holds at first. *)
LEMMA OrderInit ==
    ASSUME Init, CloseInv
    PROVE  OrderInv
<1>1. /\ chunks = <<>> /\ observers = <<>> /\ closed = FALSE
      /\ \A p \in Producers : pushes[p] = 0
      /\ \A t \in Thread : pc[t] = "idle"
      /\ \A s \in Subscribers : log[s] = <<>> /\ owed[s][Owner] = MaxPushes
  BY DEF Init
<1>2. Len(chunks) = 0 /\ Len(observers) = 0 /\ \A s \in Subscribers : Len(log[s]) = 0
  BY <1>1
<1>3. ~Cleared /\ ~\E s \in Subscribers : Ended(s)
  BY <1>1, <1>2 DEF Cleared, Ended
<1>4. \A s \in Subscribers : \A x : ~Got(s, x)
  BY <1>2 DEF Got, Contains
<1>5. \A s \in Subscribers, p \in Producers : Of(s, p) = {} /\ Seams(s, p) = {} /\ NoSeam(s, p)
  <2> SUFFICES ASSUME NEW s \in Subscribers, NEW p \in Producers
               PROVE  Of(s, p) = {} /\ Seams(s, p) = {} /\ NoSeam(s, p)
    OBVIOUS
  <2>1. Of(s, p) = {}
    BY <1>2 DEF Of
  <2>2. Seams(s, p) = {}
    BY <2>1 DEF Seams
  <2> QED BY <2>1, <2>2 DEF NoSeam
<1>6. ClearedLast
  BY <1>1 DEF ClearedLast
<1>7. ChunksInOrder
  BY <1>1, <1>2 DEF ChunksInOrder
<1>8. OnlyPushed /\ OneSeam
  BY <1>4, <1>5 DEF OnlyPushed, OneSeam
<1>9. NoSeamYet /\ ReplayExact /\ ReplayGoesOn
  <2>1. \A s \in Subscribers : pc[s] = "idle" /\ pc[s] # "replay"
    BY <1>1
  <2>2. NoSeamYet
    BY <1>5 DEF NoSeamYet
  <2>3. ReplayExact
    BY <1>2, <2>1 DEF ReplayExact
  <2>4. ReplayGoesOn
    BY <2>1 DEF ReplayGoesOn
  <2> QED BY <2>2, <2>3, <2>4
<1>10. LiveGoesOn
  BY <1>2 DEF LiveGoesOn
<1>11. OwnerPushesReach
  <2>1. Owner \in Producers /\ pushes[Owner] = 0 /\ MaxPushes \in Nat
    BY <1>1
  <2>2. MaxPushes + 1..0 = {}
    BY <2>1
  <2> QED BY <1>1, <2>1, <2>2 DEF OwnerPushesReach
<1>12. EndIsLast
  <2>1. NothingAfterEnd
    BY <1>2 DEF NothingAfterEnd
  <2> QED BY <1>1, <1>3, <2>1 DEF EndIsLast
<1> QED BY <1>6, <1>7, <1>8, <1>9, <1>10, <1>11, <1>12 DEF OrderInv

(* The inductive invariant holds in every reachable state of a stream with *)
(* one disposer at most.                                                   *)
THEOREM OrderInvariant ==
    ASSUME OneDisposer
    PROVE  Spec => []OrderInv
<1>1. Spec => []CloseInv
  BY CloseInvariant
<1>2. Init /\ CloseInv => OrderInv
  BY OrderInit
<1>3. OrderInv /\ [Next]_vars => OrderInv'
  BY OrderNext
<1> QED BY <1>1, <1>2, <1>3, PTL DEF Spec

(* What an observer of an execution is called with is the output: the      *)
(* stream stays in its types, the place where the replayed chunks meet the *)
(* live ones is the only one where something may be missed or repeated,    *)
(* who has joined misses nothing, and the end is the end. With a second    *)
(* disposer the list may be cleared twice under one replay, which then has *)
(* two seams.                                                              *)
THEOREM OrderKept ==
    ASSUME OneDisposer
    PROVE  Spec => []OutputInOrder
<1>1. OrderInv => OutputInOrder
  <2> SUFFICES ASSUME OrderInv PROVE OutputInOrder
    OBVIOUS
  <2>1. JoinedMissNothing
    BY DEF OrderInv, OwnerPushesReach, JoinedMissNothing, Due
  <2> QED BY <2>1 DEF OrderInv, CloseInv, EndIsLast, OutputInOrder
<1> QED BY <1>1, OrderInvariant, PTL

(* However many threads dispose of it: once it has joined an observer gets *)
(* every push of an owner that is alone, and nothing after the end.        *)
THEOREM JoinedGetAll == Spec => [](JoinedMissNothing /\ NothingAfterEnd)
<1> DEFINE Joins == CloseInv /\ ClearedLast /\ ChunksInOrder /\ OwnerPushesReach /\ EndIsLast
<1>1. Spec => []CloseInv
  BY CloseInvariant
<1>2. Init /\ CloseInv => Joins
  BY OrderInit DEF OrderInv
<1>3. Joins /\ [Next]_vars => Joins'
  BY CloseInvNext, ListNext, OwnerStep, EndStep
<1>4. Joins => JoinedMissNothing /\ NothingAfterEnd
  BY DEF OwnerPushesReach, JoinedMissNothing, EndIsLast, Due
<1> HIDE DEF Joins
<1> QED BY <1>1, <1>2, <1>3, <1>4, PTL DEF Spec

-----------------------------------------------------------------------------
(* The reader of a terminal. First what the operators on sequences do: a   *)
(* recursive function is followed along its argument from the least number *)
(* at which a claim about it fails.                                        *)

(* A set of numbers that is not empty has a least one.                     *)
LEMMA LeastNumber ==
    ASSUME NEW S \in SUBSET Nat, S # {}
    PROVE  \E m \in S : \A k \in S : m <= k
<1> DEFINE R == {ss \in Nat \X Nat : ss[1] < ss[2]}
<1>1. IsWellFoundedOn(R, Nat)
  BY NatLessThanWellFounded DEF OpToRel
<1> HIDE DEF R
<1>2. \E m \in S : \A k \in S : ~(<<k, m>> \in R)
  BY <1>1, WFMin
<1>3. PICK m \in S : \A k \in S : ~(<<k, m>> \in R)
  BY <1>2
<1>4. \A k \in S : ~(k < m)
  BY <1>3 DEF R
<1>5. m \in Nat /\ \A k \in S : k \in Nat
  OBVIOUS
<1>6. \A k \in S : m <= k
  BY <1>4, <1>5
<1> QED BY <1>6

(* f gives the concatenation of the first sequences of s.                  *)
Flattens(f, s, n) ==
    f = [i \in 1..n |-> IF i = 1 THEN s[i] ELSE f[i - 1] \o s[i]]

(* There is such a function: the shortest s without one has a shorter part *)
(* that has one.                                                           *)
LEMMA FlattenExists ==
    ASSUME NEW s, NEW n \in Nat
    PROVE  \E f : Flattens(f, s, n)
<1> DEFINE Bad == {k \in Nat : ~ \E f : Flattens(f, s, k)}
<1> SUFFICES ASSUME Bad # {}
             PROVE  FALSE
  OBVIOUS
<1>1. PICK m \in Bad : \A k \in Bad : m <= k
  BY LeastNumber
<1>2. CASE m = 0
  <2> DEFINE f == [i \in 1..0 |-> 0]
  <2>1. Flattens(f, s, 0)
    BY DEF Flattens
  <2> QED BY <1>1, <1>2, <2>1
<1>3. CASE m # 0
  <2>1. m - 1 \in Nat /\ m - 1 \notin Bad
    BY <1>1, <1>3
  <2>2. PICK f : Flattens(f, s, m - 1)
    BY <2>1
  <2> DEFINE g == [i \in 1..m |-> IF i < m THEN f[i] ELSE IF m = 1 THEN s[m] ELSE f[m - 1] \o s[m]]
  <2>3. \A i \in 1..m - 1 : f[i] = IF i = 1 THEN s[i] ELSE f[i - 1] \o s[i]
    BY <2>1, <2>2 DEF Flattens
  <2>4. ASSUME NEW i \in 1..m
        PROVE  g[i] = IF i = 1 THEN s[i] ELSE g[i - 1] \o s[i]
    <3>1. CASE i < m
      <4>1. i \in 1..m - 1 /\ (i # 1 => i - 1 \in 1..m /\ i - 1 < m)
        BY <1>1, <3>1
      <4> QED BY <2>3, <3>1, <4>1
    <3>2. CASE i = m
      <4>1. i # 1 => i - 1 \in 1..m /\ i - 1 < m
        BY <1>1, <3>2
      <4> QED BY <3>2, <4>1
    <3> QED BY <1>1, <3>1, <3>2
  <2>5. Flattens(g, s, m)
    <3>1. g = [i \in 1..m |-> g[i]]
      OBVIOUS
    <3> HIDE DEF g
    <3> QED BY <2>4, <3>1 DEF Flattens
  <2> QED BY <1>1, <2>5
<1> QED BY <1>2, <1>3

(* What has been flattened does not change with what comes behind it.      *)
LEMMA FlattenAgrees ==
    ASSUME NEW S, NEW s \in Seq(Seq(S)), NEW t, NEW f, NEW g, NEW n \in Nat,
           NEW l \in Nat, n <= Len(s), n <= l,
           \A i \in 1..n : t[i] = s[i],
           Flattens(f, s, n), Flattens(g, t, l)
    PROVE  \A i \in 1..n : g[i] = f[i] /\ f[i] \in Seq(S)
<1>1. \A i \in 1..n : f[i] = IF i = 1 THEN s[i] ELSE f[i - 1] \o s[i]
  BY DEF Flattens
<1>2. \A i \in 1..n : g[i] = IF i = 1 THEN t[i] ELSE g[i - 1] \o t[i]
  <2>1. \A i \in 1..n : i \in 1..l
    OBVIOUS
  <2>2. \A i \in 1..l : g[i] = IF i = 1 THEN t[i] ELSE g[i - 1] \o t[i]
    BY DEF Flattens
  <2> QED BY <2>1, <2>2
<1>3. \A i \in 1..n : s[i] \in Seq(S)
  BY ElementOfSeq
<1> DEFINE Bad == {k \in Nat : k \in 1..n /\ ~(g[k] = f[k] /\ f[k] \in Seq(S))}
<1>4. ASSUME Bad # {}
      PROVE  FALSE
  <2>0. PICK m \in Bad : \A k \in Bad : m <= k
    BY <1>4, LeastNumber
  <2>1. m \in 1..n /\ m \in Nat
    OBVIOUS
  <2>2. CASE m = 1
    BY <1>1, <1>2, <1>3, <2>0, <2>2
  <2>3. CASE m # 1
    <3>1. m - 1 \in 1..n /\ m - 1 \in Nat /\ m - 1 \notin Bad
      BY <2>0, <2>1, <2>3
    <3>2. g[m - 1] = f[m - 1] /\ f[m - 1] \in Seq(S)
      BY <3>1
    <3>3. f[m] = f[m - 1] \o s[m] /\ g[m] = g[m - 1] \o t[m]
      BY <1>1, <1>2, <2>1, <2>3
    <3>4. s[m] \in Seq(S) /\ t[m] = s[m]
      BY <1>3, <2>1
    <3>5. f[m - 1] \o s[m] \in Seq(S)
      BY <3>2, <3>4, ConcatProperties
    <3>6. g[m] = f[m] /\ f[m] \in Seq(S)
      BY <3>2, <3>3, <3>4, <3>5
    <3> QED BY <2>0, <3>6
  <2> QED BY <2>2, <2>3
<1>5. \A i \in 1..n : i \in Nat
  OBVIOUS
<1> QED BY <1>4, <1>5

(* The definition of the library is such a function.                       *)
LEMMA FlattenIs ==
    ASSUME NEW s, NEW S, s \in Seq(Seq(S)), s # <<>>
    PROVE  \E f : Flattens(f, s, Len(s)) /\ FlattenSeq(s) = f[Len(s)]
<1> DEFINE F == CHOOSE f : f = [i \in 1..Len(s) |-> IF i = 1 THEN s[i] ELSE f[i - 1] \o s[i]]
<1>1. Len(s) \in Nat /\ Len(s) # 0
  BY EmptySeq
<1>2. \E f : f = [i \in 1..Len(s) |-> IF i = 1 THEN s[i] ELSE f[i - 1] \o s[i]]
  BY <1>1, FlattenExists DEF Flattens
<1>3. F = [i \in 1..Len(s) |-> IF i = 1 THEN s[i] ELSE F[i - 1] \o s[i]]
  BY <1>2
<1>4. FlattenSeq(s) = F[Len(s)]
  BY <1>1 DEF FlattenSeq
<1> QED BY <1>3, <1>4 DEF Flattens

(* A chunk that is pushed comes behind what has been pushed.               *)
LEMMA FlattenAppends ==
    ASSUME NEW S, NEW s \in Seq(Seq(S)), NEW x \in Seq(S)
    PROVE  /\ FlattenSeq(Append(s, x)) = FlattenSeq(s) \o x
           /\ FlattenSeq(s) \in Seq(S)
<1> DEFINE t == Append(s, x)
           n == Len(s)
<1>1. n \in Nat /\ t \in Seq(Seq(S)) /\ Len(t) = n + 1 /\ t[n + 1] = x
      /\ \A i \in 1..n : t[i] = s[i]
  OBVIOUS
<1>2. t # <<>>
  <2> HIDE DEF t
  <2>1. Len(t) # 0
    BY <1>1
  <2> QED BY <2>1
<1>3. PICK g : Flattens(g, t, n + 1) /\ FlattenSeq(t) = g[n + 1]
  BY <1>1, <1>2, FlattenIs
<1>4. g[n + 1] = IF n + 1 = 1 THEN x ELSE g[n] \o x
  <2> HIDE DEF t, n
  <2>1. n + 1 \in 1..n + 1 /\ (n + 1) - 1 = n
    BY <1>1
  <2>2. \A i \in 1..n + 1 : g[i] = IF i = 1 THEN t[i] ELSE g[i - 1] \o t[i]
    BY <1>3 DEF Flattens
  <2> QED BY <1>1, <2>1, <2>2
<1> HIDE DEF t
<1>5. CASE s = <<>>
  <2>1. FlattenSeq(s) = <<>> /\ n = 0
    BY <1>5 DEF FlattenSeq
  <2> QED BY <1>3, <1>4, <2>1 DEF t
<1>6. CASE s # <<>>
  <2>1. n # 0
    BY <1>6, EmptySeq
  <2>2. PICK f : Flattens(f, s, n) /\ FlattenSeq(s) = f[n]
    BY <1>6, FlattenIs
  <2>3. g[n] = f[n] /\ f[n] \in Seq(S)
    <3>1. n \in 1..n /\ n \in Nat /\ n + 1 \in Nat /\ n <= n + 1 /\ n <= Len(s)
      BY <1>1, <2>1
    <3> HIDE DEF n
    <3>2. \A i \in 1..n : g[i] = f[i] /\ f[i] \in Seq(S)
      <4> DEFINE l == n + 1
      <4>1. l \in Nat /\ n <= l /\ Flattens(g, t, l)
        BY <1>3, <3>1
      <4> HIDE DEF l
      <4> QED BY <1>1, <2>2, <3>1, <4>1, FlattenAgrees
    <3> QED BY <3>1, <3>2
  <2> QED BY <1>1, <1>3, <1>4, <2>1, <2>2, <2>3 DEF t
<1> QED BY <1>5, <1>6

-----------------------------------------------------------------------------
(* Where the reader stops.                                                 *)

(* How much it keeps of what it read: the end that may be part of a        *)
(* character, and the byte before that end is not part of one.             *)
LEMMA TailIs ==
    ASSUME NEW q \in Bytes
    PROVE  /\ TailLength(q) \in 0..Len(q)
           /\ \A m \in Len(q) - TailLength(q) + 1..Len(q) : IsHigh(q[m])
           /\ TailLength(q) < Len(q) => ~IsHigh(q[Len(q) - TailLength(q)])
<1> DEFINE l == Len(q)
           Stops == {k \in Nat : k <= l /\ (k < l => ~IsHigh(q[l - k]))}
           Is(k) == /\ \A m \in l - k + 1..l : IsHigh(q[m])
                    /\ k < l => ~IsHigh(q[l - k])
<1>1. l \in Nat
  BY DEF Bytes
<1> HIDE DEF l
<1>2. l \in Stops
  BY <1>1
<1>3. PICK n \in Stops : \A k \in Stops : n <= k
  <2>1. Stops \in SUBSET Nat /\ Stops # {}
    BY <1>2
  <2> HIDE DEF Stops
  <2> QED BY <2>1, LeastNumber
<1>4. n \in 0..l
  BY <1>1
<1>5. ASSUME NEW m \in l - n + 1..l
      PROVE  IsHigh(q[m])
  <2>1. l - m \in Nat /\ l - m < n /\ l - m <= l /\ l - m < l /\ l - (l - m) = m
    BY <1>1, <1>4
  <2>2. l - m \notin Stops
    <3> HIDE DEF Stops
    <3> QED BY <1>1, <1>3, <1>4, <2>1
  <2> QED BY <2>1, <2>2
<1>6. Is(n)
  BY <1>3, <1>5
<1>7. \E k \in 0..l : Is(k)
  BY <1>4, <1>6
<1>8. TailLength(q) = CHOOSE k \in 0..l : Is(k)
  BY DEF TailLength, l
<1>9. TailLength(q) \in 0..l /\ Is(TailLength(q))
  <2> HIDE DEF Is
  <2> QED BY <1>7, <1>8
<1> QED BY <1>9 DEF l

(* A sequence is what precedes a place and what follows it.                *)
LEMMA CutAnywhere ==
    ASSUME NEW S, NEW q \in Seq(S), NEW k \in 0..Len(q)
    PROVE  /\ SubSeq(q, 1, k) \in Seq(S) /\ SubSeq(q, k + 1, Len(q)) \in Seq(S)
           /\ Len(SubSeq(q, 1, k)) = k
           /\ Len(SubSeq(q, k + 1, Len(q))) = Len(q) - k
           /\ \A i \in 1..k : SubSeq(q, 1, k)[i] = q[i]
           /\ \A i \in 1..Len(q) - k : SubSeq(q, k + 1, Len(q))[i] = q[k + i]
           /\ SubSeq(q, 1, k) \o SubSeq(q, k + 1, Len(q)) = q
<1> DEFINE a == SubSeq(q, 1, k)
           b == SubSeq(q, k + 1, Len(q))
<1>1. /\ a \in Seq(S) /\ Len(a) = k /\ \A i \in 1..k : a[i] = q[i]
  <2>1. \A i \in 1..k : q[i] \in S
    BY ElementOfSeq
  <2> QED BY <2>1, SubSeqProperties
<1>2. /\ b \in Seq(S) /\ Len(b) = Len(q) - k /\ \A i \in 1..Len(q) - k : b[i] = q[k + i]
  <2>1. \A i \in k + 1..Len(q) : q[i] \in S
    BY ElementOfSeq
  <2> QED BY <2>1, SubSeqProperties
<1>0. Len(q) \in Nat
  OBVIOUS
<1> HIDE DEF a, b
<1>3. a \o b = q
  <2>1. a \o b \in Seq(S) /\ Len(a \o b) = Len(q) /\ Len(a) + Len(b) = Len(q)
    <3>1. a \o b \in Seq(S) /\ Len(a \o b) = Len(a) + Len(b)
      BY <1>1, <1>2, ConcatProperties
    <3> QED BY <1>0, <1>1, <1>2, <3>1
  <2>2. ASSUME NEW i \in 1..Len(q)
        PROVE  (a \o b)[i] = q[i]
    <3>1. (a \o b)[i] = IF i <= Len(a) THEN a[i] ELSE b[i - Len(a)]
      <4>1. \A j \in 1..Len(a) + Len(b) : (a \o b)[j] = IF j <= Len(a) THEN a[j] ELSE b[j - Len(a)]
        BY <1>1, <1>2, ConcatProperties
      <4> QED BY <2>1, <4>1
    <3>2. CASE i <= k
      BY <1>1, <3>1, <3>2
    <3>3. CASE i > k
      <4>1. i - k \in 1..Len(q) - k /\ k + (i - k) = i
        BY <1>0, <3>3
      <4> QED BY <1>1, <1>2, <3>1, <3>3, <4>1
    <3>4. i <= k \/ i > k
      BY <1>0
    <3> QED BY <3>2, <3>3, <3>4
  <2> HIDE DEF a, b
  <2>3. \A i \in 1..Len(a \o b) : (a \o b)[i] = q[i]
    BY <2>1, <2>2
  <2> DEFINE c == a \o b
  <2>4. c \in Seq(S) /\ Len(c) = Len(q) /\ \A i \in 1..Len(c) : c[i] = q[i]
    BY <2>1, <2>3
  <2> HIDE DEF c
  <2>5. c = q
    BY <2>4, SeqEqual
  <2> QED BY <2>5 DEF c
<1> QED BY <1>1, <1>2, <1>3 DEF a, b

(* Appending behind a concatenation is appending to its second part.       *)
LEMMA AppendBehind ==
    ASSUME NEW S, NEW p \in Seq(S), NEW q \in Seq(S), NEW x \in S
    PROVE  p \o Append(q, x) = Append(p \o q, x)
<1>1. Append(q, x) = q \o <<x>> /\ Append(p \o q, x) = (p \o q) \o <<x>>
  OBVIOUS
<1>2. <<x>> \in Seq(S)
  OBVIOUS
<1>3. (p \o q) \o <<x>> = p \o (q \o <<x>>)
  BY <1>2, ConcatAssociative
<1> QED BY <1>1, <1>3

-----------------------------------------------------------------------------
(* The inductive invariant, in named parts.                                *)

(* No chunk is empty, and in utf-8 none ends within a character.           *)
ChunksWhole ==
    \A n \in 1..Len(rounds) :
        /\ rounds[n] # <<>>
        /\ utf8 => ~IsHigh(Last(rounds[n]))

(* The reader ends after the process, and keeps then only what may be part *)
(* of a character.                                                         *)
EndsAfterExit ==
    /\ readerPc \in {"drain", "closed"} => exited
    /\ finished => exited
    /\ readerPc = "closed" => \A i \in 1..Len(buffer) : utf8 /\ IsHigh(buffer[i])

PtyInv == PtyTypeOK /\ NothingLostInside /\ LostUndecodable /\ ChunksWhole /\ EndsAfterExit

(* The types of what is in passing.                                        *)
LEMMA PtyTypes ==
    ASSUME PtyTypeOK
    PROVE  /\ Len(text) \in Nat /\ written \in Nat /\ written <= Len(text)
           /\ pty \in Bytes /\ data \in Bytes /\ buffer \in Bytes /\ Held \in Bytes
           /\ rounds \in Seq(Bytes) /\ HandedOver \in Bytes /\ Sent \in Bytes
<1>1. text \in Seq(Kind)
  BY TextsAssumption DEF PtyTypeOK
<1>2. Len(text) \in Nat
  BY <1>1
<1>3. written \in Nat /\ written <= Len(text) /\ pty \in Bytes /\ data \in Bytes /\ buffer \in Bytes
      /\ rounds \in Seq(Bytes)
  BY <1>2 DEF PtyTypeOK
<1>4. Held \in Bytes
  BY <1>3 DEF Held
<1>5. HandedOver \in Bytes
  <2> DEFINE S == 1..Len(text)
  <2>1. rounds \in Seq(Seq(S)) /\ <<>> \in Seq(S)
    BY <1>3 DEF Bytes
  <2> HIDE DEF S
  <2>2. FlattenSeq(rounds) \in Seq(S)
    BY <2>1, FlattenAppends
  <2> QED BY <2>2 DEF HandedOver, Bytes, S
<1>6. Sent \in Bytes
  <2>1. \A n \in 1..written : n \in 1..Len(text)
    BY <1>2, <1>3
  <2> QED BY <1>3, <2>1 DEF Sent, Bytes
<1> QED BY <1>2, <1>3, <1>4, <1>5, <1>6

(* The reader starts with nothing.                                         *)
LEMMA PtyStart == PtyInit => PtyInv
<1> SUFFICES ASSUME PtyInit
             PROVE  PtyInv
  OBVIOUS
<1>1. text \in Seq(Kind) /\ Len(text) \in Nat
  BY TextsAssumption DEF PtyInit
<1>2. PtyTypeOK
  <2>1. <<>> \in Bytes /\ <<>> \in Seq(Bytes)
    BY DEF Bytes
  <2>2. written \in 0..Len(text) /\ text \in Texts
    BY <1>1 DEF PtyInit
  <2> QED BY <2>1, <2>2 DEF PtyInit, PtyTypeOK
<1>3. NothingLostInside
  <2>1. FlattenSeq(<<>>) = <<>>
    BY DEF FlattenSeq
  <2>2. HandedOver = <<>> /\ Held = <<>> /\ pty = <<>>
    BY <2>1 DEF PtyInit, HandedOver, Held
  <2>3. Sent = <<>>
    BY DEF PtyInit, Sent
  <2> QED BY <2>2, <2>3 DEF NothingLostInside
<1>4. ChunksWhole /\ EndsAfterExit /\ LostUndecodable
  BY DEF PtyInit, ChunksWhole, EndsAfterExit, LostUndecodable
<1> QED BY <1>2, <1>3, <1>4 DEF PtyInv

(* What the reader takes from the terminal is behind what it has.          *)
LEMMA ReadUpToKeeps ==
    ASSUME PtyInv, NEW n \in Nat, NEW label \in {"drain", "more", "complete"},
           ReadUpTo(n, label),
           readerPc \in {"drain", "read", "more", "complete"},
           label = "drain" => exited
    PROVE  PtyInv'
<1> DEFINE S == 1..Len(text)
<1>1. /\ PtyTypeOK /\ NothingLostInside /\ LostUndecodable /\ ChunksWhole /\ EndsAfterExit
      /\ Len(text) \in Nat /\ pty \in Seq(S) /\ data \in Seq(S) /\ HandedOver \in Seq(S)
      /\ Held = data
  BY PtyTypes DEF PtyInv, Bytes, Held
<1>2. PICK k \in 1..n : k <= Len(pty) /\ data' = data \o SubSeq(pty, 1, k)
                        /\ pty' = SubSeq(pty, k + 1, Len(pty))
  BY DEF ReadUpTo
<1>3. /\ readerPc' = label /\ utf8' = utf8 /\ text' = text /\ written' = written
      /\ exited' = exited /\ finished' = finished /\ buffer' = buffer /\ rounds' = rounds
      /\ refused' = refused
  BY DEF ReadUpTo, Proceed, ptyScript
<1> HIDE DEF S
<1> DEFINE a == SubSeq(pty, 1, k)
           b == SubSeq(pty, k + 1, Len(pty))
<1>4. /\ a \in Seq(S) /\ b \in Seq(S) /\ a \o b = pty /\ Len(a) = k /\ k \in Nat \ {0}
  <2>1. k \in 0..Len(pty) /\ k \in Nat \ {0}
    BY <1>1, <1>2
  <2> QED BY <1>1, <2>1, CutAnywhere
<1>5. data' = data \o a /\ pty' = b
  BY <1>2
<1> HIDE DEF a, b
<1>6. data' \in Seq(S) /\ data' # <<>> /\ pty' \in Seq(S)
  <2>1. data \o a \in Seq(S) /\ Len(data \o a) = Len(data) + Len(a)
    BY <1>1, <1>4, ConcatProperties
  <2>2. Len(data \o a) # 0
    BY <1>1, <1>4, <2>1
  <2> QED BY <1>4, <1>5, <2>1, <2>2
<1>7. PtyTypeOK'
  <2>1. pty' \in Bytes' /\ data' \in Bytes' /\ buffer' \in Bytes' /\ rounds' \in Seq(Bytes)'
    BY <1>1, <1>3, <1>6 DEF Bytes, S, PtyTypeOK
  <2> QED BY <1>1, <1>3, <1>6, <2>1 DEF PtyTypeOK
<1>8. NothingLostInside'
  <2>1. HandedOver' = HandedOver /\ Sent' = Sent /\ Held' = data'
    BY <1>3 DEF HandedOver, Sent, Held
  <2>2. (HandedOver \o (data \o a)) \o b = (HandedOver \o data) \o (a \o b)
    <3>1. a \in Seq(S) /\ b \in Seq(S) /\ HandedOver \in Seq(S) /\ data \in Seq(S)
      BY <1>1, <1>4
    <3> HIDE DEF a, b
    <3>2. \A p, q, x \in Seq(S) : (p \o q) \o x = p \o (q \o x)
      BY ONLY ConcatAssociative
    <3>3. HandedOver \o (data \o a) = (HandedOver \o data) \o a
      BY ONLY <3>1, <3>2
    <3>4. HandedOver \o data \in Seq(S)
      BY ONLY <3>1
    <3>5. ((HandedOver \o data) \o a) \o b = (HandedOver \o data) \o (a \o b)
      BY ONLY <3>1, <3>2, <3>4
    <3> QED BY <3>3, <3>5
  <2>4. (HandedOver \o data) \o pty = Sent
    BY <1>1 DEF NothingLostInside
  <2> QED BY <1>4, <1>5, <2>1, <2>2, <2>4 DEF NothingLostInside
<1>9. ChunksWhole' /\ EndsAfterExit' /\ LostUndecodable'
  BY <1>1, <1>3 DEF ChunksWhole, EndsAfterExit, LostUndecodable, IsHigh
<1> QED BY <1>7, <1>8, <1>9 DEF PtyInv

(* A step that leaves the bytes where they are.                            *)
LEMMA BytesStay ==
    ASSUME PtyInv, EndsAfterExit',
           UNCHANGED <<utf8, text, written, pty, rounds, refused>>,
           Held' = Held, data' \in Bytes, buffer' \in Bytes,
           exited' \in BOOLEAN, finished' \in BOOLEAN,
           readerPc' \in {"loop", "drain", "read", "more", "complete", "check", "emit", "closed"},
           readerPc' \in {"more", "complete"} => data' # <<>>
    PROVE  PtyInv'
<1>1. PtyTypeOK'
  BY DEF PtyInv, PtyTypeOK, Bytes
<1>2. NothingLostInside'
  <2>1. HandedOver' = HandedOver /\ Sent' = Sent
    BY DEF HandedOver, Sent
  <2> QED BY <2>1 DEF PtyInv, NothingLostInside
<1>3. ChunksWhole' /\ LostUndecodable'
  BY DEF PtyInv, ChunksWhole, LostUndecodable, IsHigh
<1> QED BY <1>1, <1>2, <1>3 DEF PtyInv

(* The script writes behind what is in the terminal.                       *)
LEMMA WriteKeeps == PtyInv /\ ScriptWrite => PtyInv'
<1> SUFFICES ASSUME PtyInv, ScriptWrite
             PROVE  PtyInv'
  OBVIOUS
<1> DEFINE S == 1..Len(text)
<1>1. /\ PtyTypeOK /\ NothingLostInside /\ LostUndecodable /\ ChunksWhole /\ EndsAfterExit
      /\ Len(text) \in Nat /\ written \in Nat /\ pty \in Seq(S)
      /\ HandedOver \in Seq(S) /\ Held \in Seq(S) /\ Sent \in Seq(S)
  BY PtyTypes DEF PtyInv, Bytes
<1>2. /\ ~exited /\ written < Len(text) /\ written' = written + 1
      /\ pty' = Append(pty, written + 1)
      /\ utf8' = utf8 /\ text' = text /\ exited' = exited /\ readerPc' = readerPc
      /\ finished' = finished /\ data' = data /\ buffer' = buffer /\ rounds' = rounds
      /\ refused' = refused
  BY DEF ScriptWrite
<1>3. written + 1 \in S /\ written' \in 0..Len(text)
  BY <1>1, <1>2
<1> HIDE DEF S
<1>4. PtyTypeOK'
  <2>1. pty' \in Bytes' /\ data' \in Bytes' /\ buffer' \in Bytes' /\ rounds' \in Seq(Bytes)'
    BY <1>1, <1>2, <1>3 DEF Bytes, S, PtyTypeOK
  <2> QED BY <1>1, <1>2, <1>3, <2>1 DEF PtyTypeOK
<1>5. NothingLostInside'
  <2>1. HandedOver' = HandedOver /\ Held' = Held
    BY <1>2 DEF HandedOver, Held
  <2>2. Sent' = Append(Sent, written + 1)
    <3>1. Sent' = [n \in 1..written + 1 |-> n]
      BY <1>2 DEF Sent
    <3>2. Len(Sent) = written /\ \A n \in 1..written : Sent[n] = n
      BY <1>1 DEF Sent
    <3>3. Append(Sent, written + 1) = [n \in 1..written + 1 |-> n]
      BY <1>1, <3>2
    <3> QED BY <3>1, <3>3
  <2> DEFINE h == HandedOver \o Held
  <2>3. h \in Seq(S)
    BY <1>1, ConcatProperties
  <2> HIDE DEF h
  <2>4. h \o Append(pty, written + 1) = Append(h \o pty, written + 1)
    <3>1. pty \in Seq(S) /\ written + 1 \in S
      BY <1>1, <1>3
    <3> QED BY ONLY <2>3, <3>1, AppendBehind
  <2>5. h \o pty = Sent
    BY <1>1 DEF NothingLostInside, h
  <2> QED BY <1>2, <2>1, <2>2, <2>4, <2>5 DEF NothingLostInside, h
<1>6. ChunksWhole' /\ EndsAfterExit' /\ LostUndecodable'
  BY <1>1, <1>2 DEF ChunksWhole, EndsAfterExit, LostUndecodable, IsHigh
<1> QED BY <1>4, <1>5, <1>6 DEF PtyInv

(* What is handed over is the head of what the reader holds, and the       *)
(* rest is kept.                                                           *)
LEMMA EmitKeeps == PtyInv /\ Emit => PtyInv'
<1> SUFFICES ASSUME PtyInv, Emit
             PROVE  PtyInv'
  OBVIOUS
<1> DEFINE S == 1..Len(text)
           kept == IF utf8 THEN TailLength(data) ELSE 0
           l == Len(data)
           whole == SubSeq(data, 1, l - kept)
           rest == SubSeq(data, l - kept + 1, l)
<1>1. /\ PtyTypeOK /\ NothingLostInside /\ LostUndecodable /\ ChunksWhole /\ EndsAfterExit
      /\ text \in Seq(Kind) /\ Len(text) \in Nat /\ pty \in Seq(S) /\ data \in Seq(S) /\ HandedOver \in Seq(S)
      /\ data \in Bytes /\ rounds \in Seq(Bytes) /\ l \in Nat
  BY PtyTypes, TextsAssumption DEF PtyInv, Bytes, PtyTypeOK
<1>2. /\ readerPc = "emit" /\ buffer' = rest
      /\ rounds' = IF whole # <<>> THEN Append(rounds, whole) ELSE rounds
      /\ \/ refused' = refused
         \/ whole # <<>> /\ MayRefuse(whole) /\ refused' = refused \cup {Len(rounds) + 1}
      /\ readerPc' = IF finished THEN "closed" ELSE "loop"
      /\ utf8' = utf8 /\ text' = text /\ written' = written /\ exited' = exited
      /\ pty' = pty /\ finished' = finished /\ data' = data
  BY DEF Emit, HandOver, Proceed, ptyScript
<1>3. /\ kept \in 0..l
      /\ utf8 => /\ \A m \in l - kept + 1..l : IsHigh(data[m])
                 /\ kept < l => ~IsHigh(data[l - kept])
      /\ ~utf8 => kept = 0
  BY <1>1, TailIs
<1> HIDE DEF S, kept
<1>4. /\ whole \in Seq(S) /\ rest \in Seq(S) /\ whole \o rest = data
      /\ Len(whole) = l - kept /\ Len(rest) = kept
      /\ \A i \in 1..l - kept : whole[i] = data[i]
      /\ \A i \in 1..kept : rest[i] = data[l - kept + i]
  <2> DEFINE k == l - kept
  <2>1. k \in 0..l /\ l - k = kept
    BY <1>1, <1>3
  <2> HIDE DEF k
  <2>2. /\ SubSeq(data, 1, k) \in Seq(S) /\ SubSeq(data, k + 1, l) \in Seq(S)
        /\ Len(SubSeq(data, 1, k)) = k
        /\ Len(SubSeq(data, k + 1, l)) = l - k
        /\ \A i \in 1..k : SubSeq(data, 1, k)[i] = data[i]
        /\ \A i \in 1..l - k : SubSeq(data, k + 1, l)[i] = data[k + i]
        /\ SubSeq(data, 1, k) \o SubSeq(data, k + 1, l) = data
    BY <1>1, <2>1, CutAnywhere
  <2> QED BY <2>1, <2>2 DEF k
<1> HIDE DEF whole, rest, l
<1>5. rounds' \in Seq(Bytes) /\ HandedOver' = HandedOver \o whole
  <2>1. rounds \in Seq(Seq(S)) /\ whole \in Bytes
    BY <1>1, <1>4 DEF Bytes, S
  <2>2. CASE whole # <<>>
    <3>1. rounds' = Append(rounds, whole)
      BY <1>2, <2>2
    <3>2. FlattenSeq(Append(rounds, whole)) = FlattenSeq(rounds) \o whole
      BY <1>4, <2>1, FlattenAppends
    <3> QED BY <1>1, <2>1, <3>1, <3>2 DEF HandedOver
  <2>3. CASE whole = <<>>
    <3>1. rounds' = rounds
      BY <1>2, <2>3
    <3>2. HandedOver' = HandedOver
      BY <3>1 DEF HandedOver
    <3>3. HandedOver \o <<>> = HandedOver
      BY <1>1, ConcatEmptySeq
    <3> QED BY <1>1, <2>3, <3>1, <3>2, <3>3
  <2> QED BY <2>2, <2>3
<1>6. PtyTypeOK'
  <2>1. pty' \in Bytes' /\ data' \in Bytes' /\ buffer' \in Bytes' /\ rounds' \in Seq(Bytes)'
    BY <1>1, <1>2, <1>4, <1>5 DEF Bytes, S
  <2>2. readerPc' \in {"loop", "closed"}
    BY <1>2
  <2>3. refused' \subseteq DOMAIN rounds'
    <3>1. refused \subseteq 1..Len(rounds) /\ DOMAIN rounds' = 1..Len(rounds')
      BY <1>1, <1>5 DEF PtyTypeOK
    <3>2. CASE whole # <<>>
      <4>1. Len(rounds) \in Nat /\ Len(rounds') = Len(rounds) + 1
        BY <1>1, <1>2, <3>2
      <4>2. refused' \subseteq refused \cup {Len(rounds) + 1}
        BY <1>2
      <4> HIDE DEF whole, l, kept, S
      <4> QED BY <3>1, <4>1, <4>2
    <3>3. CASE whole = <<>>
      BY <1>2, <3>1, <3>3
    <3> QED BY <3>2, <3>3
  <2> QED BY <1>1, <1>2, <2>1, <2>2, <2>3 DEF PtyTypeOK
<1>7. NothingLostInside'
  <2>1. Held = data /\ Held' = rest /\ Sent' = Sent
    BY <1>2 DEF Held, Sent
  <2>2. (HandedOver \o whole) \o rest = HandedOver \o data
    <3>1. \A p, q, x \in Seq(S) : (p \o q) \o x = p \o (q \o x)
      BY ONLY ConcatAssociative
    <3>2. HandedOver \in Seq(S) /\ whole \in Seq(S) /\ rest \in Seq(S)
      BY <1>1, <1>4
    <3>3. (HandedOver \o whole) \o rest = HandedOver \o (whole \o rest)
      BY ONLY <3>1, <3>2
    <3> QED BY <1>4, <3>3
  <2> QED BY <1>1, <1>2, <1>5, <2>1, <2>2 DEF NothingLostInside
<1>8. ChunksWhole'
  <2>1. CASE whole # <<>>
    <3>1. l - kept # 0 /\ l - kept \in 1..l - kept /\ kept < l
      <4>1. Len(whole) # 0
        BY <1>4, <2>1, EmptySeq
      <4> QED BY <1>1, <1>3, <1>4, <4>1
    <3>2. Last(whole) = data[l - kept]
      BY <1>4, <3>1 DEF Last
    <3>3. utf8 => ~IsHigh(Last(whole))
      BY <1>3, <3>1, <3>2
    <3>4. ASSUME NEW n \in 1..Len(rounds')
          PROVE  rounds'[n] # <<>> /\ (utf8' => text'[rounds'[n][Len(rounds'[n])]] # "high")
      <4>1. rounds' = Append(rounds, whole)
        BY <1>2, <2>1
      <4>2. CASE n \in 1..Len(rounds)
        <5>1. rounds'[n] = rounds[n]
          BY <1>1, <4>1, <4>2
        <5>2. rounds[n] # <<>> /\ (utf8 => text[rounds[n][Len(rounds[n])]] # "high")
          BY <1>1, <4>2 DEF ChunksWhole, IsHigh, Last
        <5> QED BY <1>2, <5>1, <5>2
      <4>3. CASE n = Len(rounds) + 1
        <5>1. rounds'[n] = whole
          BY <1>1, <4>1, <4>3
        <5>2. utf8 => text[whole[Len(whole)]] # "high"
          BY <3>3 DEF IsHigh, Last
        <5> QED BY <1>2, <2>1, <5>1, <5>2
      <4>4. n \in 1..Len(rounds) \/ n = Len(rounds) + 1
        <5>1. Len(rounds) \in Nat /\ Len(rounds') = Len(rounds) + 1
          BY <1>1, <4>1
        <5> HIDE DEF whole, l, kept, S
        <5> QED BY <5>1
      <4> QED BY <4>2, <4>3, <4>4
    <3> QED BY <3>4 DEF ChunksWhole, IsHigh, Last
  <2>2. CASE whole = <<>>
    <3>1. rounds' = rounds
      BY <1>2, <2>2
    <3> QED BY <1>1, <1>2, <3>1 DEF ChunksWhole, IsHigh
  <2> QED BY <2>1, <2>2
<1>9. EndsAfterExit'
  <2>1. readerPc' = "closed" => exited'
    BY <1>1, <1>2 DEF EndsAfterExit
  <2>2. ASSUME NEW i \in 1..Len(buffer')
        PROVE  utf8' /\ text'[buffer'[i]] = "high"
    <3>1. i \in 1..kept /\ kept # 0 /\ utf8
      BY <1>2, <1>3, <1>4
    <3>2. l - kept + i \in l - kept + 1..l
      BY <1>1, <1>3, <3>1
    <3>3. IsHigh(data[l - kept + i]) /\ buffer'[i] = data[l - kept + i]
      BY <1>2, <1>3, <1>4, <3>1, <3>2
    <3> QED BY <1>2, <3>1, <3>3 DEF IsHigh
  <2>3. readerPc' # "drain" /\ (finished' => exited')
    BY <1>1, <1>2 DEF EndsAfterExit
  <2> QED BY <2>1, <2>2, <2>3 DEF EndsAfterExit, IsHigh
<1>10. LostUndecodable'
  <2>1. ASSUME NEW n \in refused'
        PROVE  ~utf8 /\ \E m \in 1..Len(rounds'[n]) : text[rounds'[n][m]] = "high"
    <3>1. CASE n \in refused
      <4>1. n \in 1..Len(rounds)
        BY <1>1, <3>1 DEF PtyTypeOK
      <4>2. rounds'[n] = rounds[n]
        BY <1>1, <1>2, <4>1
      <4> QED BY <1>1, <3>1, <4>2 DEF LostUndecodable, IsHigh
    <3>2. CASE n \notin refused
      <4>1. n = Len(rounds) + 1 /\ whole # <<>> /\ MayRefuse(whole)
        BY <1>2, <2>1, <3>2
      <4>2. rounds'[n] = whole
        BY <1>1, <1>2, <4>1
      <4> QED BY <4>1, <4>2 DEF MayRefuse, IsHigh
    <3> QED BY <3>1, <3>2
  <2> QED BY <1>2, <2>1 DEF LostUndecodable, IsHigh
<1> QED BY <1>6, <1>7, <1>8, <1>9, <1>10 DEF PtyInv

(* Every step of the script and of the reader keeps the invariant.         *)
LEMMA PtyStep == PtyInv /\ [PtyNext]_ptyVars => PtyInv'
<1> SUFFICES ASSUME PtyInv, [PtyNext]_ptyVars
             PROVE  PtyInv'
  OBVIOUS
<1>0. /\ PtyTypeOK /\ EndsAfterExit /\ data \in Bytes /\ buffer \in Bytes /\ <<>> \in Bytes
      /\ exited \in BOOLEAN /\ finished \in BOOLEAN
      /\ MaxRead \in Nat
  BY PtyTypes, ReadAssumption DEF PtyInv, PtyTypeOK, Bytes
<1>1. CASE ScriptWrite
  BY <1>1, WriteKeeps
<1>2. CASE ScriptExit
  <2>1. UNCHANGED <<utf8, text, written, pty, rounds, refused, readerPc, finished, data, buffer>> /\ exited' = TRUE
    BY <1>2 DEF ScriptExit
  <2>2. EndsAfterExit'
    BY <1>0, <2>1 DEF EndsAfterExit, IsHigh
  <2>3. Held' = Held
    BY <2>1 DEF Held
  <2> QED BY <1>0, <2>1, <2>2, <2>3, BytesStay DEF PtyTypeOK
<1>3. CASE Loop
  <2>1. /\ readerPc = "loop" /\ data' = buffer /\ buffer' = <<>> /\ finished' = FALSE
        /\ readerPc' = IF exited THEN "drain" ELSE "read"
        /\ UNCHANGED <<utf8, text, written, pty, rounds, refused, exited>>
    BY <1>3 DEF Loop, Proceed, ptyScript
  <2>2. EndsAfterExit'
    BY <1>0, <2>1 DEF EndsAfterExit
  <2>3. Held' = Held
    BY <2>1 DEF Held
  <2> QED BY <1>0, <2>1, <2>2, <2>3, BytesStay
<1>4. CASE Drain
  BY <1>0, <1>4, ReadUpToKeeps DEF Drain, EndsAfterExit
<1>5. ASSUME NEW label \in {"check"}, Blocked(label), readerPc \in {"read", "more", "complete"}
      PROVE  PtyInv'
  <2>1. /\ readerPc' = "check"
        /\ UNCHANGED <<utf8, text, written, pty, rounds, refused, exited, finished, data, buffer>>
    BY <1>5 DEF Blocked, Proceed, ptyScript
  <2>2. EndsAfterExit'
    BY <1>0, <2>1 DEF EndsAfterExit
  <2>3. Held' = Held
    BY <1>5, <2>1 DEF Held
  <2> QED BY <1>0, <2>1, <2>2, <2>3, BytesStay
<1>6. ASSUME readerPc' = "emit", finished' => exited, finished' \in BOOLEAN,
             readerPc \in {"drain", "check"},
             UNCHANGED <<utf8, text, written, pty, rounds, refused, exited, data, buffer>>
      PROVE  PtyInv'
  <2>1. EndsAfterExit'
    BY <1>0, <1>6 DEF EndsAfterExit
  <2>2. Held' = Held
    BY <1>6 DEF Held
  <2> QED BY <1>0, <1>6, <2>1, <2>2, BytesStay
<1>7. CASE DrainEnd
  BY <1>0, <1>6, <1>7 DEF DrainEnd, Proceed, ptyScript, EndsAfterExit
<1>8. CASE Read
  <2>1. CASE ReadUpTo(MaxRead, "more")
    BY <1>0, <1>8, <2>1, ReadUpToKeeps DEF Read
  <2>2. CASE Blocked("check")
    BY <1>5, <1>8, <2>2 DEF Read
  <2> QED BY <1>8, <2>1, <2>2 DEF Read
<1>9. ASSUME NEW label \in {"complete", "emit"}, readerPc' = label,
             readerPc \in {"more", "complete"},
             UNCHANGED <<utf8, text, written, exited, pty, finished, data, buffer, rounds, refused>>
      PROVE  PtyInv'
  <2>1. Held' = Held /\ data # <<>>
    BY <1>0, <1>9 DEF Held, PtyTypeOK
  <2> QED BY <1>0, <1>9, <2>1, BytesStay DEF EndsAfterExit
<1>10. CASE More
  <2>1. CASE ReadUpTo(1, "complete")
    BY <1>10, <2>1, ReadUpToKeeps DEF More
  <2>2. CASE Blocked("check")
    BY <1>5, <1>10, <2>2 DEF More
  <2>3. CASE Proceed("complete") /\ UNCHANGED <<ptyScript, pty, finished, data, buffer, rounds, refused>>
    BY <1>9, <1>10, <2>3 DEF More, Proceed, ptyScript
  <2> QED BY <1>10, <2>1, <2>2, <2>3 DEF More
<1>11. CASE Complete
  <2>1. CASE ReadUpTo(1, "complete")
    BY <1>11, <2>1, ReadUpToKeeps DEF Complete
  <2>2. CASE Blocked("check")
    BY <1>5, <1>11, <2>2 DEF Complete
  <2>3. CASE Proceed("emit") /\ UNCHANGED <<ptyScript, pty, finished, data, buffer, rounds, refused>>
    BY <1>9, <1>11, <2>3 DEF Complete, Proceed, ptyScript
  <2> QED BY <1>11, <2>1, <2>2, <2>3 DEF Complete
<1>12. CASE CheckFinished
  BY <1>0, <1>6, <1>12 DEF CheckFinished, Proceed, ptyScript
<1>13. CASE Emit
  BY <1>13, EmitKeeps
<1>14. CASE UNCHANGED ptyVars
  <2>1. UNCHANGED <<utf8, text, written, exited, pty, readerPc, finished, data, buffer, rounds, refused>>
    BY <1>14 DEF ptyVars
  <2>2. EndsAfterExit' /\ Held' = Held
    BY <1>0, <2>1 DEF EndsAfterExit, IsHigh, Held
  <2> QED BY <1>0, <2>1, <2>2, BytesStay DEF PtyTypeOK
<1> QED
  BY <1>1, <1>2, <1>3, <1>4, <1>7, <1>8, <1>10, <1>11, <1>12, <1>13, <1>14 DEF PtyNext, Reader

-----------------------------------------------------------------------------
(* The theorem.                                                            *)

(* What is missing in the stream is at the end of what was sent.           *)
LEMMA RestIsLast ==
    ASSUME NEW S, NEW p \in Seq(S), NEW r \in Seq(S), NEW q \in Seq(S), p \o r = q,
           NEW n \in Len(p) + 1..Len(q)
    PROVE  n - Len(p) \in 1..Len(r) /\ r[n - Len(p)] = q[n]
<1>1. /\ Len(p \o r) = Len(p) + Len(r)
      /\ \A i \in 1..Len(p) + Len(r) : (p \o r)[i] = IF i <= Len(p) THEN p[i] ELSE r[i - Len(p)]
  BY ConcatProperties
<1>2. Len(p) \in Nat /\ Len(r) \in Nat /\ Len(q) = Len(p) + Len(r)
  BY <1>1
<1>3. n \in 1..Len(p) + Len(r) /\ ~(n <= Len(p)) /\ n - Len(p) \in 1..Len(r)
  BY <1>2
<1> QED BY <1>1, <1>3

(* The invariant says that the output is whole.                            *)
LEMMA PtyInvWhole == PtyInv => TerminalWhole
<1> SUFFICES ASSUME PtyInv
             PROVE  TerminalWhole
  OBVIOUS
<1> DEFINE S == 1..Len(text)
<1>1. /\ PtyTypeOK /\ NothingLostInside /\ LostUndecodable /\ ChunksWhole /\ EndsAfterExit
      /\ pty \in Seq(S) /\ HandedOver \in Seq(S) /\ buffer \in Seq(S) /\ Held \in Seq(S) /\ Sent \in Seq(S)
      /\ written \in Nat /\ rounds \in Seq(Bytes)
  BY PtyTypes DEF PtyInv, Bytes
<1>2. WholeCharacters
  <2>1. DOMAIN rounds = 1..Len(rounds)
    BY <1>1
  <2> QED BY <1>1, <2>1 DEF ChunksWhole, WholeCharacters
<1> HIDE DEF S
<1>3. ASSUME readerPc = "closed", pty = <<>>, NEW n \in Len(HandedOver) + 1..written
      PROVE  utf8 /\ IsHigh(n)
  <2>1. Held = buffer
    BY <1>3 DEF Held
  <2>2. HandedOver \o buffer = Sent
    <3> DEFINE c == HandedOver \o buffer
    <3>1. c \in Seq(S)
      BY <1>1, ConcatProperties
    <3>2. c \o <<>> = Sent
      BY <1>1, <1>3, <2>1 DEF NothingLostInside
    <3> HIDE DEF c
    <3>3. c \o <<>> = c
      BY <3>1, ConcatEmptySeq
    <3> QED BY <3>2, <3>3 DEF c
  <2>3. Len(Sent) = written /\ \A i \in 1..written : Sent[i] = i
    BY <1>1 DEF Sent
  <2>4. n \in 1..written /\ Len(HandedOver) \in Nat
    BY <1>1, <1>3
  <2>5. n - Len(HandedOver) \in 1..Len(buffer) /\ buffer[n - Len(HandedOver)] = Sent[n]
    BY <1>1, <1>3, <2>2, <2>3, RestIsLast
  <2>6. buffer[n - Len(HandedOver)] = n
    BY <2>3, <2>4, <2>5
  <2>7. utf8 /\ IsHigh(buffer[n - Len(HandedOver)])
    BY <1>1, <1>3, <2>5 DEF EndsAfterExit
  <2> QED BY <2>6, <2>7
<1>4. ClosedComplete
  BY <1>1, <1>3 DEF ClosedComplete, EndsAfterExit
<1> QED BY <1>1, <1>2, <1>4 DEF TerminalWhole

(* Whatever a script writes and however the reader is interrupted, no byte *)
(* is lost, doubled or moved between the terminal and decode, no chunk     *)
(* ends within a character, decode drops only chunks with bytes from 127   *)
(* on and nothing in utf-8, and the stream closes only after the process   *)
(* has ended, when all was handed over but what was not read or is part of *)
(* a last, unfinished character.                                           *)
THEOREM TerminalIsWhole == PtySpec => []TerminalWhole
<1>1. PtySpec => []PtyInv
  BY PtyStart, PtyStep, PTL DEF PtySpec
<1> QED BY <1>1, PtyInvWhole, PTL
=============================================================================
